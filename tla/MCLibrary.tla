------------------------------ MODULE MCLibrary ------------------------------
(***************************************************************************)
(* What the browser keeps for the user: tabs and their session, reader     *)
(* mode, passwords, downloads, history and bookmarks, search engines, the  *)
(* storage of the video-translation script, web apps, and the process that *)
(* holds them.  They share no state, so a behaviour is one of one part,    *)
(* and the state spaces add.                                               *)
(***************************************************************************)
EXTENDS TabSession, ReaderMode, Authentication, Downloads, History, Bookmarks, VotStorage, WebApps, ApplicationLaunch,
        CredentialsPage, SearchEngines

VARIABLE part

MCBuiltInEngines ==
  << [id |-> "b1", name |-> "n1", keyword |-> "k1", enabled |-> TRUE, builtIn |-> TRUE],
     [id |-> "b2", name |-> "n2", keyword |-> "k2", enabled |-> TRUE, builtIn |-> TRUE] >>

Parts ==
  {"tabs", "reader", "authentication", "downloads", "history", "bookmarks", "storage", "apps", "launch", "credentials",
   "search"}

states ==
  << tbVars, rdVars, auVars, dlVars, hsVars, bmVars, vsVars, waVars, laVars, cpVars, srVars >>

vars == << states, part >>

\* In each part the other components stay in one of their initial states.
Init ==
  /\ part \in Parts
  /\ TbInit /\ RdInit /\ AuInit /\ DlInit /\ HsInit /\ BmInit /\ VsInit /\ WaInit /\ LaInit /\ CpInit
  /\ SrInit
  /\ part # "tabs" => tb.mode = "StartPage" /\ tb.file = NoFile
  /\ part # "reader" => rd.appearance = CHOOSE a \in Appearances : TRUE
  /\ part # "authentication" => au.saved = [k \in Keys |-> NoPassword]
  /\ au.server = [k \in Keys |-> CHOOSE p \in Passwords : TRUE]
  /\ part # "storage" => vs.values = CHOOSE entry \in Entry : TRUE
  /\ part # "apps" => wa.file = << >>
  /\ part # "credentials" => ~cp.store /\ cp.items = [c \in Credentials |-> "none"]

Next ==
  /\ UNCHANGED part
  /\ \/ part = "tabs" /\ TbNext
     \/ part # "tabs" /\ UNCHANGED tbVars
  /\ \/ part = "reader" /\ RdNext
     \/ part # "reader" /\ UNCHANGED rdVars
  /\ \/ part = "authentication" /\ AuNext
     \/ part # "authentication" /\ UNCHANGED auVars
  /\ \/ part = "downloads" /\ DlNext
     \/ part # "downloads" /\ UNCHANGED dlVars
  /\ \/ part = "history" /\ HsNext
     \/ part # "history" /\ UNCHANGED hsVars
  /\ \/ part = "bookmarks" /\ BmNext
     \/ part # "bookmarks" /\ UNCHANGED bmVars
  /\ \/ part = "storage" /\ VsNext
     \/ part # "storage" /\ UNCHANGED vsVars
  /\ \/ part = "apps" /\ WaNext
     \/ part # "apps" /\ UNCHANGED waVars
  /\ \/ part = "launch" /\ LaNext
     \/ part # "launch" /\ UNCHANGED laVars
  /\ \/ part = "credentials" /\ CpNext
     \/ part # "credentials" /\ UNCHANGED cpVars
  /\ \/ part = "search" /\ SrNext
     \/ part # "search" /\ UNCHANGED srVars

\* What is kept of visits, bookmarks, downloads, credentials and search engines is told right, each
\* where it is shown (HistoryAgrees, BookmarksAgree, DownloadsAgree, CredentialsAgree, SearchAgrees).
DataAgrees ==
  CASE part = "history" -> HistoryAgrees
    [] part = "bookmarks" -> BookmarksAgree
    [] part = "downloads" -> DownloadsAgree
    [] part = "credentials" -> CredentialsAgree
    [] part = "search" -> SearchAgrees
    [] OTHER -> TRUE

Spec == Init /\ [][Next]_vars
=============================================================================
