------------------------------ MODULE MCWindow ------------------------------
(***************************************************************************)
(* One window: its surfaces and prompts, the strip of its tabs, the find   *)
(* bar and the questions of its pages, the zoom.  These parts share no     *)
(* state, so a behaviour is one of one part, and the state spaces add.     *)
(***************************************************************************)
EXTENDS VideoPresentation, TabStrip, PageTools, PageZoom

VARIABLE part

Parts == {"surfaces", "strip", "tools", "zoom"}

windowVars == << vars, spVars, ptVars, pzVars, part >>

\* In each part the others stay in one of their initial states.
InitParts ==
  /\ part \in Parts
  /\ Init /\ SpInit /\ PtInit /\ PzInit
  /\ part # "strip" => sp.available = CHOOSE width \in AvailableWidths : TRUE
  /\ part # "zoom" =>
       pz.window = CHOOSE window \in [ZoomTabs -> ZoomWindows] : \A w \in ZoomWindows : \E t \in ZoomTabs : window[t] = w

NextOfPart ==
  /\ UNCHANGED part
  /\ \/ part = "surfaces" /\ Next
     \/ part # "surfaces" /\ UNCHANGED vars
  /\ \/ part = "strip" /\ SpNext
     \/ part # "strip" /\ UNCHANGED spVars
  /\ \/ part = "tools" /\ PtNext
     \/ part # "tools" /\ UNCHANGED ptVars
  /\ \/ part = "zoom" /\ PzNext
     \/ part # "zoom" /\ UNCHANGED pzVars

\* The timers of the surfaces fire, as FairSpec has it.
FairParts ==
  InitParts /\ [][NextOfPart]_windowVars /\ WF_vars(ExitTimer) /\ \A v \in Views : WF_vars(ReturnTimer(v))

\* What a window shows follows its pages and tabs: the find bar and the question about another
\* application, the zoom, the widths of the tabs (ToolsFollowPage, ZoomAgrees, WidthsSettle).
WindowAgrees ==
  CASE part = "tools" -> ToolsFollowPage
    [] part = "zoom" -> ZoomAgrees
    [] part = "strip" -> WidthsSettle
    [] OTHER -> TRUE
=============================================================================
