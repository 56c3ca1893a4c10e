------------------------------ MODULE Bookmarks ------------------------------
(***************************************************************************)
(* The bookmarks (BookmarkStore, its dialogs and the star of each window). *)
(* A bookmark has an id and an address.  bookmarksChanged makes each       *)
(* window look its address up again (updateBookmarkAction).                *)
(***************************************************************************)
EXTENDS Integers, FiniteSets, FiniteSetsExt

CONSTANTS
  Links,           \* addresses as the store normalizes them
  Windows,         \* the windows open, each with its star
  MaxBookmarkId    \* bound: ids

ASSUME BookmarksAssumption == MaxBookmarkId \in Nat

VARIABLE bm

bmVars == << bm >>

Blank == "blank"    \* an address that cannot be bookmarked

(***************************************************************************)
(* rows: the table; address and star: what a window shows.                 *)
(***************************************************************************)
BmInit == bm = [rows |-> {}, address |-> [w \in Windows |-> Blank], star |-> [w \in Windows |-> FALSE]]

BmIs(S) == bm' = S

Bookmarked(rows, address) == \E r \in rows : r.address = address

UpdateBookmarkAction(S, w) == [S EXCEPT !.star[w] = Bookmarked(S.rows, S.address[w])]

BookmarksChanged(S) == [S EXCEPT !.star = [w \in Windows |-> Bookmarked(S.rows, S.address[w])]]

\* urlChanged, and a change of tabs
ShowAddress ==
  \E w \in Windows, address \in Links \cup {Blank} :
    BmIs(UpdateBookmarkAction([bm EXCEPT !.address[w] = address], w))

NextBookmark(rows) == IF rows = {} THEN 1 ELSE 1 + Max({ r.id : r \in rows })

\* BookmarkDialog::saveBookmark for an address that editCurrentBookmark did not find
AddOrUpdate ==
  \E address \in Links :
    /\ NextBookmark(bm.rows) <= MaxBookmarkId
    /\ BmIs(IF Bookmarked(bm.rows, address) THEN bm
         ELSE BookmarksChanged([bm EXCEPT !.rows = @ \cup { [id |-> NextBookmark(@), address |-> address] }]))

\* An update keeps the id, and is refused when another bookmark has the address.
UpdateBookmark ==
  \E r \in bm.rows, address \in Links :
    /\ ~\E other \in bm.rows : other # r /\ other.address = address
    /\ BmIs(BookmarksChanged([bm EXCEPT !.rows = (@ \ {r}) \cup { [r EXCEPT !.address = address] }]))

RemoveBookmarks == \E gone \in SUBSET bm.rows : gone # {} /\ BmIs(BookmarksChanged([bm EXCEPT !.rows = @ \ gone]))

BmNext == ShowAddress \/ AddOrUpdate \/ UpdateBookmark \/ RemoveBookmarks

(***************************************************************************)
(* Property.                                                               *)
(***************************************************************************)
\* No address is bookmarked twice, and each window's star tells whether its address is bookmarked,
\* whichever window has changed the bookmarks (BookmarkStore, updateBookmarkAction).
BookmarksAgree ==
  /\ \A r, s \in bm.rows : r.address = s.address \/ r.id = s.id => r = s
  /\ \A w \in Windows : bm.star[w] = Bookmarked(bm.rows, bm.address[w])
=============================================================================
