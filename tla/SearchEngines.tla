---------------------------- MODULE SearchEngines ----------------------------
(***************************************************************************)
(* The search engines: the page of the settings dialog that edits a copy   *)
(* of them (SearchSettingsPage), what may be saved (SearchSettings), and   *)
(* what the address bar makes of an input.  Names, keywords and URL        *)
(* templates are values; that one of them is not well-formed is one more   *)
(* reason for which an edit is refused.                                    *)
(***************************************************************************)
EXTENDS SequencesExt, Subsequences

CONSTANTS
  BuiltInEngines,  \* the engines as shipped, in their order
  CustomIds,       \* ids an engine of the user's can be given
  EngineNames, Keywords

NoName == ""
NoKeyword == ""
NoEngine == "none"

ASSUME SearchAssumption ==
  /\ BuiltInEngines # << >>
  /\ BuiltInEngines \in Seq([id : STRING, name : STRING, keyword : STRING, enabled : {TRUE}, builtIn : {TRUE}])
  /\ \A i, j \in DOMAIN BuiltInEngines :
       i # j => /\ BuiltInEngines[i].id # BuiltInEngines[j].id
                /\ BuiltInEngines[i].name # BuiltInEngines[j].name
                /\ BuiltInEngines[i].keyword # BuiltInEngines[j].keyword

VARIABLE sr

srVars == << sr >>

(***************************************************************************)
(* A configuration is its engines and the id of the default one.  page is  *)
(* the one being edited; rows is the list with its check boxes, choices    *)
(* and choice the box that selects the default.  The page opens with a     *)
(* configuration that was saved: the one shipped, or one that edits of it  *)
(* can reach and SearchSettings::save accepts.                             *)
(***************************************************************************)
ShippedEngines == [engines |-> BuiltInEngines, default |-> BuiltInEngines[1].id]

SrIs(S) == sr' = S

EnabledEngines(c) == ElementsWith(c.engines, LAMBDA e : e.enabled)
EngineById(c, id) == SelectInSeq(c.engines, LAMBDA e : e.id = id)
DefaultIsEnabled(c) == \E i \in DOMAIN c.engines : c.engines[i].id = c.default /\ c.engines[i].enabled

ValidEngines(c) ==
  /\ \A i, j \in DOMAIN c.engines :
       i # j => /\ c.engines[i].id # c.engines[j].id
                /\ c.engines[i].name # c.engines[j].name
                /\ c.engines[i].keyword = NoKeyword \/ c.engines[i].keyword # c.engines[j].keyword
  /\ DefaultIsEnabled(c)

(***************************************************************************)
(* The two views of the page.                                              *)
(***************************************************************************)
RowsOf(c) == [i \in DOMAIN c.engines |-> [id |-> c.engines[i].id, checked |-> c.engines[i].enabled]]

\* A default that is not among the enabled engines makes way for the first of them.
RebuildDefaultEngines(S) ==
  LET enabled == EnabledEngines(S.page)
      default == IF DefaultIsEnabled(S.page) \/ enabled = << >> THEN S.page.default ELSE enabled[1].id
  IN  [S EXCEPT !.page.default = default, !.choices = [i \in DOMAIN enabled |-> enabled[i].id],
                !.choice = IF enabled = << >> THEN NoEngine ELSE default]

RebuildList(S) == RebuildDefaultEngines([S EXCEPT !.rows = RowsOf(S.page)])

SrInit ==
  sr = RebuildList([page |-> ShippedEngines, rows |-> << >>, choices |-> << >>, choice |-> NoEngine])

ChooseDefault ==
  \E id \in ToSet(sr.choices) : SrIs([sr EXCEPT !.page.default = id, !.choice = id])

\* Before it is validated: the default engine that is switched off passes that on to the first enabled one.
Reassigned(c, id) ==
  LET enabled == EnabledEngines(c)
      off == EngineById(c, id) # 0 /\ ~c.engines[EngineById(c, id)].enabled
  IN  IF off /\ c.default = id /\ enabled # << >> THEN [c EXCEPT !.default = enabled[1].id] ELSE c

\* editEngine: until it is valid, or the editor is cancelled.
Accepted(candidate) == ValidEngines(candidate) /\ SrIs(RebuildList([sr EXCEPT !.page = candidate]))

Edited(engine) ==
  [id : {engine.id}, name : EngineNames, keyword : Keywords \cup {NoKeyword}, enabled : BOOLEAN,
   builtIn : {engine.builtIn}]

AddEngine ==
  \E id \in CustomIds :
  \E engine \in Edited([id |-> id, name |-> NoName, keyword |-> NoKeyword, enabled |-> TRUE, builtIn |-> FALSE]) :
    /\ EngineById(sr.page, id) = 0
    /\ Accepted(Reassigned([sr.page EXCEPT !.engines = Append(@, engine)], id))

EditSelectedEngine ==
  \E i \in DOMAIN sr.page.engines : \E engine \in Edited(sr.page.engines[i]) :
    Accepted(Reassigned([sr.page EXCEPT !.engines[i] = engine], engine.id))

\* This is not validated.
RemoveSelectedEngine ==
  \E i \in DOMAIN sr.page.engines :
    /\ ~sr.page.engines[i].builtIn
    /\ SrIs(RebuildList([sr EXCEPT !.page.engines = RemoveAt(@, i)]))

RestoreBuiltIns(c) ==
  LET restored == [c EXCEPT !.engines = BuiltInEngines \o ElementsWith(@, LAMBDA e : ~e.builtIn)]
  IN  IF DefaultIsEnabled(restored) THEN restored ELSE [restored EXCEPT !.default = BuiltInEngines[1].id]

RestoreBuiltInEngines == Accepted(RestoreBuiltIns(sr.page))

\* The user clicks a check box; if that is refused, it is set back.
SetEngineEnabled ==
  \E i \in DOMAIN sr.rows :
    LET id == sr.rows[i].id
        at == EngineById(sr.page, id)
        candidate == Reassigned([sr.page EXCEPT !.engines[at].enabled = ~sr.rows[i].checked], id)
        clicked == [sr EXCEPT !.rows[i].checked = ~@]
    IN  SrIs(IF ValidEngines(candidate) THEN RebuildDefaultEngines([clicked EXCEPT !.page = candidate])
             ELSE [clicked EXCEPT !.rows[i].checked = sr.page.engines[at].enabled])

SrNext ==
  \/ ChooseDefault \/ AddEngine \/ EditSelectedEngine \/ RemoveSelectedEngine \/ RestoreBuiltInEngines
  \/ SetEngineEnabled

(***************************************************************************)
(* What the address bar makes of a keyword and a query, or of a query.     *)
(***************************************************************************)
EngineForKeyword(c, keyword) == SelectInSeq(c.engines, LAMBDA e : e.enabled /\ e.keyword = keyword)

SearchUrl(c, i) == IF i # 0 /\ c.engines[i].enabled THEN c.engines[i].id ELSE NoEngine

ResolveAddressInput(c, keyword) ==
  SearchUrl(c, IF keyword = NoKeyword THEN EngineById(c, c.default) ELSE EngineForKeyword(c, keyword))

(***************************************************************************)
(* Property.                                                               *)
(***************************************************************************)
\* However the engines are edited, the page shows them as they are, and what it holds can be saved,
\* unless the user has left no engine enabled; with what can be saved, a query finds the default
\* engine, and a keyword the one that is enabled and has it (SearchSettingsPage,
\* SearchSettings::validate, resolveAddressInput).
SearchAgrees ==
  /\ sr.rows = RowsOf(sr.page)
  /\ sr.choices = [i \in DOMAIN EnabledEngines(sr.page) |-> EnabledEngines(sr.page)[i].id]
  /\ IF sr.choices = << >> THEN sr.choice = NoEngine ELSE sr.choice = sr.page.default /\ ValidEngines(sr.page)
  /\ ValidEngines(sr.page) =>
       /\ ResolveAddressInput(sr.page, NoKeyword) = sr.page.default
       /\ \A e \in ToSet(EnabledEngines(sr.page)) :
            e.keyword # NoKeyword => ResolveAddressInput(sr.page, e.keyword) = e.id
=============================================================================
