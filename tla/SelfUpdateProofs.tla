------------------------- MODULE SelfUpdateProofs -------------------------
(***************************************************************************)
(* What SelfUpdate promises for any number of scripts, commits and faults. *)
(*                                                                         *)
(* The argument: every code in use lies on a chain.  What runs is not      *)
(* newer than what is installed, that not newer than what is built, that   *)
(* not newer than the sources of a build under way, and those not newer    *)
(* than the files of the checkout.  A label is not newer than the code it  *)
(* comes with, since HEAD is set after the files are written.              *)
(* And whenever the checkout is ahead of what is built, some update is on  *)
(* its way to build it, as long as none was cut short.                     *)
(***************************************************************************)
EXTENDS SelfUpdate, TLAPS

Chain ==
  /\ run["server"].code <= copy.code /\ copy.code <= bin["server"].code
  /\ run["mover"].code <= bin["mover"].code
  /\ \A p \in Programs : bin[p].code <= tree
  /\ \A s \in Scripts :
       script[s].at = "building" =>
         /\ script[s].from <= tree
         /\ \A p \in Programs : bin[p].code <= script[s].from

LabelOld(b) == b.label # Unknown => b.label <= b.code

LabelsOld ==
  /\ LabelOld(bin["mover"]) /\ LabelOld(run["mover"])
  /\ \A s \in Scripts : script[s].label # Unknown =>
       /\ script[s].label <= head
       /\ script[s].at = "building" => script[s].label <= script[s].from

UpdateInv == TypeOK /\ Chain /\ LabelsOld

USE NoneAssumption, BoundsAssumption

---------------------------------------------------------------------------
\* A script at another place is a script with the same label and sources.
LEMMA At ==
  ASSUME NEW r \in Script, NEW place \in Places
  PROVE  /\ [r EXCEPT !.at = place] \in Script
         /\ [r EXCEPT !.at = place].at = place
         /\ [r EXCEPT !.at = place].label = r.label /\ [r EXCEPT !.at = place].from = r.from
BY DEF Script

\* The step of a script that changes nothing but where that script is, and not
\* from or to its build.
LEMMA StepTypes ==
  ASSUME TypeOK, NEW s \in Scripts, NEW place \in Places \ {"building"},
         script[s].at # "building", script' = [script EXCEPT ![s].at = place],
         UNCHANGED <<copy, bin, run, lock>>
  PROVE  /\ script' \in [Scripts -> Script]
         /\ \A t \in Scripts : script'[t].at = "building" <=> lock' = t
         /\ \A t \in Scripts : /\ script'[t].label = script[t].label
                               /\ script'[t].from = script[t].from
BY DEF TypeOK, Script

\* A script whose place and one of its commits are written keeps its type.
LEMMA RecordTypes ==
  ASSUME NEW old \in [Scripts -> Script], NEW s \in Scripts, NEW place \in Places, NEW commit \in Commits
  PROVE  /\ [old EXCEPT ![s].at = place, ![s].saw = commit] \in [Scripts -> Script]
         /\ [old EXCEPT ![s].at = place, ![s].label = commit] \in [Scripts -> Script]
         /\ [old EXCEPT ![s].at = place, ![s].from = commit] \in [Scripts -> Script]
<1>1. old[s] \in Script
  OBVIOUS
<1>2. ASSUME NEW r \in Script PROVE [old EXCEPT ![s] = r] \in [Scripts -> Script]
  OBVIOUS
<1>3. /\ [old[s] EXCEPT !.at = place, !.saw = commit] \in Script
      /\ [old[s] EXCEPT !.at = place, !.label = commit] \in Script
      /\ [old[s] EXCEPT !.at = place, !.from = commit] \in Script
  BY <1>1 DEF Script, Labels
<1>4. /\ [old EXCEPT ![s].at = place, ![s].saw = commit]
           = [old EXCEPT ![s] = [old[s] EXCEPT !.at = place, !.saw = commit]]
      /\ [old EXCEPT ![s].at = place, ![s].label = commit]
           = [old EXCEPT ![s] = [old[s] EXCEPT !.at = place, !.label = commit]]
      /\ [old EXCEPT ![s].at = place, ![s].from = commit]
           = [old EXCEPT ![s] = [old[s] EXCEPT !.at = place, !.from = commit]]
  OBVIOUS
<1> QED BY <1>2, <1>3, <1>4

\* A script is launched with a record of its type.
LEMMA LaunchTypes ==
  ASSUME TypeOK, NEW s \in Scripts, NEW kind \in Kinds, NEW cgroup \in Programs \cup {"none"},
         NEW place \in Places \ {"building"}, Launch(s, kind, cgroup, place), lock' = lock
  PROVE  /\ script' \in [Scripts -> Script]
         /\ \A t \in Scripts : script'[t].at = "building" <=> lock' = t
         /\ \A t \in Scripts : script'[t].label \in {Unknown, script[t].label}
         /\ \A t \in Scripts : script'[t].at = "building" => script'[t] = script[t]
<1> DEFINE r == [Unused EXCEPT !.at = place, !.kind = kind, !.in = cgroup]
<1>1. Unused \in Script /\ Unused.label = Unknown
  BY DEF Unused, Script, Commits, Labels, Places, Over, Kinds
<1>2. r \in Script /\ r.at = place /\ r.label = Unknown
  BY <1>1 DEF Script
<1>3. script[s].at = "unused" /\ script' = [script EXCEPT ![s] = r]
  BY DEF Launch
<1> HIDE DEF r
<1> QED BY <1>2, <1>3 DEF TypeOK

\* A stop keeps the types: the scripts it cuts are over, and so is their build.
LEMMA StopTypes ==
  ASSUME TypeOK, NEW p \in Programs, NEW s \in Scripts \cup {None}, Stop(p, s),
         s \in Scripts => script[s].at # "building"
  PROVE  /\ script' \in [Scripts -> Script] /\ up' \in [Programs -> BOOLEAN]
         /\ lock' \in Scripts \cup {None}
         /\ \A t \in Scripts : script'[t].at = "building" <=> lock' = t
         /\ \A t \in Scripts : /\ script'[t].label = script[t].label
                               /\ script'[t].from = script[t].from
                               /\ script'[t].at = "building" => script[t].at = "building"
<1> DEFINE cut == {t \in Scripts : Alive(t) /\ script[t].in = p /\ t # s}
<1>1. /\ up' = [up EXCEPT ![p] = FALSE]
      /\ script' = [t \in Scripts |-> IF t \in cut THEN [script[t] EXCEPT !.at = "killed"]
                                      ELSE IF t = s THEN [script[t] EXCEPT !.at = "done"]
                                      ELSE script[t]]
      /\ lock' = IF lock \in cut THEN None ELSE lock
  BY DEF Stop
<1>2. \A t \in Scripts : script[t] \in Script /\ (script[t].at = "building" <=> lock = t)
  BY DEF TypeOK
<1>3. \A t \in Scripts : script'[t] = [script[t] EXCEPT !.at = "killed"]
                         \/ script'[t] = [script[t] EXCEPT !.at = "done"] \/ script'[t] = script[t]
  BY <1>1
<1>4. \A t \in Scripts : /\ script'[t] \in Script
                         /\ script'[t].label = script[t].label /\ script'[t].from = script[t].from
                         /\ script'[t].at \in {"killed", "done", script[t].at}
  <2> SUFFICES ASSUME NEW t \in Scripts
      PROVE  /\ script'[t] \in Script
             /\ script'[t].label = script[t].label /\ script'[t].from = script[t].from
             /\ script'[t].at \in {"killed", "done", script[t].at}
    OBVIOUS
  <2>1. "killed" \in Places /\ "done" \in Places
    BY DEF Places, Over
  <2>2. script[t] \in Script
    BY <1>2
  <2>3. CASE script'[t] = [script[t] EXCEPT !.at = "killed"]
    BY <2>1, <2>2, <2>3, At
  <2>4. CASE script'[t] = [script[t] EXCEPT !.at = "done"]
    BY <2>1, <2>2, <2>4, At
  <2>5. CASE script'[t] = script[t]
    BY <2>2, <2>5
  <2> QED BY <1>3, <2>3, <2>4, <2>5
<1>5. script' \in [Scripts -> Script]
  BY <1>1, <1>4
<1>6. lock \in cut => lock \in Scripts /\ script'[lock].at = "killed"
  BY <1>1, <1>2 DEF Script
<1>7. \A t \in Scripts : script'[t].at = "building" <=> lock' = t
  <2> SUFFICES ASSUME NEW t \in Scripts PROVE script'[t].at = "building" <=> lock' = t
    OBVIOUS
  <2>1. CASE t \in cut
    BY <2>1, <1>1, <1>2, <1>6 DEF Script
  <2>2. CASE t \notin cut /\ t = s
    BY <2>2, <1>1, <1>2 DEF Script
  <2>3. CASE t \notin cut /\ t # s
    BY <2>3, <1>1, <1>2
  <2> QED BY <2>1, <2>2, <2>3
<1>8. up' \in [Programs -> BOOLEAN] /\ lock' \in Scripts \cup {None}
  BY <1>1 DEF TypeOK
<1> QED BY <1>4, <1>5, <1>7, <1>8

---------------------------------------------------------------------------
LEMMA InitInv == Init => UpdateInv
BY DEF Init, UpdateInv, TypeOK, Chain, LabelsOld, LabelOld, Binary, Labels, Commits, Programs,
       Script, Unused, Places, Over, Kinds, Tab, NewTab

\* The tab moves through its own values, whatever it sees.
LEMMA TabTypes ==
  ASSUME TypeOK, FetchVersion \/ WaitForServer \/ Reload \/ Visit
  PROVE  tab' \in Tab
<1>1. run["mover"].label \in Labels
  BY DEF TypeOK, Programs, Binary
<1>2. tab \in Tab
  BY DEF TypeOK
<1>3. Seen \in Tab
  BY <1>1, <1>2 DEF Seen, Tab
<1>4. ASSUME tab.wait # None PROVE Later \in Tab
  BY <1>2, <1>4 DEF Later, Tab
<1>5. \A h \in Labels \cup {None} : NewTab(h) \in Tab
  BY DEF NewTab, Tab
<1>6. [Seen EXCEPT !.reload = TRUE] \in Tab
  BY <1>3 DEF Tab
<1>7. CASE FetchVersion
  BY <1>7, <1>3 DEF FetchVersion
<1>8. CASE WaitForServer
  BY <1>8, <1>4, <1>6 DEF WaitForServer
<1>9. CASE Reload
  BY <1>9, <1>1, <1>5 DEF Reload
<1>10. CASE Visit
  BY <1>10, <1>1, <1>5 DEF Visit
<1> QED BY <1>7, <1>8, <1>9, <1>10

\* Every step keeps the types, and with them the lock to the one that builds.
LEMMA NextTypes ==
  ASSUME TypeOK, Next
  PROVE  TypeOK'
<1> USE DEF Commits
<1>1. CASE Push
  BY <1>1 DEF Push, TypeOK, processes, checkout
<1>2. CASE Install
  BY <1>2 DEF Install, TypeOK, Programs, checkout
<1>3. ASSUME NEW s \in Scripts, StartUpdate(s) PROVE TypeOK'
  <2>1. \E c \in {"server", "none"} : Launch(s, "update", c, "before")
    BY <1>3 DEF StartUpdate
  <2> QED BY <1>3, <2>1, LaunchTypes
          DEF StartUpdate, TypeOK, processes, checkout, Kinds, Programs, Places, Over
<1>4. ASSUME NEW s \in Scripts, Button(s) PROVE TypeOK'
  <2>1. Launch(s, "deploy", "mover", "pull") /\ lock' = lock
    BY <1>4 DEF Button
  <2>2. /\ script' \in [Scripts -> Script]
        /\ \A t \in Scripts : script'[t].at = "building" <=> lock' = t
    BY <2>1, LaunchTypes DEF Kinds, Programs, Places
  <2>3. tab' \in Tab
    BY <1>4 DEF Button, TypeOK, Tab
  <2> QED BY <1>4, <2>2, <2>3 DEF Button, TypeOK, processes, checkout
<1>5. ASSUME NEW s \in Scripts, Check(s) PROVE TypeOK'
  <2>1. /\ \E place \in {"failed", "same", "pull"} : Launch(s, "check", "none", place)
        /\ lock' = lock
    BY <1>5 DEF Check
  <2>2. /\ script' \in [Scripts -> Script]
        /\ \A t \in Scripts : script'[t].at = "building" <=> lock' = t
    BY <2>1, LaunchTypes DEF Kinds, Programs, Places, Over
  <2> QED BY <1>5, <2>2 DEF Check, TypeOK, processes, checkout
<1>6. ASSUME NEW s \in Scripts, Before(s) PROVE TypeOK'
  <2>1. script[s].at = "before" /\ script' = [script EXCEPT ![s].at = "pull", ![s].saw = head]
    BY <1>6 DEF Before
  <2>2. head \in Commits /\ tree \in Commits /\ script \in [Scripts -> Script]
    BY DEF TypeOK, Commits
  <2>5. script' \in [Scripts -> Script]
    BY <2>1, <2>2, RecordTypes DEF Places
  <2>3. \A t \in Scripts : script'[t].at = IF t = s THEN "pull" ELSE script[t].at
    BY <2>1 DEF TypeOK, Script
  <2> QED BY <1>6, <2>1, <2>5, <2>3 DEF Before, TypeOK, processes, checkout
<1>7. ASSUME NEW s \in Scripts, Pull(s) \/ Pulled(s) PROVE TypeOK'
  <2>1. script[s].at \in {"pull", "pulling"} /\ UNCHANGED <<remote, processes, lock, tab, asked>>
    BY <1>7 DEF Pull, Pulled
  <2>2. \E place \in {"pulling", "compare", "label", "failed"} : Step(s, place)
    BY <1>7 DEF Pull, Pulled
  <2>3. /\ script' \in [Scripts -> Script]
        /\ \A t \in Scripts : script'[t].at = "building" <=> lock' = t
    BY <2>1, <2>2, StepTypes DEF Step, Places, Over, processes, checkout
  <2>4. fetched' \in 0 .. remote /\ tree' \in 0 .. fetched' /\ head' \in 0 .. tree'
    BY <1>7 DEF Pull, Pulled, TypeOK, Commits
  <2>5. faults' \in 0 .. MaxFaults
    BY <1>7 DEF Pull, Pulled, TypeOK, Fault
  <2> QED BY <2>1, <2>3, <2>4, <2>5 DEF TypeOK, processes, checkout
<1>8. ASSUME NEW s \in Scripts, Compare(s) PROVE TypeOK'
  <2>1. PICK place \in {"same", "build"} : script' = [script EXCEPT ![s].at = place, ![s].saw = 0]
    BY <1>8 DEF Compare
  <2>2. script \in [Scripts -> Script] /\ script[s].at = "compare" /\ 0 \in Commits
    BY <1>8 DEF Compare, TypeOK, Commits
  <2>3. script' \in [Scripts -> Script]
    BY <2>1, <2>2, RecordTypes DEF Places, Over
  <2>4. \A t \in Scripts : script'[t].at = IF t = s THEN place ELSE script[t].at
    BY <2>1, <2>2 DEF Script
  <2> QED BY <1>8, <2>2, <2>3, <2>4 DEF Compare, TypeOK, processes, checkout
<1>9. ASSUME NEW s \in Scripts, Label(s) PROVE TypeOK'
  <2>1. script[s].at = "label" /\ script' = [script EXCEPT ![s].at = "build", ![s].label = head]
    BY <1>9 DEF Label
  <2>2. head \in Commits /\ tree \in Commits /\ script \in [Scripts -> Script]
    BY DEF TypeOK, Commits
  <2>5. script' \in [Scripts -> Script]
    BY <2>1, <2>2, RecordTypes DEF Places
  <2>3. \A t \in Scripts : script'[t].at = IF t = s THEN "build" ELSE script[t].at
    BY <2>1 DEF TypeOK, Script
  <2> QED BY <1>9, <2>1, <2>5, <2>3 DEF Label, TypeOK, processes, checkout
<1>10. ASSUME NEW s \in Scripts, Build(s) PROVE TypeOK'
  <2>1. /\ script[s].at = "build" /\ lock = None /\ lock' = s
        /\ script' = [script EXCEPT ![s].at = "building", ![s].from = tree]
    BY <1>10 DEF Build
  <2>2. head \in Commits /\ tree \in Commits /\ script \in [Scripts -> Script]
    BY DEF TypeOK, Commits
  <2>5. script' \in [Scripts -> Script]
    BY <2>1, <2>2, RecordTypes DEF Places
  <2>3. \A t \in Scripts : script'[t].at = IF t = s THEN "building" ELSE script[t].at
    BY <2>1 DEF TypeOK, Script
  <2>4. \A t \in Scripts : script'[t].at = "building" <=> lock' = t
    BY <2>1, <2>3 DEF TypeOK
  <2> QED BY <1>10, <2>1, <2>5, <2>4 DEF Build, TypeOK, processes, checkout
<1>11. ASSUME NEW s \in Scripts, Built(s) PROVE TypeOK'
  <2>1. /\ script[s].at = "building" /\ lock' = None
        /\ \/ script' = [script EXCEPT ![s].at = "failed"]
           \/ script' = [script EXCEPT ![s].at = "restart", ![s].label = Unknown, ![s].from = 0]
    BY <1>11 DEF Built, Step
  <2>2. script' \in [Scripts -> Script]
    BY <2>1 DEF TypeOK, Script, Places, Over, Labels, Commits
  <2>3. \A t \in Scripts : script'[t].at = "building" <=> lock' = t
    BY <2>1 DEF TypeOK, Script
  <2>4. bin' \in [Programs -> Binary]
    BY <1>11 DEF Built, TypeOK, Binary, Script, Embedded, Labels
  <2> QED BY <1>11, <2>1, <2>2, <2>3, <2>4 DEF Built, TypeOK, Fault, checkout
<1>12. ASSUME NEW s \in Scripts, Restart(s) PROVE TypeOK'
  <2>1. script[s].at = "restart" /\ Program(script[s].kind) \in Programs
    BY <1>12 DEF Restart, Program, Programs
  <2>2. CASE Stop(Program(script[s].kind), s)
    BY <1>12, <2>1, <2>2, StopTypes DEF Restart, TypeOK, checkout
  <2>3. CASE Step(s, "done") /\ UNCHANGED <<up, lock>>
    BY <1>12, <2>1, <2>3, StepTypes DEF Restart, Step, TypeOK, Places, Over, checkout
  <2> QED BY <1>12, <2>2, <2>3 DEF Restart
<1>13. ASSUME NEW p \in Programs, Boot(p) PROVE TypeOK'
  BY <1>13 DEF Boot, Installed, TypeOK, checkout
<1>14. ASSUME NEW p \in Programs, Crash(p) PROVE TypeOK'
  <2>1. Stop(p, None)
    BY <1>14 DEF Crash
  <2> QED BY <1>14, <2>1, StopTypes DEF Crash, TypeOK, Fault, checkout
<1>15. CASE FetchVersion \/ WaitForServer \/ Reload \/ Visit
  BY <1>15, TabTypes DEF FetchVersion, WaitForServer, Reload, Visit, TypeOK, processes, checkout
<1> QED BY <1>1, <1>2, <1>3, <1>4, <1>5, <1>6, <1>7, <1>8, <1>9, <1>10, <1>11, <1>12, <1>13,
           <1>14, <1>15 DEF Next, Work

\* What a step leaves alone of the scripts that build, and of the labels.
LEMMA StopKeeps ==
  ASSUME UpdateInv, NEW p \in Programs, NEW s \in Scripts \cup {None}, Stop(p, s),
         s \in Scripts => script[s].at # "building",
         UNCHANGED <<head, tree, bin, copy, run>>
  PROVE  Chain' /\ LabelsOld'
<1>1. \A t \in Scripts : /\ script'[t].label = script[t].label
                         /\ script'[t].from = script[t].from
                         /\ script'[t].at = "building" => script[t].at = "building"
  BY StopTypes DEF UpdateInv
<1>2. Chain'
  BY <1>1 DEF UpdateInv, Chain
<1>3. LabelsOld'
  BY <1>1 DEF UpdateInv, LabelsOld, LabelOld
<1> QED BY <1>2, <1>3

\* So does a launch.
LEMMA LaunchKeeps ==
  ASSUME UpdateInv, NEW s \in Scripts, NEW kind \in Kinds, NEW cgroup \in Programs \cup {"none"},
         NEW place \in Places \ {"building"}, Launch(s, kind, cgroup, place),
         UNCHANGED <<head, tree, bin, copy, run, lock>>
  PROVE  Chain' /\ LabelsOld'
<1>1. /\ \A t \in Scripts : script'[t].label \in {Unknown, script[t].label}
      /\ \A t \in Scripts : script'[t].at = "building" => script'[t] = script[t]
  BY LaunchTypes DEF UpdateInv
<1>2. Chain'
  BY <1>1 DEF UpdateInv, Chain
<1>3. LabelsOld'
  BY <1>1 DEF UpdateInv, LabelsOld, LabelOld
<1> QED BY <1>2, <1>3

\* And any step of a script that moves it between places outside its build.
LEMMA StepKeeps ==
  ASSUME UpdateInv, NEW s \in Scripts, NEW place \in Places \ {"building"},
         script[s].at # "building", script' = [script EXCEPT ![s].at = place],
         head' \in Commits, head <= head', tree' \in Commits, tree <= tree',
         UNCHANGED <<bin, copy, run, lock>>
  PROVE  Chain' /\ LabelsOld'
<1>1. /\ \A t \in Scripts : /\ script'[t].label = script[t].label
                            /\ script'[t].from = script[t].from
                            /\ script'[t].at = "building" => script[t].at = "building"
      /\ \A t \in Scripts : script[t].label \in Labels /\ script[t].from \in Commits
      /\ \A p \in Programs : bin[p].code \in Commits
      /\ head \in Commits /\ tree \in Commits
  BY DEF UpdateInv, TypeOK, Script, Binary, Commits
<1>2. Chain'
  BY <1>1 DEF UpdateInv, Chain, Commits
<1>3. LabelsOld'
  BY <1>1 DEF UpdateInv, LabelsOld, LabelOld, Commits, Labels
<1> QED BY <1>2, <1>3

\* Every step keeps the chain, and no label gets ahead of its code.
LEMMA NextKeeps ==
  ASSUME UpdateInv, Next
  PROVE  Chain' /\ LabelsOld'
<1> USE DEF UpdateInv
<1>0. /\ head \in Commits /\ tree \in Commits /\ fetched \in Commits /\ remote \in Commits
      /\ head <= tree /\ tree <= fetched /\ fetched <= remote
      /\ \A p \in Programs : bin[p] \in Binary /\ run[p] \in Binary
      /\ copy \in Binary /\ "server" \in Programs /\ "mover" \in Programs
      /\ \A t \in Scripts : script[t] \in Script
  BY DEF TypeOK, Commits, Programs
<1>1. ASSUME UNCHANGED <<checkout, processes, script>> PROVE Chain' /\ LabelsOld'
  BY <1>1 DEF Chain, LabelsOld, LabelOld, processes, checkout
<1>2. CASE Install
  BY <1>0, <1>2 DEF Install, Chain, LabelsOld, LabelOld, Binary, Commits, checkout
<1>3. ASSUME NEW s \in Scripts, StartUpdate(s) PROVE Chain' /\ LabelsOld'
  <2>1. \E c \in {"server", "none"} : Launch(s, "update", c, "before")
    BY <1>3 DEF StartUpdate
  <2>2. UNCHANGED <<head, tree, bin, copy, run, lock>>
    BY <1>3 DEF StartUpdate, processes, checkout
  <2> QED BY <2>1, <2>2, LaunchKeeps DEF Kinds, Programs, Places
<1>4. ASSUME NEW s \in Scripts, Button(s) PROVE Chain' /\ LabelsOld'
  <2>1. Launch(s, "deploy", "mover", "pull") /\ UNCHANGED <<head, tree, bin, copy, run, lock>>
    BY <1>4 DEF Button, processes, checkout
  <2> QED BY <2>1, LaunchKeeps DEF Kinds, Programs, Places
<1>5. ASSUME NEW s \in Scripts, Check(s) PROVE Chain' /\ LabelsOld'
  <2>1. \E place \in {"failed", "same", "pull"} : Launch(s, "check", "none", place)
    BY <1>5 DEF Check
  <2>2. UNCHANGED <<head, tree, bin, copy, run, lock>>
    BY <1>5 DEF Check, processes, checkout
  <2> QED BY <2>1, <2>2, LaunchKeeps DEF Kinds, Programs, Places, Over
<1>6. ASSUME NEW s \in Scripts, Before(s) PROVE Chain' /\ LabelsOld'
  <2>1. \A t \in Scripts : /\ script'[t].label = script[t].label
                           /\ script'[t].from = script[t].from
                           /\ script'[t].at = "building" => script[t].at = "building"
    BY <1>6 DEF Before, TypeOK, Script
  <2> QED BY <1>6, <2>1 DEF Before, processes, checkout, Chain, LabelsOld, LabelOld
<1>7. ASSUME NEW s \in Scripts, Pull(s) \/ Pulled(s) PROVE Chain' /\ LabelsOld'
  <2>1. /\ script[s].at # "building" /\ head' \in {head, fetched} /\ UNCHANGED <<bin, copy, run, lock>>
        /\ tree' \in tree .. remote \/ tree' = tree \/ tree' = fetched
    BY <1>7 DEF Pull, Pulled, processes
  <2>2. head' \in Commits /\ head <= head' /\ tree' \in Commits /\ tree <= tree'
    BY <1>0, <2>1 DEF Commits
  <2>3. \E place \in {"pulling", "compare", "label", "failed"} : script' = [script EXCEPT ![s].at = place]
    BY <1>7 DEF Pull, Pulled, Step
  <2> QED BY <2>1, <2>2, <2>3, StepKeeps DEF Places, Over
<1>8. ASSUME NEW s \in Scripts, Compare(s) PROVE Chain' /\ LabelsOld'
  <2>1. \A t \in Scripts : /\ script'[t].label = script[t].label
                           /\ script'[t].from = script[t].from
                           /\ script'[t].at = "building" => script[t].at = "building"
    BY <1>8 DEF Compare, TypeOK, Script
  <2> QED BY <1>8, <2>1 DEF Compare, processes, checkout, Chain, LabelsOld, LabelOld
<1>9. ASSUME NEW s \in Scripts, Label(s) PROVE Chain' /\ LabelsOld'
  <2>1. \A t \in Scripts : /\ script'[t].label = IF t = s THEN head ELSE script[t].label
                           /\ script'[t].from = script[t].from
                           /\ script'[t].at = "building" => script[t].at = "building" /\ t # s
    BY <1>9 DEF Label, TypeOK, Script
  <2>2. Chain'
    BY <1>9, <2>1 DEF Label, processes, checkout, Chain
  <2>4. UNCHANGED <<head, tree, bin, copy, run>>
    BY <1>9 DEF Label, processes, checkout
  <2>3. LabelsOld'
    BY <1>0, <2>1, <2>4 DEF LabelsOld, LabelOld, Commits
  <2> QED BY <2>2, <2>3
<1>10. ASSUME NEW s \in Scripts, Build(s) PROVE Chain' /\ LabelsOld'
  <2>1. \A t \in Scripts : /\ script'[t].label = script[t].label
                           /\ script'[t].from = IF t = s THEN tree ELSE script[t].from
                           /\ script'[t].at = "building" => script[t].at = "building" \/ t = s
    BY <1>10 DEF Build, TypeOK, Script
  <2>4. UNCHANGED <<head, tree, bin, copy, run>>
    BY <1>10 DEF Build, processes, checkout
  <2>2. Chain'
    BY <1>0, <2>1, <2>4 DEF Chain, Commits
  <2>3. LabelsOld'
    BY <1>0, <2>1, <2>4 DEF LabelsOld, LabelOld, Commits, Labels, Script
  <2> QED BY <2>2, <2>3
<1>11. ASSUME NEW s \in Scripts, Built(s) PROVE Chain' /\ LabelsOld'
  <2>1. /\ script[s].at = "building" /\ UNCHANGED <<head, tree, copy, run>>
        /\ \/ script' = [script EXCEPT ![s].at = "failed"]
           \/ script' = [script EXCEPT ![s].at = "restart", ![s].label = Unknown, ![s].from = 0]
    BY <1>11 DEF Built, Step, checkout
  <2>2. \A t \in Scripts : /\ script'[t].label \in {script[t].label, Unknown}
                           /\ script'[t].at # "building"
    BY <2>1 DEF TypeOK, Script
  <2>3. \A p \in Programs :
          \/ bin'[p] = bin[p]
          \/ \E c \in script[s].from .. tree : bin'[p] = [code |-> c, label |-> script[s].label]
    BY <1>11 DEF Built, Embedded, TypeOK
  <2>4. /\ script[s].from <= tree /\ script[s].from \in Commits
        /\ \A p \in Programs : bin[p].code <= script[s].from
        /\ script[s].label # Unknown => script[s].label <= script[s].from
        /\ script[s].label \in Labels
    BY <1>0, <2>1 DEF Chain, LabelsOld, Script
  <2>5. \A p \in Programs : /\ bin[p].code <= bin'[p].code /\ bin'[p].code <= tree
                            /\ bin'[p].code \in Commits
                            /\ LabelOld(bin[p]) => LabelOld(bin'[p])
    <3> SUFFICES ASSUME NEW p \in Programs
                 PROVE  /\ bin[p].code <= bin'[p].code /\ bin'[p].code <= tree
                        /\ bin'[p].code \in Commits
                        /\ LabelOld(bin[p]) => LabelOld(bin'[p])
      OBVIOUS
    <3>1. CASE bin'[p] = bin[p]
      BY <1>0, <3>1 DEF Chain, Binary, Commits
    <3>2. ASSUME NEW c \in script[s].from .. tree,
                 bin'[p] = [code |-> c, label |-> script[s].label]
          PROVE  /\ bin[p].code <= bin'[p].code /\ bin'[p].code <= tree
                 /\ bin'[p].code \in Commits
                 /\ LabelOld(bin[p]) => LabelOld(bin'[p])
      BY <1>0, <2>4, <3>2 DEF LabelOld, Binary, Commits, Labels
    <3> QED BY <2>3, <3>1, <3>2
  <2>6. Chain'
    BY <1>0, <2>1, <2>2, <2>5 DEF Chain, Binary, Commits
  <2>7. LabelsOld'
    BY <1>0, <2>1, <2>2, <2>5 DEF LabelsOld, LabelOld
  <2> QED BY <2>6, <2>7
<1>12. ASSUME NEW s \in Scripts, Restart(s) PROVE Chain' /\ LabelsOld'
  <2>1. /\ script[s].at = "restart" /\ Program(script[s].kind) \in Programs
        /\ UNCHANGED <<head, tree, bin, copy, run>>
    BY <1>12 DEF Restart, Program, Programs, checkout
  <2>2. CASE Stop(Program(script[s].kind), s)
    BY <2>1, <2>2, StopKeeps
  <2>3. CASE Step(s, "done") /\ UNCHANGED <<up, lock>>
    <3>1. script' = [script EXCEPT ![s].at = "done"] /\ "done" \in Places \ {"building"}
      BY <2>3 DEF Step, Places, Over
    <3>2. head' \in Commits /\ head <= head' /\ tree' \in Commits /\ tree <= tree'
      BY <1>0, <2>1 DEF Commits
    <3> QED BY <2>1, <2>3, <3>1, <3>2, StepKeeps
  <2> QED BY <1>12, <2>2, <2>3 DEF Restart
<1>13. ASSUME NEW p \in Programs, Boot(p) PROVE Chain' /\ LabelsOld'
  <2>1. UNCHANGED <<head, tree, bin, copy, script>> /\ run' = [run EXCEPT ![p] = Installed(p)]
    BY <1>13 DEF Boot, checkout
  <2>2. /\ run'["server"] \in {run["server"], copy}
        /\ run'["mover"] \in {run["mover"], bin["mover"]}
    BY <1>0, <2>1 DEF Installed, TypeOK, Programs
  <2>3. Chain'
    BY <1>0, <2>1, <2>2 DEF Chain, Binary, Commits
  <2>4. LabelsOld'
    BY <2>1, <2>2 DEF LabelsOld, LabelOld
  <2> QED BY <2>3, <2>4
<1>14. ASSUME NEW p \in Programs, Crash(p) PROVE Chain' /\ LabelsOld'
  BY <1>14, StopKeeps DEF Crash, checkout
<1>15. CASE Push \/ FetchVersion \/ WaitForServer \/ Reload \/ Visit
  BY <1>15, <1>1 DEF Push, FetchVersion, WaitForServer, Reload, Visit
<1> QED BY <1>2, <1>3, <1>4, <1>5, <1>6, <1>7, <1>8, <1>9, <1>10, <1>11, <1>12, <1>13, <1>14,
           <1>15 DEF Next, Work

---------------------------------------------------------------------------
\* The inductive invariant: types, the chain, and the labels.
THEOREM UpdateInvariant == Spec => []UpdateInv
<1>1. UpdateInv /\ [Next]_vars => UpdateInv'
  <2> SUFFICES ASSUME UpdateInv, [Next]_vars PROVE UpdateInv'
    OBVIOUS
  <2>1. CASE Next
    BY <2>1, NextTypes, NextKeeps DEF UpdateInv
  <2>2. CASE UNCHANGED vars
    BY <2>2 DEF vars, UpdateInv, TypeOK, Chain, LabelsOld, LabelOld
  <2> QED BY <2>1, <2>2
<1> QED BY InitInv, <1>1, PTL DEF Spec

\* The variables have their types, and a build holds cargo's lock alone.
THEOREM UpdateTypes == Spec => []TypeOK
<1>1. UpdateInv => TypeOK
  BY DEF UpdateInv
<1> QED BY <1>1, UpdateInvariant, PTL

\* A daemon that reports the commit checked out is of that commit, or of newer
\* files that an unfinished pull has written, so that check-update.sh leaves no
\* old daemon alone that it found so.
THEOREM ReportedMeansRunning == Spec => []UpToDateMeansSo
<1>1. UpdateInv => UpToDateMeansSo
  <2> SUFFICES ASSUME UpdateInv, run["mover"].label = head PROVE run["mover"].code \in head .. tree
    BY DEF UpToDateMeansSo
  <2>1. /\ head \in Nat /\ tree \in Nat /\ run["mover"] \in Binary /\ bin["mover"] \in Binary
        /\ "mover" \in Programs
    BY DEF UpdateInv, TypeOK, Programs, Commits
  <2>2. head <= run["mover"].code
    BY <2>1 DEF UpdateInv, LabelsOld, LabelOld
  <2>3. run["mover"].code <= bin["mover"].code /\ bin["mover"].code <= tree
    BY <2>1 DEF UpdateInv, Chain
  <2> QED BY <2>1, <2>2, <2>3 DEF Binary, Commits
<1> QED BY <1>1, UpdateInvariant, PTL

\* No build, installation, restart or crash replaces a program by an older one.
THEOREM NothingGoesBack == Spec => NeverOlder
<1>1. UpdateInv /\ [Next]_vars =>
        [\A p \in Programs : run'[p].code >= run[p].code]_vars
  <2> SUFFICES ASSUME UpdateInv, Next
               PROVE  \A p \in Programs : run'[p].code >= run[p].code
    OBVIOUS
  <2>1. \A p \in Programs : run[p] \in Binary
    BY DEF UpdateInv, TypeOK
  <2>2. ASSUME NEW q \in Programs, Boot(q) PROVE \A p \in Programs : run'[p].code >= run[p].code
    <3>1. run' = [run EXCEPT ![q] = Installed(q)]
      BY <2>2 DEF Boot
    <3>2. Installed(q).code >= run[q].code
      BY <2>1 DEF UpdateInv, TypeOK, Chain, Installed, Programs, Binary, Commits
    <3> QED BY <2>1, <3>1, <3>2 DEF UpdateInv, TypeOK, Binary, Commits
  <2>3. CASE ~\E q \in Programs : Boot(q)
    <3>1. run' = run
      BY <2>3 DEF Next, Work, Push, Install, StartUpdate, Button, Check, Before, Pull, Pulled, Compare,
                  Label, Build, Built, Restart, Crash, FetchVersion, WaitForServer, Reload, Visit,
                  processes
    <3> QED BY <2>1, <3>1 DEF Binary, Commits
  <2> QED BY <2>2, <2>3
<1> QED BY <1>1, UpdateInvariant, PTL DEF Spec, NeverOlder
---------------------------------------------------------------------------
\* Every script so far was an update of the server that nothing cut short.
UpdatesOnly == NoneCut /\ \A s \in Scripts : script[s].at = "unused" \/ script[s].kind = "update"

\* s is still to build what is checked out: its build is to begin, or began with
\* that commit, or s is about to see that its pull brought something.
Covers(s) ==
  \/ script[s].at = "build"
  \/ script[s].at = "building" /\ head <= script[s].from
  \/ script[s].at = "compare" /\ script[s].saw # head

\* s is still to pull, or is pulling what was asked for.
Pulls(s) ==
  \/ script[s].at \in {"before", "pull"}
  \/ script[s].at = "pulling" /\ asked <= fetched

HeadCovered == head <= bin["server"].code \/ \E s \in Scripts : Covers(s)
AskedCovered == asked <= head \/ \E s \in Scripts : Pulls(s)

BuildInv ==
  /\ \A s \in Scripts : script[s].saw <= head
  /\ UpdatesOnly => HeadCovered /\ AskedCovered

\* A step that changes neither the checkout nor what is asked for, and takes no
\* script off its way, keeps the invariant.
LEMMA CoverKept ==
  ASSUME UpdateInv, BuildInv, UNCHANGED <<checkout, asked, bin>>,
         \A t \in Scripts : script'[t].saw <= head,
         UpdatesOnly' => /\ UpdatesOnly
                         /\ \A t \in Scripts : (Covers(t) => Covers(t)') /\ (Pulls(t) => Pulls(t)')
  PROVE  BuildInv'
<1>1. ASSUME UpdatesOnly' PROVE HeadCovered' /\ AskedCovered'
  <2>1. /\ UpdatesOnly /\ HeadCovered /\ AskedCovered
        /\ \A t \in Scripts : (Covers(t) => Covers(t)') /\ (Pulls(t) => Pulls(t)')
    BY <1>1 DEF BuildInv
  <2> QED BY <2>1 DEF HeadCovered, AskedCovered, checkout
<1> QED BY <1>1 DEF BuildInv, checkout

\* A stop cuts some update short, or leaves all of them on their way.
LEMMA StopBuilds ==
  ASSUME UpdateInv, BuildInv, NEW p \in Programs, NEW s \in Scripts \cup {None}, Stop(p, s),
         s \in Scripts => script[s].at = "restart",
         UNCHANGED <<checkout, bin, asked>>
  PROVE  BuildInv'
<1> DEFINE cut == {t \in Scripts : Alive(t) /\ script[t].in = p /\ t # s}
<1>0. script \in [Scripts -> Script] /\ None \notin Scripts
  BY NoneAssumption DEF UpdateInv, TypeOK
<1>1. \A t \in Scripts : script'[t] = IF t \in cut THEN [script[t] EXCEPT !.at = "killed"]
                                      ELSE IF t = s THEN [script[t] EXCEPT !.at = "done"]
                                      ELSE script[t]
  BY DEF Stop
<1>2. \A t \in Scripts : /\ script'[t].saw = script[t].saw /\ script'[t].kind = script[t].kind
                         /\ script'[t].at = IF t \in cut THEN "killed"
                                            ELSE IF t = s THEN "done" ELSE script[t].at
                         /\ t \notin cut /\ t # s => script'[t] = script[t]
  <2> HIDE DEF cut
  <2> TAKE t \in Scripts
  <2>1. /\ script[t] \in Script
        /\ script'[t] = IF t \in cut THEN [script[t] EXCEPT !.at = "killed"]
                        ELSE IF t = s THEN [script[t] EXCEPT !.at = "done"]
                        ELSE script[t]
    BY <1>0, <1>1
  <2> QED BY <2>1 DEF Script
<1>3. ASSUME UpdatesOnly'
      PROVE  /\ UpdatesOnly
             /\ \A t \in Scripts : (Covers(t) => Covers(t)') /\ (Pulls(t) => Pulls(t)')
  <2>1. cut = {}
    BY <1>2, <1>3 DEF UpdatesOnly, NoneCut
  <2>2. UpdatesOnly
    BY <1>2, <1>3, <2>1 DEF UpdatesOnly, NoneCut
  <2>3. \A t \in Scripts : script'[t] = script[t] \/ script[t].at = "restart"
    BY <1>2, <2>1
  <2> QED BY <2>2, <2>3 DEF Covers, Pulls, checkout
<1>4. \A t \in Scripts : script'[t].saw <= head
  BY <1>2 DEF BuildInv
<1> QED BY <1>3, <1>4, CoverKept

\* Every step keeps an update on its way to build what is checked out.
LEMMA NextBuilds ==
  ASSUME UpdateInv, BuildInv, Next
  PROVE  BuildInv'
<1> USE DEF UpdateInv, checkout
<1>0. /\ head \in Nat /\ tree \in Nat /\ fetched \in Nat /\ remote \in Nat
      /\ head <= tree /\ tree <= fetched /\ fetched <= remote /\ asked \in Nat /\ asked <= remote
      /\ bin \in [Programs -> Binary] /\ bin["server"].code \in Nat
      /\ script \in [Scripts -> Script]
      /\ \A t \in Scripts : script[t].saw \in Nat /\ script[t].from \in Nat
      /\ \A t \in Scripts : script[t].saw <= head
  BY DEF TypeOK, Commits, Programs, Binary, Script, BuildInv
<1>1. ASSUME UNCHANGED <<checkout, asked, bin, script>> PROVE BuildInv'
  BY <1>1 DEF BuildInv, UpdatesOnly, NoneCut, HeadCovered, AskedCovered, Covers, Pulls, checkout
<1>2. ASSUME NEW s \in Scripts, StartUpdate(s) PROVE BuildInv'
  <2>1. /\ \E c \in {"server", "none"} :
             script' = [script EXCEPT ![s] = [Unused EXCEPT !.at = "before", !.kind = "update",
                                                            !.in = c]]
        /\ script[s].at = "unused" /\ UNCHANGED <<checkout, bin>>
    BY <1>2 DEF StartUpdate, Launch, processes
  <2>2. /\ script'[s].at = "before" /\ script'[s].kind = "update" /\ script'[s].saw = 0
        /\ \A t \in Scripts : t # s => script'[t] = script[t]
    BY <1>0, <2>1 DEF Unused
  <2>3. \A t \in Scripts : script'[t].saw <= head'
    BY <1>0, <2>1, <2>2
  <2>4. ASSUME UpdatesOnly' PROVE HeadCovered' /\ AskedCovered'
    <3>1. UpdatesOnly
      BY <2>1, <2>2, <2>4 DEF UpdatesOnly, NoneCut
    <3>2. HeadCovered
      BY <3>1 DEF BuildInv
    <3>3. HeadCovered'
      BY <2>1, <2>2, <3>2 DEF HeadCovered, Covers
    <3> QED BY <2>2, <3>3 DEF AskedCovered, Pulls
  <2> QED BY <2>3, <2>4 DEF BuildInv
<1>3. ASSUME NEW s \in Scripts, NEW kind \in {"deploy", "check"}, NEW c, NEW place,
             place # "unused", Launch(s, kind, c, place), UNCHANGED <<checkout, bin, asked>>
      PROVE  BuildInv'
  <2>1. /\ script'[s].at = place /\ script'[s].kind = kind /\ script'[s].saw = 0
        /\ \A t \in Scripts : t # s => script'[t] = script[t]
    BY <1>0, <1>3 DEF Launch, Unused
  <2>2. ~UpdatesOnly'
    BY <1>3, <2>1 DEF UpdatesOnly
  <2>3. \A t \in Scripts : script'[t].saw <= head'
    BY <1>0, <1>3, <2>1
  <2> QED BY <2>2, <2>3 DEF BuildInv
<1>4. ASSUME NEW s \in Scripts, Button(s) PROVE BuildInv'
  BY <1>3, <1>4 DEF Button, processes
<1>5. ASSUME NEW s \in Scripts, Check(s) PROVE BuildInv'
  <2>1. \E place \in {"failed", "same", "pull"} : Launch(s, "check", "none", place)
    BY <1>5 DEF Check
  <2> QED BY <1>3, <1>5, <2>1 DEF Check, processes
<1>6. ASSUME NEW s \in Scripts, Before(s) PROVE BuildInv'
  <2>1. /\ script[s].at = "before" /\ UNCHANGED <<checkout, bin, asked>>
        /\ script'[s].at = "pull" /\ script'[s].kind = script[s].kind /\ script'[s].saw = head
        /\ \A t \in Scripts : t # s => script'[t] = script[t]
    BY <1>0, <1>6 DEF Before, processes, Script
  <2>2. \A t \in Scripts : script'[t].saw <= head
    BY <1>0, <2>1
  <2>3. UpdatesOnly' => UpdatesOnly
    BY <2>1 DEF UpdatesOnly, NoneCut
  <2>4. \A t \in Scripts : (Covers(t) => Covers(t)') /\ (Pulls(t) => Pulls(t)')
    BY <2>1 DEF Covers, Pulls
  <2> QED BY <2>1, <2>2, <2>3, <2>4, CoverKept
<1>7. ASSUME NEW s \in Scripts, Pull(s) PROVE BuildInv'
  <2>1. /\ script[s].at = "pull" /\ UNCHANGED <<head, bin, asked>>
        /\ \/ script'[s].at = "pulling" /\ fetched' = remote /\ \A t \in Scripts : script[t].at # "pulling"
           \/ script'[s].at = "failed"
        /\ script'[s].kind = script[s].kind /\ script'[s].saw = script[s].saw
        /\ \A t \in Scripts : t # s => script'[t] = script[t]
    BY <1>0, <1>7 DEF Pull, Step, processes, Script
  <2>2. \A t \in Scripts : script'[t].saw <= head'
    BY <1>0, <2>1
  <2>3. ASSUME UpdatesOnly' PROVE HeadCovered' /\ AskedCovered'
    <3>1. script'[s].at = "pulling" /\ fetched' = remote /\ UpdatesOnly
      BY <2>1, <2>3 DEF UpdatesOnly, NoneCut
    <3>2. HeadCovered
      BY <3>1 DEF BuildInv
    <3>3. HeadCovered'
      BY <2>1, <3>1, <3>2 DEF HeadCovered, Covers
    <3>4. Pulls(s)'
      BY <1>0, <2>1, <3>1 DEF Pulls
    <3> QED BY <3>3, <3>4 DEF AskedCovered
  <2> QED BY <2>2, <2>3 DEF BuildInv
<1>15. ASSUME NEW s \in Scripts, Pulled(s) PROVE BuildInv'
  <2>1. /\ script[s].at = "pulling" /\ UNCHANGED <<fetched, bin, asked>>
        /\ head' = fetched \/ (head' = head /\ script'[s].at = "failed")
        /\ script'[s].kind = script[s].kind /\ script'[s].saw = script[s].saw
        /\ script'[s].at \in {"compare", "label", "failed"}
        /\ script[s].kind = "update" => script'[s].at # "label"
        /\ \A t \in Scripts : t # s => script'[t] = script[t]
    BY <1>0, <1>15 DEF Pulled, Step, processes, Script
  <2>2. head <= head' /\ head' \in Nat
    BY <1>0, <2>1
  <2>3. \A t \in Scripts : script'[t].saw <= head'
    BY <1>0, <2>1, <2>2
  <2>4. ASSUME UpdatesOnly' PROVE HeadCovered' /\ AskedCovered'
    <3>1. script'[s].at # "failed" /\ UpdatesOnly
      BY <2>1, <2>4 DEF UpdatesOnly, NoneCut
    <3>2. head' = fetched /\ script'[s].at = "compare" /\ HeadCovered /\ AskedCovered
      BY <2>1, <3>1 DEF UpdatesOnly, BuildInv
    <3>3. AskedCovered'
      <4>1. CASE asked <= head
        BY <1>0, <2>1, <2>2, <4>1 DEF AskedCovered
      <4>2. CASE asked <= fetched
        BY <2>1, <3>2, <4>2 DEF AskedCovered
      <4>3. CASE ~(asked <= head) /\ ~(asked <= fetched)
        <5>1. PICK t \in Scripts : script[t].at \in {"before", "pull"}
          BY <3>2, <4>3 DEF AskedCovered, Pulls
        <5>2. Pulls(t)'
          BY <2>1, <5>1 DEF Pulls
        <5> QED BY <5>2 DEF AskedCovered
      <4> QED BY <4>1, <4>2, <4>3
    <3>4. CASE head' = head
      BY <2>1, <3>2, <3>3, <3>4 DEF HeadCovered, Covers
    <3>5. CASE head' # head
      <4>1. script'[s].saw # head'
        BY <1>0, <2>1, <2>2, <3>5
      <4> QED BY <3>2, <3>3, <4>1 DEF HeadCovered, Covers
    <3> QED BY <3>4, <3>5
  <2> QED BY <2>3, <2>4 DEF BuildInv
<1>8. ASSUME NEW s \in Scripts, Compare(s) PROVE BuildInv'
  <2>1. /\ script[s].at = "compare" /\ UNCHANGED <<checkout, bin, asked>>
        /\ script'[s].at = IF head = script[s].saw THEN "same" ELSE "build"
        /\ script'[s].kind = script[s].kind /\ script'[s].saw = 0
        /\ \A t \in Scripts : t # s => script'[t] = script[t]
    BY <1>0, <1>8 DEF Compare, processes, Script
  <2>2. \A t \in Scripts : script'[t].saw <= head
    BY <1>0, <2>1
  <2>3. UpdatesOnly' => UpdatesOnly
    BY <2>1 DEF UpdatesOnly, NoneCut
  <2>4. \A t \in Scripts : (Covers(t) => Covers(t)') /\ (Pulls(t) => Pulls(t)')
    BY <2>1 DEF Covers, Pulls, checkout
  <2> QED BY <2>1, <2>2, <2>3, <2>4, CoverKept
<1>9. ASSUME NEW s \in Scripts, Label(s) \/ Build(s) PROVE BuildInv'
  <2>1. /\ script[s].at \in {"label", "build"} /\ UNCHANGED <<checkout, bin, asked>>
        /\ \/ script'[s].at = "build"
           \/ script'[s].at = "building" /\ script'[s].from = tree
        /\ script'[s].kind = script[s].kind /\ script'[s].saw = script[s].saw
        /\ \A t \in Scripts : t # s => script'[t] = script[t]
    BY <1>0, <1>9 DEF Label, Build, processes, Script
  <2>2. \A t \in Scripts : script'[t].saw <= head
    BY <1>0, <2>1
  <2>3. UpdatesOnly' => UpdatesOnly
    BY <2>1 DEF UpdatesOnly, NoneCut
  <2>4. \A t \in Scripts : (Covers(t) => Covers(t)') /\ (Pulls(t) => Pulls(t)')
    BY <1>0, <2>1 DEF Covers, Pulls
  <2> QED BY <2>1, <2>2, <2>3, <2>4, CoverKept
<1>10. ASSUME NEW s \in Scripts, Built(s) PROVE BuildInv'
  <2>1. /\ script[s].at = "building" /\ UNCHANGED <<checkout, asked>>
        /\ script'[s].at \in {"restart", "failed"}
        /\ script'[s].kind = script[s].kind /\ script'[s].saw = script[s].saw
        /\ \A t \in Scripts : t # s => script'[t] = script[t]
    BY <1>0, <1>10 DEF Built, Step, Script
  <2>2. \A t \in Scripts : script'[t].saw <= head'
    BY <1>0, <2>1
  <2>3. ASSUME UpdatesOnly' PROVE HeadCovered' /\ AskedCovered'
    <3>1. script'[s].at # "failed" /\ script[s].kind = "update" /\ UpdatesOnly
      BY <2>1, <2>3 DEF UpdatesOnly, NoneCut
    <3>2. \E c \in script[s].from .. tree : bin'["server"].code = c
      BY <1>0, <1>10, <2>1, <3>1 DEF Built, Step, Script, Programs
    <3>3. bin["server"].code <= script[s].from /\ script[s].from <= tree
      BY <2>1 DEF Chain, Programs
    <3>4. HeadCovered /\ AskedCovered
      BY <3>1 DEF BuildInv
    <3>5. AskedCovered'
      BY <2>1, <3>4 DEF AskedCovered, Pulls
    <3>6. HeadCovered'
      <4>1. CASE head <= script[s].from
        BY <1>0, <2>1, <3>2, <4>1 DEF HeadCovered
      <4>2. CASE ~(head <= script[s].from)
        <5>1. ~(head <= bin["server"].code) /\ ~Covers(s)
          BY <1>0, <2>1, <3>3, <4>2 DEF Covers
        <5> QED BY <2>1, <3>4, <5>1 DEF HeadCovered, Covers
      <4> QED BY <4>1, <4>2
    <3> QED BY <3>5, <3>6
  <2> QED BY <2>2, <2>3 DEF BuildInv
<1>11. ASSUME NEW s \in Scripts, Restart(s) PROVE BuildInv'
  <2>1. /\ script[s].at = "restart" /\ Program(script[s].kind) \in Programs
        /\ UNCHANGED <<checkout, bin, asked>>
    BY <1>11 DEF Restart, Program, Programs
  <2>2. CASE Stop(Program(script[s].kind), s)
    BY <2>1, <2>2, StopBuilds
  <2>3. CASE Step(s, "done")
    <3>1. /\ script'[s].at = "done"
          /\ script'[s].kind = script[s].kind /\ script'[s].saw = script[s].saw
          /\ \A t \in Scripts : t # s => script'[t] = script[t]
      BY <1>0, <2>3 DEF Step, Script
    <3>2. \A t \in Scripts : script'[t].saw <= head
      BY <1>0, <3>1
    <3>3. UpdatesOnly' => UpdatesOnly
      BY <2>1, <3>1 DEF UpdatesOnly, NoneCut
    <3>4. \A t \in Scripts : (Covers(t) => Covers(t)') /\ (Pulls(t) => Pulls(t)')
      BY <2>1, <3>1 DEF Covers, Pulls
    <3> QED BY <2>1, <3>2, <3>3, <3>4, CoverKept
  <2> QED BY <1>11, <2>2, <2>3 DEF Restart
<1>12. ASSUME NEW p \in Programs, Crash(p) PROVE BuildInv'
  <2>1. Stop(p, None) /\ UNCHANGED <<checkout, bin, asked>>
    BY <1>12 DEF Crash
  <2> QED BY <2>1, NoneAssumption, StopBuilds
<1>13. ASSUME NEW p \in Programs, Boot(p) PROVE BuildInv'
  BY <1>13, <1>1 DEF Boot
<1>14. CASE Push \/ Install \/ FetchVersion \/ WaitForServer \/ Reload \/ Visit
  BY <1>14, <1>1 DEF Push, Install, FetchVersion, WaitForServer, Reload, Visit, processes
<1> QED BY <1>2, <1>4, <1>5, <1>6, <1>7, <1>8, <1>9, <1>10, <1>11, <1>12, <1>13, <1>14,
           <1>15
        DEF Next, Work

\* The inductive invariant of the builds.
THEOREM BuildInvariant == Spec => []BuildInv
<1>1. Init => BuildInv
  <2> SUFFICES ASSUME Init PROVE BuildInv
    OBVIOUS
  <2>1. /\ head = 0 /\ asked = 0 /\ bin["server"].code = 0
        /\ \A s \in Scripts : script[s].saw = 0
    BY DEF Init, Unused, Programs
  <2> QED BY <2>1 DEF BuildInv, HeadCovered, AskedCovered
<1>2. UpdateInv /\ BuildInv /\ [Next]_vars => BuildInv'
  <2> SUFFICES ASSUME UpdateInv, BuildInv, [Next]_vars PROVE BuildInv'
    OBVIOUS
  <2>1. CASE Next
    BY <2>1, NextBuilds
  <2>2. CASE UNCHANGED vars
    BY <2>2 DEF vars, BuildInv, UpdatesOnly, NoneCut, HeadCovered, AskedCovered, Covers, Pulls,
                processes, checkout
  <2> QED BY <2>1, <2>2
<1> QED BY <1>1, <1>2, UpdateInvariant, PTL DEF Spec

\* Of updates none of which is killed or fails, the last one asked for is built once
\* all are over: one that stops at "no new commits" leaves it to one that builds.
THEOREM AskedIsBuilt == Spec => []UpdateBuilt
<1>1. UpdateInv /\ BuildInv => UpdateBuilt
  <2> SUFFICES ASSUME UpdateInv, BuildInv, Quiet, UpdatesOnly
               PROVE  bin["server"].code >= asked
    BY DEF UpdateBuilt, UpdatesOnly
  <2>1. head \in Nat /\ asked \in Nat /\ bin["server"].code \in Nat
    BY DEF UpdateInv, TypeOK, Commits, Programs, Binary
  <2>2. \A s \in Scripts : ~Covers(s) /\ ~Pulls(s)
    BY DEF Quiet, Alive, Over, Covers, Pulls
  <2>3. head <= bin["server"].code /\ asked <= head
    BY <2>2 DEF BuildInv, HeadCovered, AskedCovered
  <2> QED BY <2>1, <2>3
<1> QED BY <1>1, UpdateInvariant, BuildInvariant, PTL
===========================================================================
