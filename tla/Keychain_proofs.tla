--------------------------- MODULE Keychain_proofs ---------------------------
(***************************************************************************)
(* Proofs about Keychain, for any number of commands and passwords: its    *)
(* types, that it keeps only passwords that opened the vault, that the log *)
(* tells Touch ID from a typed password, and that a saved one is found.    *)
(***************************************************************************)
EXTENDS Keychain, TLAPS

Proc == [pc : Step, op : Command, password : Password \cup {None}, source : Source]

(* A command that is about to save holds a password that opened the vault, *)
(* and one that says touchid one that the Keychain has kept.               *)
Good(s, proven, stored) ==
    /\ s \in Proc
    /\ s.pc \in {"open", "send", "delete"} \cup Replacing => s.password # None
    /\ s.pc \in {"delete"} \cup Replacing => s.password \in proven
    /\ s.source = "touchid" => s.password \in stored
    /\ s.pc \in {"load", "prompt"} => s.source = "password"

ProcsGood == proc \in [Process -> Proc] /\ \A p \in Process : Good(proc[p], past, kept)

RestGood ==
    /\ vault \in past /\ past \subseteq Password
    /\ kept \subseteq Password /\ saved \in BOOLEAN
    /\ item \in (past \cap kept) \cup {None}
    /\ daemon \in [password : Password, source : Source] \cup {None}
    /\ TouchMeansKept

IInv == RestGood /\ ProcsGood

(* The invariant implies the types and both properties.                    *)
LEMMA Implies == IInv => TypeOK /\ KeptWasProven /\ TouchMeansKept
  BY KeychainAssumption
     DEF IInv, RestGood, ProcsGood, Proc, Good, TypeOK, KeptWasProven

(* What was once right stays right.                                        *)
LEMMA Grows ==
  ASSUME NEW s, Good(s, past, kept), past \subseteq past', kept \subseteq kept'
  PROVE  Good(s, past', kept')
  BY DEF Good

(* A process at rest is good.                                              *)
LEMMA IdleGood == Good(Idle, past', kept')
  BY DEF Good, Idle, Proc, Step, Command, Source, Replacing

(* One process moves to a good state, and nothing is forgotten.            *)
LEMMA MoveGood ==
  ASSUME ProcsGood, past \subseteq past', kept \subseteq kept',
         NEW p \in Process, NEW s, Good(s, past', kept'), proc' = [proc EXCEPT ![p] = s]
  PROVE  ProcsGood'
  <1>1. s \in Proc  BY DEF Good
  <1>2. proc' \in [Process -> Proc]  BY <1>1 DEF ProcsGood
  <1>3. ASSUME NEW q \in Process PROVE Good(proc'[q], past', kept')
    <2>1. CASE q = p  BY <2>1 DEF ProcsGood, Good
    <2>2. CASE q # p
      <3>1. proc'[q] = proc[q]  BY <2>2 DEF ProcsGood
      <3>2. Good(proc[q], past, kept)  BY DEF ProcsGood
      <3>3. QED  BY <3>1, <3>2, Grows
    <2>3. QED  BY <2>1, <2>2
  <1>4. QED  BY <1>2, <1>3 DEF ProcsGood

(* A command ends.                                                         *)
LEMMA EndGood ==
  ASSUME ProcsGood, past \subseteq past', kept \subseteq kept',
         NEW p \in Process, End(p)
  PROVE  ProcsGood'
  BY IdleGood, MoveGood DEF End

(* A command goes on with what it has.                                     *)
LEMMA GotoGood ==
  ASSUME ProcsGood, past \subseteq past', kept \subseteq kept',
         NEW p \in Process, NEW pc \in Step, Goto(p, pc),
         pc \in {"open", "send", "delete"} \cup Replacing => proc[p].password # None,
         pc \in {"delete"} \cup Replacing => proc[p].password \in past,
         pc \in {"load", "prompt"} => proc[p].source = "password"
  PROVE  ProcsGood'
  <1> DEFINE s == [proc[p] EXCEPT !.pc = pc]
  <1>1. proc[p] \in Proc /\ Good(proc[p], past, kept)  BY DEF ProcsGood
  <1>2. /\ s \in Proc /\ s.pc = pc /\ s.password = proc[p].password
        /\ s.source = proc[p].source
    BY <1>1 DEF Proc
  <1>3. proc' = [proc EXCEPT ![p] = s]  BY DEF Goto
  <1> HIDE DEF s
  <1>4. Good(s, past', kept')  BY <1>1, <1>2 DEF Good
  <1>5. QED  BY <1>3, <1>4, MoveGood

(* Nothing is kept at first.                                               *)
LEMMA InitInv == Init => IInv
  <1> SUFFICES ASSUME Init PROVE RestGood /\ ProcsGood  BY DEF IInv
  <1>1. RestGood  BY DEF Init, RestGood, TouchMeansKept
  <1>2. Good(Idle, past, kept)
    BY DEF Good, Idle, Proc, Step, Command, Source, Replacing
  <1>3. Idle \in Proc  BY <1>2 DEF Good
  <1>4. ProcsGood  BY <1>2, <1>3 DEF Init, ProcsGood
  <1>5. QED  BY <1>1, <1>4

(* Storing keeps the rest good: the command holds a proven password.       *)
LEMMA StoreGood ==
  ASSUME IInv, NEW p \in Process, Store(p), proc[p].pc \in Replacing,
         UNCHANGED <<vault, daemon, past>>
  PROVE  IInv'
  <1>1. RestGood /\ ProcsGood  BY DEF IInv
  <1>2. proc[p].password \in past  BY <1>1 DEF ProcsGood, Good
  <1>3. RestGood'  BY <1>1, <1>2 DEF Store, RestGood, TouchMeansKept
  <1>4. kept \subseteq kept' /\ End(p)  BY DEF Store
  <1>5. ProcsGood'  BY <1>1, <1>4, EndGood
  <1>6. QED  BY <1>3, <1>5 DEF IInv

(* A password is changed, whoever does it.                                 *)
LEMMA ChangeGood ==
  ASSUME RestGood, NewPassword, UNCHANGED <<item, daemon, kept, saved>>
  PROVE  RestGood' /\ past \subseteq past' /\ kept \subseteq kept'
  BY DEF RestGood, NewPassword, TouchMeansKept

(* Each step keeps the invariant.                                          *)
LEMMA NextInv == IInv /\ [Next]_vars => IInv'
  <1> SUFFICES ASSUME IInv, [Next]_vars PROVE IInv'  OBVIOUS
  <1>p. RestGood /\ ProcsGood  BY DEF IInv
  <1> USE KeychainAssumption
  <1>0. CASE UNCHANGED vars
    BY <1>0, <1>p DEF vars, counts, IInv, RestGood, ProcsGood, Good, TouchMeansKept
  <1>1. ASSUME NEW p \in Process, Begin(p) PROVE IInv'
    <2>1. RestGood' /\ UNCHANGED <<past, kept>>
      BY <1>1, <1>p DEF Begin, RestGood, TouchMeansKept
    <2>2. PICK op \in Command, pc \in {"load", "prompt", "clear", "recover"} :
            proc' = [proc EXCEPT ![p] = [Idle EXCEPT !.op = op, !.pc = pc]]
      BY <1>1 DEF Begin, Command
    <2>3. Good([Idle EXCEPT !.op = op, !.pc = pc], past', kept')
      BY DEF Good, Idle, Proc, Step, Source, Replacing
    <2>4. QED  BY <1>p, <2>1, <2>2, <2>3, MoveGood DEF IInv
  <1>2. ASSUME NEW p \in Process, LoadItem(p) PROVE IInv'
    <2>1. RestGood' /\ UNCHANGED <<past, kept>>
      BY <1>2, <1>p DEF LoadItem, RestGood, TouchMeansKept
    <2> DEFINE s == [proc[p] EXCEPT !.pc = "open", !.password = item, !.source = "touchid"]
    <2>2. item \in kept /\ item \in Password  BY <1>2, <1>p DEF LoadItem, RestGood
    <2>3. /\ s \in Proc /\ s.pc = "open" /\ s.password = item /\ s.source = "touchid"
      BY <1>p, <2>2 DEF ProcsGood, Proc, Step, Source
    <2>4. proc' = [proc EXCEPT ![p] = s]  BY <1>2 DEF LoadItem
    <2> HIDE DEF s
    <2>5. Good(s, past', kept')  BY <2>1, <2>2, <2>3 DEF Good, Replacing
    <2>6. QED  BY <1>p, <2>1, <2>4, <2>5, MoveGood DEF IInv
  <1>3. ASSUME NEW p \in Process, LoadFails(p) PROVE IInv'
    <2>1. RestGood' /\ UNCHANGED <<past, kept>>
      BY <1>3, <1>p DEF LoadFails, RestGood, TouchMeansKept
    <2>2. proc[p].source = "password"  BY <1>3, <1>p DEF LoadFails, ProcsGood, Good
    <2>3. QED
      BY <1>3, <1>p, <2>1, <2>2, GotoGood DEF LoadFails, IInv, Step, Replacing
  <1>4. ASSUME NEW p \in Process, Prompt(p) PROVE IInv'
    <2>1. RestGood' /\ UNCHANGED <<past, kept>>
      BY <1>4, <1>p DEF Prompt, RestGood, TouchMeansKept
    <2>2. PICK w \in Password : proc' = [proc EXCEPT ![p].pc = "open", ![p].password = w]
      BY <1>4 DEF Prompt
    <2> DEFINE s == [proc[p] EXCEPT !.pc = "open", !.password = w]
    <2>3. proc' = [proc EXCEPT ![p] = s]  BY <1>p, <2>2 DEF ProcsGood
    <2>4. proc[p].source = "password"  BY <1>4, <1>p DEF Prompt, ProcsGood, Good
    <2>5. s \in Proc /\ s.pc = "open" /\ s.password = w /\ s.source = "password"
      BY <1>p, <2>4 DEF ProcsGood, Proc, Step, Source
    <2> HIDE DEF s
    <2>6. Good(s, past', kept')  BY <2>5 DEF Good, Replacing
    <2>7. QED  BY <1>p, <2>1, <2>3, <2>6, MoveGood DEF IInv
  <1>5. ASSUME NEW p \in Process, Open(p) PROVE IInv'
    <2>1. RestGood' /\ UNCHANGED <<past, kept>>
      BY <1>5, <1>p DEF Open, RestGood, TouchMeansKept
    <2>2. CASE End(p)  BY <1>p, <2>1, <2>2, EndGood DEF IInv
    <2>3. CASE proc[p].password = vault
      <3>1. proc[p].password \in past /\ proc[p].password # None
        BY <1>p, <2>3 DEF RestGood
      <3>2. QED
        BY <1>5, <1>p, <2>1, <2>3, <3>1, GotoGood DEF Open, IInv, Step, Replacing
    <2>4. QED  BY <1>5, <2>2, <2>3 DEF Open
  <1>6. ASSUME NEW p \in Process, Send(p) PROVE IInv'
    <2>1. proc[p] \in Proc /\ Good(proc[p], past, kept)  BY <1>p DEF ProcsGood
    <2>2. RestGood' /\ UNCHANGED <<past, kept>>
      BY <1>6, <1>p, <2>1 DEF Send, RestGood, TouchMeansKept, Good, Proc
    <2>3. QED  BY <1>6, <1>p, <2>2, EndGood DEF Send, IInv
  <1>7. ASSUME NEW p \in Process, Delete(p) PROVE IInv'
    <2>1. RestGood' /\ UNCHANGED <<past, kept>>
      BY <1>7, <1>p DEF Delete, RestGood, TouchMeansKept
    <2>2. proc[p].password # None /\ proc[p].password \in past
      BY <1>7, <1>p DEF Delete, ProcsGood, Good
    <2>3. QED  BY <1>7, <1>p, <2>1, <2>2, GotoGood DEF Delete, IInv, Step, Replacing
  <1>8. ASSUME NEW p \in Process, Add(p) PROVE IInv'
    <2>1. CASE Store(p)  BY <1>8, <2>1, StoreGood DEF Add, Replacing
    <2>2. CASE Goto(p, "deleteAgain") /\ UNCHANGED <<item, kept, saved>>
      <3>1. RestGood' /\ UNCHANGED <<past, kept>>
        BY <1>8, <1>p, <2>2 DEF Add, RestGood, TouchMeansKept
      <3>2. proc[p].password # None /\ proc[p].password \in past
        BY <1>8, <1>p DEF Add, ProcsGood, Good, Replacing
      <3>3. QED  BY <1>p, <2>2, <3>1, <3>2, GotoGood DEF IInv, Step, Replacing
    <2>3. QED  BY <1>8, <2>1, <2>2 DEF Add
  <1>9. ASSUME NEW p \in Process, DeleteAgain(p) PROVE IInv'
    <2>1. RestGood' /\ UNCHANGED <<past, kept>>
      BY <1>9, <1>p DEF DeleteAgain, RestGood, TouchMeansKept
    <2>2. proc[p].password # None /\ proc[p].password \in past
      BY <1>9, <1>p DEF DeleteAgain, ProcsGood, Good, Replacing
    <2>3. QED  BY <1>9, <1>p, <2>1, <2>2, GotoGood DEF DeleteAgain, IInv, Step, Replacing
  <1>10. ASSUME NEW p \in Process, AddAgain(p) PROVE IInv'
    <2>1. CASE Store(p)  BY <1>10, <2>1, StoreGood DEF AddAgain, Replacing
    <2>2. CASE End(p) /\ UNCHANGED <<item, kept, saved>>
      <3>1. RestGood' /\ UNCHANGED <<past, kept>>
        BY <1>10, <1>p, <2>2 DEF AddAgain, RestGood, TouchMeansKept
      <3>2. QED  BY <1>p, <2>2, <3>1, EndGood DEF IInv
    <2>3. QED  BY <1>10, <2>1, <2>2 DEF AddAgain
  <1>11. ASSUME NEW p \in Process, Refused(p) PROVE IInv'
    <2>1. RestGood' /\ UNCHANGED <<past, kept>>
      BY <1>11, <1>p DEF Refused, RestGood, TouchMeansKept
    <2>2. QED  BY <1>11, <1>p, <2>1, EndGood DEF Refused, IInv
  <1>12. ASSUME NEW p \in Process, Clear(p) PROVE IInv'
    <2>1. RestGood' /\ UNCHANGED <<past, kept>>
      BY <1>12, <1>p DEF Clear, RestGood, TouchMeansKept
    <2>2. QED  BY <1>12, <1>p, <2>1, EndGood DEF Clear, IInv
  <1>13. ASSUME NEW p \in Process, Recover(p) PROVE IInv'
    BY <1>13, <1>p, ChangeGood, EndGood DEF Recover, IInv
  <1>14. CASE Replaced
    <2>1. RestGood' /\ past \subseteq past' /\ kept \subseteq kept' /\ proc' = proc
      BY <1>14, <1>p, ChangeGood DEF Replaced
    <2>2. ProcsGood'  BY <1>p, <2>1 DEF ProcsGood, Good
    <2>3. QED  BY <2>1, <2>2 DEF IInv
  <1>15. CASE Lock
    BY <1>15, <1>p DEF Lock, IInv, RestGood, ProcsGood, Good, TouchMeansKept
  <1>16. ASSUME NEW p \in Process, Crash(p) PROVE IInv'
    <2>1. RestGood' /\ UNCHANGED <<past, kept>>
      BY <1>16, <1>p DEF Crash, RestGood, TouchMeansKept
    <2>2. QED  BY <1>16, <1>p, <2>1, EndGood DEF Crash, IInv
  <1>17. ASSUME NEW p \in Process, DeleteFails(p) PROVE IInv'
    <2>1. RestGood' /\ UNCHANGED <<past, kept>>
      BY <1>17, <1>p DEF DeleteFails, RestGood, TouchMeansKept
    <2>2. CASE End(p)  BY <1>p, <2>1, <2>2, EndGood DEF IInv
    <2>3. CASE proc[p].pc \in {"delete", "deleteAgain"}
      <3>1. proc[p].password # None /\ proc[p].password \in past
        BY <2>3, <1>p DEF ProcsGood, Good, Replacing
      <3>2. \E pc \in {"add", "addAgain"} : Goto(p, pc)  BY <1>17, <2>3 DEF DeleteFails
      <3>3. QED  BY <1>p, <2>1, <3>1, <3>2, GotoGood DEF IInv, Step, Replacing
    <2>4. QED  BY <1>17, <2>2, <2>3 DEF DeleteFails
  <1>18. QED
    BY <1>0, <1>1, <1>2, <1>3, <1>4, <1>5, <1>6, <1>7, <1>8, <1>9, <1>10, <1>11, <1>12,
       <1>13, <1>14, <1>15, <1>16, <1>17 DEF Next

-----------------------------------------------------------------------------
(* A command that leaves the item alone and replaces none, or is about to  *)
(* go on replacing it, does not lose it.                                   *)
LEMMA KeepsFound ==
  ASSUME SavedIsFound, NEW p \in Process, UNCHANGED item, saved' => saved,
         \A q \in Process \ {p} : proc'[q] = proc[q],
         \/ proc[p].pc \notin Replacing
         \/ proc'[p].pc \in Replacing
         \/ item # None
  PROVE  SavedIsFound'
  BY DEF SavedIsFound

(* Where a step of one command leads, and what the others do meanwhile.    *)
LEMMA OneMoves ==
  ASSUME ProcsGood, NEW p \in Process
  PROVE  /\ End(p) => \A q \in Process \ {p} : proc'[q] = proc[q]
         /\ \A pc : Goto(p, pc) => /\ proc'[p].pc = pc
                                  /\ \A q \in Process \ {p} : proc'[q] = proc[q]
  BY DEF ProcsGood, Proc, End, Goto

(* Only those that replace the item take it, and they put one back or      *)
(* forget that it was saved.                                               *)
LEMMA NextFound == IInv /\ SavedIsFound /\ [Next]_vars => SavedIsFound'
  <1> SUFFICES ASSUME IInv, SavedIsFound, [Next]_vars PROVE SavedIsFound'  OBVIOUS
  <1>p. ProcsGood  BY DEF IInv
  <1>1. ASSUME NEW p \in Process,
               \/ Begin(p) \/ LoadItem(p) \/ LoadFails(p) \/ Prompt(p) \/ Open(p)
               \/ Send(p) \/ Recover(p)
        PROVE  SavedIsFound'
    <2>1. UNCHANGED <<item, saved>> /\ proc[p].pc \notin Replacing
      BY <1>1 DEF Begin, LoadItem, LoadFails, Prompt, Open, Send, Recover, Replacing
    <2>2. \A q \in Process \ {p} : proc'[q] = proc[q]
      BY <1>1, <1>p, OneMoves
         DEF ProcsGood, Begin, LoadItem, LoadFails, Prompt, Open, Send, Recover
    <2>3. QED  BY <2>1, <2>2, KeepsFound
  <1>2. ASSUME NEW p \in Process, Delete(p) \/ DeleteAgain(p)
        PROVE  SavedIsFound'
    <2>1. proc'[p].pc \in Replacing
      BY <1>2, <1>p, OneMoves DEF Delete, DeleteAgain, Replacing
    <2>2. QED  BY <2>1 DEF SavedIsFound
  <1>3. ASSUME NEW p \in Process, Add(p) \/ AddAgain(p)
        PROVE  SavedIsFound'
    <2>1. CASE Store(p)
      <3>1. proc[p].password # None
        BY <1>3, <1>p DEF Add, AddAgain, ProcsGood, Good, Replacing
      <3>2. QED  BY <2>1, <3>1 DEF Store, SavedIsFound
    <2>2. CASE UNCHANGED <<item, saved>> /\ item # None
      BY <2>2 DEF SavedIsFound
    <2>3. QED  BY <1>3, <2>1, <2>2 DEF Add, AddAgain
  <1>4. ASSUME NEW p \in Process, Refused(p) \/ Clear(p) \/ Crash(p)
        PROVE  SavedIsFound'
    BY <1>4 DEF Refused, Clear, Crash, SavedIsFound
  <1>5. ASSUME NEW p \in Process, DeleteFails(p)
        PROVE  SavedIsFound'
    <2>1. UNCHANGED <<item, saved>>  BY <1>5 DEF DeleteFails
    <2>2. proc[p].pc \notin Replacing \/ proc'[p].pc \in Replacing
      BY <1>5, <1>p, OneMoves DEF DeleteFails, Replacing
    <2>3. \A q \in Process \ {p} : proc'[q] = proc[q]
      BY <1>5, <1>p, OneMoves DEF DeleteFails
    <2>4. QED  BY <2>1, <2>2, <2>3, KeepsFound
  <1>6. CASE Replaced \/ Lock \/ UNCHANGED vars
    BY <1>6 DEF Replaced, Lock, vars, counts, SavedIsFound
  <1>7. QED  BY <1>1, <1>2, <1>3, <1>4, <1>5, <1>6 DEF Next

(* The types hold in every reachable state.                                *)
THEOREM TypeCorrect == Spec => []TypeOK
  BY InitInv, NextInv, Implies, PTL DEF Spec

(* Whatever commands save and change at the same time, the Keychain keeps  *)
(* only passwords that opened this vault (handle_unlock).                  *)
THEOREM KeptWereProven == Spec => []KeptWasProven
  BY InitInv, NextInv, Implies, PTL DEF Spec

(* The log says touchid only for a password the Keychain has kept.         *)
THEOREM TouchIdIsTrue == Spec => []TouchMeansKept
  BY InitInv, NextInv, Implies, PTL DEF Spec

(* Saves that replace each other's item leave one there (save_password).   *)
THEOREM SavedStaysFound == Spec => []SavedIsFound
  <1>1. Init => SavedIsFound  BY DEF Init, SavedIsFound
  <1>2. IInv /\ SavedIsFound /\ [Next]_vars => SavedIsFound'  BY NextFound
  <1>3. QED  BY <1>1, <1>2, InitInv, NextInv, PTL DEF Spec
=============================================================================
