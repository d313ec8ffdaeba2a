------------------------- MODULE LedgerClientsProofs -------------------------
(***************************************************************************)
(* The properties of LedgerClients hold for any number of tasks,           *)
(* contracts, clients and revisions.                                       *)
(*                                                                         *)
(* The inductive invariant adds three facts to the properties themselves:  *)
(* numbers of revisions only grow and a client's screen never shows a      *)
(* later one; every item that is marked as agreed was agreed to by some    *)
(* client for its present contract; task rows and approved contracts       *)
(* always come in pairs.                                                   *)
(***************************************************************************)
EXTENDS LedgerClients, CodingLedgerProofs

\* A screen shows the present or an earlier revision.
ViewIsPast ==
    \A c \in Client : view[c].revision <= ledger.revision

\* An agreement in the plan is someone's agreement to that contract.
AgreedWasSigned ==
    \A t \in Task : IsActive(plan[t]) /\ plan[t].agreed => <<t, plan[t].contract>> \in signed

IInv ==
    /\ TypeOK
    /\ LedgerShape
    /\ ViewIsPast
    /\ RevisionNamesContents
    /\ AgreedWasSigned
    /\ ApprovedWasSigned
    /\ AcceptedWasDelivered
    /\ CompletedWasDelivered
    /\ CancelledLeavesNothingReady

\* Both kinds of mutation write one edited item under the revision on screen.
LEMMA MutationStep ==
    ASSUME NEW c \in Client, Edit(c) \/ Agree(c)
    PROVE  /\ UNCHANGED <<view, delivered>>
           /\ \E t \in Task : \E item \in Mutated(t) :
                ApplyCodingLedgerMutation(view[c].revision, [plan EXCEPT ![t] = item])
BY Zenon DEF Edit, Agree, clientVars, Mutated

\* The initial state satisfies the invariant.
LEMMA InitInvariant == Init => IInv
<1>. SUFFICES ASSUME Init PROVE IInv
  OBVIOUS
<1>1. TypeOK
  <2>1. LedgerTypeOK
    BY LedgerInitType DEF Init
  <2>. QED
    BY <2>1, ItemType DEF Init, TypeOK, NoView
<1>2. LedgerShape
  BY LedgerInitShape DEF Init
<1>3. ViewIsPast /\ RevisionNamesContents
  BY DEF Init, LedgerInit, ViewIsPast, RevisionNamesContents, NoView
<1>4. AgreedWasSigned /\ ApprovedWasSigned /\ AcceptedWasDelivered
  BY DEF Init, LedgerInit, AgreedWasSigned, ApprovedWasSigned, AcceptedWasDelivered,
         IsActive, AbsentItem
<1>5. CompletedWasDelivered /\ CancelledLeavesNothingReady
  BY DEF Init, LedgerInit, CompletedWasDelivered, CancelledLeavesNothingReady
<1>. QED
  BY <1>1, <1>2, <1>3, <1>4, <1>5 DEF IInv

\* Every step preserves the type.
LEMMA NextType == TypeOK /\ [Next]_vars => TypeOK'
<1>. SUFFICES ASSUME TypeOK, [Next]_vars PROVE TypeOK'
  OBVIOUS
<1>0. LedgerTypeOK
  BY DEF TypeOK
<1>. USE DEF TypeOK
<1>1. CASE Create
  <2>1. PICK items \in [Task -> {AbsentItem} \cup {ActiveItem(k) : k \in Contract}] :
            CreateCodingLedger(items)
    BY <1>1 DEF Create
  <2>2. items \in [Task -> Item]
    BY ItemType
  <2>. QED
    BY <1>0, <1>1, <2>1, <2>2, WriteType DEF Create, clientVars
<1>2. CASE Reopen
  BY <1>0, <1>2, TransitionType DEF Reopen, clientVars
<1>3. CASE Cancel
  BY <1>0, <1>3, TransitionType, Zenon DEF Cancel, clientVars
<1>4. CASE Accept
  <2>1. PICK t \in Task : /\ AcceptTask(t)
                          /\ delivered' = delivered \cup {<<t, approved[t]>>}
                          /\ UNCHANGED <<view, signed>>
    BY <1>4 DEF Accept
  <2>2. approved[t] \in Contract \cup {NoContract}
    BY <1>0 DEF LedgerTypeOK
  <2>3. LedgerTypeOK'
    BY <1>0, <2>1, TransitionType
  <2>4. delivered' \in SUBSET Pairs
    BY <2>1, <2>2 DEF Pairs
  <2>. QED
    BY <2>1, <2>3, <2>4
<1>5. CASE Complete
  BY <1>0, <1>5, TransitionType DEF Complete, clientVars
<1>6. ASSUME NEW c \in Client, Read(c) PROVE TypeOK'
  BY <1>6 DEF Read, ledgerVars, LedgerTypeOK, Ledger
<1>7. ASSUME NEW c \in Client, Edit(c) \/ Agree(c) PROVE TypeOK'
  <2>1. PICK t \in Task : \E item \in Mutated(t) :
            ApplyCodingLedgerMutation(view[c].revision, [plan EXCEPT ![t] = item])
    BY <1>7, MutationStep
  <2>2. PICK item \in Mutated(t) :
            ApplyCodingLedgerMutation(view[c].revision, [plan EXCEPT ![t] = item])
    BY <2>1
  <2>3. [plan EXCEPT ![t] = item] \in [Task -> Item]
    BY <1>0, MutatedType DEF LedgerTypeOK
  <2>4. LedgerTypeOK'
    BY <1>0, <2>2, <2>3, WriteType, Zenon
  <2>5. \A u \in Task : \A i \in Mutated(u) : MeantContract(c, u, i) \in Contract \cup {NoContract}
    BY <1>0, MutatedType DEF MeantContract, Item
  <2>6. \/ signed' = signed
        \/ \E u \in Task : \E i \in Mutated(u) : signed' = signed \cup {<<u, MeantContract(c, u, i)>>}
    BY <1>7, Zenon DEF Edit, Agree, Mutated, clientVars
  <2>7. signed' \in SUBSET Pairs
    BY <2>5, <2>6 DEF Pairs
  <2>. QED
    BY <1>7, <2>4, <2>7, MutationStep
<1>8. ASSUME NEW c \in Client, Repropose(c) PROVE TypeOK'
  <2>1. plan \in [Task -> Item]
    BY <1>0 DEF LedgerTypeOK
  <2>. QED
    BY <1>0, <1>8, <2>1, WriteType DEF Repropose, clientVars
<1>9. ASSUME NEW c \in Client, Freeze(c) PROVE TypeOK'
  BY <1>0, <1>9, TransitionType DEF Freeze, clientVars
<1>10. CASE UNCHANGED vars
  BY <1>10 DEF vars, ledgerVars, clientVars, LedgerTypeOK
<1>. QED
  BY <1>1, <1>2, <1>3, <1>4, <1>5, <1>6, <1>7, <1>8, <1>9, <1>10 DEF Next

\* Every step keeps the shape of the ledger.
LEMMA NextShape == TypeOK /\ LedgerShape /\ [Next]_vars => LedgerShape'
<1>. SUFFICES ASSUME TypeOK, LedgerShape, [Next]_vars PROVE LedgerShape'
  OBVIOUS
<1>0. LedgerTypeOK
  BY DEF TypeOK
<1>1. CASE Create
  <2>1. PICK items \in [Task -> {AbsentItem} \cup {ActiveItem(k) : k \in Contract}] :
            CreateCodingLedger(items)
    BY <1>1 DEF Create
  <2>2. Filled(AbsentItem) /\ \A k \in Contract : Filled(ActiveItem(k))
    BY DEF Filled, IsActive, AbsentItem, ActiveItem
  <2>3. items \in [Task -> Item] /\ \A t \in Task : Filled(items[t])
    BY <2>2, ItemType
  <2>. QED
    BY <1>0, <2>1, <2>3, WriteShape
<1>2. CASE Reopen
  BY <1>0, <1>2, TransitionShape DEF Reopen
<1>3. CASE Cancel
  BY <1>0, <1>3, TransitionShape DEF Cancel
<1>4. CASE Accept
  BY <1>0, <1>4, TransitionShape DEF Accept
<1>5. CASE Complete
  BY <1>0, <1>5, TransitionShape DEF Complete
<1>6. CASE UNCHANGED ledgerVars
  BY <1>6 DEF ledgerVars, LedgerShape, Filled, IsActive, FrozenContract
<1>7. ASSUME NEW c \in Client, Edit(c) \/ Agree(c) PROVE LedgerShape'
  <2>1. PICK t \in Task : \E item \in Mutated(t) :
            ApplyCodingLedgerMutation(view[c].revision, [plan EXCEPT ![t] = item])
    BY <1>7, MutationStep
  <2>2. PICK item \in Mutated(t) :
            ApplyCodingLedgerMutation(view[c].revision, [plan EXCEPT ![t] = item])
    BY <2>1
  <2>3. item \in Item /\ Filled(item)
    BY <1>0, MutatedType, MutatedFilled DEF LedgerShape
  <2>. DEFINE items == [plan EXCEPT ![t] = item]
  <2>4. items \in [Task -> Item] /\ \A u \in Task : Filled(items[u])
    BY <1>0, <2>3 DEF LedgerTypeOK, LedgerShape
  <2>5. ApplyCodingLedgerMutation(view[c].revision, items)
    BY <2>2
  <2>. HIDE DEF items
  <2>. QED
    BY <1>0, <2>4, <2>5, WriteShape
<1>8. ASSUME NEW c \in Client, Repropose(c) PROVE LedgerShape'
  <2>1. plan \in [Task -> Item]
    BY <1>0 DEF LedgerTypeOK
  <2>. QED
    BY <1>0, <1>8, <2>1, WriteShape DEF Repropose
<1>9. ASSUME NEW c \in Client, Freeze(c) PROVE LedgerShape'
  BY <1>0, <1>9, TransitionShape DEF Freeze
<1>. QED
  BY <1>1, <1>2, <1>3, <1>4, <1>5, <1>6, <1>7, <1>8, <1>9 DEF Next, Read, vars

\* What a step does to revisions and screens: a client reads, or the plan gets
\* a new revision, or neither changes.
LEMMA RevisionStep ==
    ASSUME TypeOK, LedgerShape, [Next]_vars
    PROVE  \/ \E c \in Client : Read(c)
           \/ view' = view /\ ledger'.revision = ledger.revision + 1
           \/ UNCHANGED <<view, plan>> /\ ledger'.revision = ledger.revision
<1>0. ledger \in Ledger /\ ledger.revision \in Nat
  BY DEF TypeOK, LedgerTypeOK, Ledger
<1>. USE DEF clientVars
<1>1. CASE Create
  BY <1>0, <1>1 DEF Create, CreateCodingLedger, LedgerShape, Ledger
<1>2. CASE Reopen
  BY <1>0, <1>2 DEF Reopen, SupersedeCodingAuthority, Ledger
<1>3. CASE Cancel
  BY <1>0, <1>3, Zenon DEF Cancel, CancelCodingAuthority, Ledger
<1>4. CASE Accept
  BY <1>0, <1>4 DEF Accept, AcceptTask
<1>5. CASE Complete
  BY <1>0, <1>5 DEF Complete, CompleteCodingLedger, Ledger
<1>6. ASSUME NEW base, NextRevision(base, "proposed")
      PROVE  ledger'.revision = ledger.revision + 1
  BY <1>0, <1>6 DEF NextRevision, Ledger
<1>7. ASSUME NEW c \in Client, Edit(c) \/ Agree(c)
      PROVE  view' = view /\ ledger'.revision = ledger.revision + 1
  BY <1>6, <1>7, MutationStep DEF ApplyCodingLedgerMutation
<1>8. ASSUME NEW c \in Client, Repropose(c)
      PROVE  view' = view /\ ledger'.revision = ledger.revision + 1
  BY <1>6, <1>8 DEF Repropose, ProposeUnchanged
<1>9. ASSUME NEW c \in Client, Freeze(c)
      PROVE  view' = view /\ ledger'.revision = ledger.revision + 1
  BY <1>9 DEF Freeze, FreezeCodingLedger
<1>10. CASE UNCHANGED vars
  BY <1>10 DEF vars, ledgerVars
<1>. QED
  BY <1>1, <1>2, <1>3, <1>4, <1>5, <1>7, <1>8, <1>9, <1>10 DEF Next

\* Revision numbers keep naming contents.
LEMMA NextView ==
    ASSUME TypeOK, LedgerShape, ViewIsPast, RevisionNamesContents, [Next]_vars
    PROVE  ViewIsPast' /\ RevisionNamesContents'
<1>0. ledger.revision \in Nat /\ \A c \in Client : view[c].revision \in Nat
  BY DEF TypeOK, LedgerTypeOK, Ledger
<1>1. ASSUME NEW c \in Client, Read(c) PROVE ViewIsPast' /\ RevisionNamesContents'
  <2>1. /\ ledger' = ledger /\ plan' = plan
        /\ view'[c] = [revision |-> ledger.revision, plan |-> plan]
        /\ \A d \in Client \ {c} : view'[d] = view[d]
    BY <1>1 DEF Read, ledgerVars, TypeOK
  <2>2. \A d \in Client : view'[d] = view[d] \/ view'[d] = [revision |-> ledger.revision, plan |-> plan]
    BY <2>1
  <2>. QED
    BY <1>0, <2>1, <2>2 DEF ViewIsPast, RevisionNamesContents
<1>2. CASE view' = view /\ ledger'.revision = ledger.revision + 1
  BY <1>0, <1>2 DEF ViewIsPast, RevisionNamesContents
<1>3. CASE UNCHANGED <<view, plan>> /\ ledger'.revision = ledger.revision
  BY <1>0, <1>3 DEF ViewIsPast, RevisionNamesContents
<1>. QED
  BY <1>1, <1>2, <1>3, RevisionStep

\* Agreements stay signed, approved contracts too.
LEMMA NextSigned ==
    ASSUME TypeOK, LedgerShape, RevisionNamesContents, AgreedWasSigned, ApprovedWasSigned,
           [Next]_vars
    PROVE  AgreedWasSigned' /\ ApprovedWasSigned'
<1>. USE DEF AgreedWasSigned, ApprovedWasSigned, IsActive, clientVars
<1>1. CASE Create
  <2>1. PICK items \in [Task -> {AbsentItem} \cup {ActiveItem(k) : k \in Contract}] :
            CreateCodingLedger(items)
    BY <1>1 DEF Create
  <2>2. ~AbsentItem.agreed /\ \A k \in Contract : ~ActiveItem(k).agreed
    BY DEF AbsentItem, ActiveItem
  <2>3. \A t \in Task : ~items[t].agreed
    BY <2>2
  <2>. QED
    BY <1>1, <2>1, <2>3 DEF Create, CreateCodingLedger
<1>2. CASE UNCHANGED <<plan, approved, signed>>
  BY <1>2
<1>3. ASSUME NEW c \in Client, Edit(c) PROVE AgreedWasSigned' /\ ApprovedWasSigned'
  <2>1. PICK t \in Task : \E item \in Changed(t) :
            ApplyCodingLedgerMutation(view[c].revision, [plan EXCEPT ![t] = item])
    BY <1>3 DEF Edit
  <2>2. PICK item \in Changed(t) :
            ApplyCodingLedgerMutation(view[c].revision, [plan EXCEPT ![t] = item])
    BY <2>1
  <2>3. item.agreed => item = plan[t]
    BY ChangedAgreement DEF TypeOK, LedgerTypeOK
  <2>4. /\ approved' = approved /\ signed' = signed
        /\ plan'[t] = item /\ \A u \in Task \ {t} : plan'[u] = plan[u]
    BY <1>3, <2>2 DEF Edit, ApplyCodingLedgerMutation, TypeOK, LedgerTypeOK
  <2>. QED
    BY <2>3, <2>4
<1>5. ASSUME NEW c \in Client, Agree(c) PROVE AgreedWasSigned' /\ ApprovedWasSigned'
  <2>1. PICK t \in Task : \E item \in Agreed(t) :
            /\ ApplyCodingLedgerMutation(view[c].revision, [plan EXCEPT ![t] = item])
            /\ signed' = signed \cup {<<t, MeantContract(c, t, item)>>}
    BY <1>5 DEF Agree
  <2>2. PICK item \in Agreed(t) :
            /\ ApplyCodingLedgerMutation(view[c].revision, [plan EXCEPT ![t] = item])
            /\ signed' = signed \cup {<<t, MeantContract(c, t, item)>>}
    BY <2>1
  <2>3. view[c].plan = plan
    BY <2>2 DEF ApplyCodingLedgerMutation, Editable, NextRevision, ExactRevision,
                RevisionNamesContents, LedgerShape, TypeOK, LedgerTypeOK, Ledger
  <2>4. MeantContract(c, t, item) = item.contract
    BY <2>3 DEF MeantContract
  <2>5. /\ approved' = approved /\ signed \subseteq signed'
        /\ <<t, item.contract>> \in signed'
        /\ plan'[t] = item /\ \A u \in Task \ {t} : plan'[u] = plan[u]
    BY <2>2, <2>4 DEF ApplyCodingLedgerMutation, TypeOK, LedgerTypeOK
  <2>. QED
    BY <2>5
<1>4. ASSUME NEW c \in Client, Freeze(c) PROVE AgreedWasSigned' /\ ApprovedWasSigned'
  BY <1>4 DEF Freeze, FreezeCodingLedger, FrozenContract
<1>. QED
  BY <1>1, <1>2, <1>3, <1>4, <1>5 DEF Next, vars, ledgerVars, Reopen, SupersedeCodingAuthority,
     Cancel, CancelCodingAuthority, Accept, AcceptTask, Complete, CompleteCodingLedger,
     Read, Repropose, ProposeUnchanged

\* Accepted rows stay delivered, cancelled ledgers quiet, completed ones complete.
LEMMA NextDelivered ==
    ASSUME TypeOK, LedgerShape, AcceptedWasDelivered, CompletedWasDelivered,
           CancelledLeavesNothingReady, [Next]_vars
    PROVE  AcceptedWasDelivered' /\ CompletedWasDelivered' /\ CancelledLeavesNothingReady'
<1>. DEFINE Goal == AcceptedWasDelivered /\ CompletedWasDelivered /\ CancelledLeavesNothingReady
<1>. USE DEF AcceptedWasDelivered, CompletedWasDelivered, CancelledLeavesNothingReady, clientVars
<1>0. ledger \in Ledger
  BY DEF TypeOK, LedgerTypeOK
<1>1. CASE /\ ledger'.state \notin {"completed", "cancelled"} \/ UNCHANGED ledger
           /\ UNCHANGED <<tasks, approved, delivered>>
  BY <1>1
<1>2. CASE Create
  <2>1. ledger'.state = "proposed"
    BY <1>0, <1>2 DEF Create, CreateCodingLedger, Ledger
  <2>. QED
    BY <1>1, <1>2, <2>1 DEF Create, CreateCodingLedger
<1>3. CASE Reopen
  <2>1. ledger'.state = "revising"
    BY <1>0, <1>3 DEF Reopen, SupersedeCodingAuthority, Ledger
  <2>. QED
    BY <1>1, <1>3, <2>1 DEF Reopen, SupersedeCodingAuthority
<1>4. CASE Cancel
  <2>1. ledger'.state = "cancelled"
    BY <1>0, <1>4, Zenon DEF Cancel, CancelCodingAuthority, Ledger
  <2>2. \A t \in Task : tasks'[t] # "ready" /\ (tasks'[t] = "accepted" <=> tasks[t] = "accepted")
    BY <1>4 DEF Cancel, CancelCodingAuthority, CancelledRow
  <2>. QED
    BY <1>4, <2>1, <2>2 DEF Cancel, CancelCodingAuthority
<1>5. CASE Accept
  <2>1. PICK t \in Task : AcceptTask(t) /\ delivered' = delivered \cup {<<t, approved[t]>>}
    BY <1>5 DEF Accept
  <2>2. \A u \in Task : u # t => tasks'[u] = tasks[u]
    BY <2>1 DEF AcceptTask, TypeOK, LedgerTypeOK
  <2>. QED
    BY <2>1, <2>2 DEF AcceptTask
<1>6. CASE Complete
  <2>1. ledger'.state = "completed"
    BY <1>0, <1>6 DEF Complete, CompleteCodingLedger, Ledger
  <2>2. /\ \E t \in Task : approved[t] # NoContract
        /\ \A t \in Task : approved[t] # NoContract => tasks[t] = "accepted"
    BY <1>6, ContractAssumption DEF Complete, CompleteCodingLedger, AllAccepted, LedgerShape,
       Filled, FrozenContract
  <2>. QED
    BY <1>6, <2>1, <2>2 DEF Complete, CompleteCodingLedger
<1>7. ASSUME NEW c \in Client, Freeze(c) PROVE Goal'
  <2>1. \A t \in Task : tasks'[t] = "accepted" => tasks[t] = "accepted" /\ approved'[t] = approved[t]
    BY <1>7 DEF Freeze, FreezeCodingLedger, FrozenRow, FrozenContract
  <2>. QED
    BY <1>7, <2>1 DEF Freeze, FreezeCodingLedger
<1>8. ASSUME NEW base, NextRevision(base, "proposed") PROVE ledger'.state = "proposed"
  BY <1>0, <1>8 DEF NextRevision, Ledger
<1>9. ASSUME NEW c \in Client, Edit(c) \/ Agree(c) \/ Repropose(c) PROVE Goal'
  BY <1>1, <1>8, <1>9, MutationStep DEF ApplyCodingLedgerMutation, Repropose, ProposeUnchanged
<1>10. ASSUME NEW c \in Client, Read(c) PROVE Goal'
  BY <1>1, <1>10 DEF Read, ledgerVars
<1>11. CASE UNCHANGED vars
  BY <1>1, <1>11 DEF vars, ledgerVars
<1>. QED
  BY <1>2, <1>3, <1>4, <1>5, <1>6, <1>7, <1>9, <1>10, <1>11 DEF Next

\* The invariant is inductive.
THEOREM Inductive == Spec => []IInv
<1>1. IInv /\ [Next]_vars => IInv'
  BY NextType, NextShape, NextView, NextSigned, NextDelivered DEF IInv
<1>. QED
  BY InitInvariant, <1>1, PTL DEF Spec

\* The ledger, the screens and the histories keep their types.
THEOREM TypeCorrect == Spec => []TypeOK
BY Inductive, PTL DEF IInv

\* A revision number names one content of the plan for good.
THEOREM RevisionsNameContents == Spec => []RevisionNamesContents
BY Inductive, PTL DEF IInv

\* Whatever is executed was agreed to, for exactly the contract executed.
THEOREM ApprovedContractsWereSigned == Spec => []ApprovedWasSigned
BY Inductive, PTL DEF IInv

\* Acceptance is never carried over to a contract nobody delivered.
THEOREM AcceptedWorkWasDelivered == Spec => []AcceptedWasDelivered
BY Inductive, PTL DEF IInv

\* A completed ledger is delivered in full and not empty.
THEOREM CompletedLedgersWereDelivered == Spec => []CompletedWasDelivered
BY Inductive, PTL DEF IInv

\* A cancelled ledger has no task to pick up.
THEOREM CancelledLedgersAreQuiet == Spec => []CancelledLeavesNothingReady
BY Inductive, PTL DEF IInv

\* What runs is the plan that was approved.
THEOREM ExecutedPlansAreApproved == Spec => []ExecutedPlanIsApproved
<1>1. IInv => ExecutedPlanIsApproved
  BY DEF IInv, LedgerShape, ExecutedPlanIsApproved
<1>. QED
  BY Inductive, <1>1, PTL

\* Freezing approves the items on the screen of whoever froze.
THEOREM FreezesApproveWhatWasShown == Spec => FreezeApprovesWhatWasShown
<1>. DEFINE Shown == ledger.state # "frozen" /\ ledger'.state = "frozen" =>
         \E c \in Client :
            \A t \in Task :
               approved'[t] = IF IsActive(view[c].plan[t]) THEN view[c].plan[t].contract
                              ELSE NoContract
<1>1. IInv /\ [Next]_vars => [Shown]_vars
  <2>. SUFFICES ASSUME IInv, Next, ledger.state # "frozen", ledger'.state = "frozen"
                PROVE  Shown
    OBVIOUS
  <2>0. ledger \in Ledger
    BY DEF IInv, TypeOK, LedgerTypeOK
  <2>1. \E c \in Client : Freeze(c)
    <3>1. ~Create
      BY <2>0, Zenon DEF Create, CreateCodingLedger, Ledger
    <3>2. ~Reopen /\ ~Cancel /\ ~Complete /\ ~Accept
      BY <2>0, Zenon DEF Reopen, Cancel, CancelCodingAuthority, Complete, CompleteCodingLedger,
                  Accept, AcceptTask, Ledger
    <3>3. ASSUME NEW base PROVE ~NextRevision(base, "proposed")
      BY <2>0, Zenon DEF NextRevision, Ledger
    <3>4. ASSUME NEW c \in Client PROVE ~Edit(c) /\ ~Agree(c) /\ ~Repropose(c) /\ ~Read(c)
      BY <3>3, MutationStep DEF ApplyCodingLedgerMutation, Repropose, ProposeUnchanged, Read, ledgerVars
    <3>. QED
      BY <3>1, <3>2, <3>4 DEF Next
  <2>2. PICK c \in Client : Freeze(c)
    BY <2>1
  <2>3. view[c].plan = plan
    BY <2>0, <2>2 DEF IInv, Freeze, FreezeCodingLedger, ExactRevision, RevisionNamesContents,
                      LedgerShape, Ledger
  <2>. QED
    BY <2>2, <2>3 DEF Freeze, FreezeCodingLedger, FrozenContract
<1>. QED
  BY Inductive, <1>1, PTL DEF Spec, FreezeApprovesWhatWasShown

\* Accepted work stays accepted while its contract is the approved one.
THEOREM AcceptedWorkStays == Spec => AcceptedWorkIsKept
<1>. DEFINE Kept == \A t \in Task : tasks[t] = "accepted" /\ approved'[t] = approved[t]
                                    => tasks'[t] = "accepted"
<1>1. IInv /\ [Next]_vars => [Kept]_vars
  <2>. SUFFICES ASSUME IInv, Next PROVE Kept
    OBVIOUS
  <2>1. CASE UNCHANGED tasks
    BY <2>1
  <2>2. CASE Cancel
    BY <2>2 DEF Cancel, CancelCodingAuthority, CancelledRow
  <2>3. CASE Accept
    BY <2>3 DEF Accept, AcceptTask, IInv, TypeOK, LedgerTypeOK
  <2>4. ASSUME NEW c \in Client, Freeze(c) PROVE Kept
    BY <2>4 DEF Freeze, FreezeCodingLedger, FrozenRow, FrozenContract, IInv, LedgerShape
  <2>. QED
    BY <2>1, <2>2, <2>3, <2>4 DEF Next, Create, CreateCodingLedger, Reopen,
       SupersedeCodingAuthority, Complete, CompleteCodingLedger, Read, ledgerVars, Edit, Agree,
       ApplyCodingLedgerMutation, Repropose, ProposeUnchanged
<1>. QED
  BY Inductive, <1>1, PTL DEF Spec, AcceptedWorkIsKept
=============================================================================
