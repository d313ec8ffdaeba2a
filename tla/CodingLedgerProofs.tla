------------------------- MODULE CodingLedgerProofs -------------------------
(***************************************************************************)
(* Lemmas about the operations of CodingLedger, used by the proofs of the  *)
(* modules that extend it.                                                 *)
(***************************************************************************)
EXTENDS CodingLedger, TLAPS

\* Items of a draft and of an edit are items.
LEMMA ItemType ==
    /\ AbsentItem \in Item
    /\ \A c \in Contract : ActiveItem(c) \in Item
BY DEF AbsentItem, ActiveItem, Item

\* Every result an edit can have on an item is an item.
LEMMA MutatedType ==
    ASSUME LedgerTypeOK, NEW t \in Task, NEW item \in Mutated(t)
    PROVE  item \in Item
<1>1. plan[t] \in Item
  BY DEF LedgerTypeOK
<1>2. \A i \in Item : Added(i) \subseteq Item /\ Amended(i) \subseteq Item
  BY ItemType DEF Added, Amended
<1>3. \A i \in Item : Removed(i) \subseteq Item
  BY Zenon DEF Removed, Item
<1>4. \A i \in Item : \A r \in BOOLEAN : Reviewed(i, r) \subseteq Item /\ Reordered(i) \subseteq Item
  BY Zenon DEF Reviewed, Reordered, Item
<1>6. Restored(t, plan[t]) \subseteq Item
  BY ItemType DEF Restored
<1>7. Changed(t) \subseteq Item
  BY <1>1, <1>2, <1>3, <1>4, <1>6, Zenon DEF Changed
<1>. QED
  BY <1>4, <1>7, Zenon DEF Mutated, Agreed

\* An item in the plan asks for something.
Filled(item) == IsActive(item) => item.contract \in Contract

\* Edits keep it so.
LEMMA MutatedFilled ==
    ASSUME LedgerTypeOK, NEW t \in Task, Filled(plan[t]), NEW item \in Mutated(t)
    PROVE  Filled(item)
<1>. DEFINE Full == {i \in Item : Filled(i)}
<1>1. plan[t] \in Full
  BY DEF LedgerTypeOK
<1>2. \A i \in Full : Added(i) \subseteq Full /\ Amended(i) \subseteq Full
  BY ItemType DEF Added, Amended, ActiveItem, Filled
<1>3. \A i \in Full : Removed(i) \subseteq Full
  BY Zenon DEF Removed, Item, Filled, IsActive
<1>4. ASSUME NEW i \in Full, NEW r \in BOOLEAN
      PROVE  Reviewed(i, r) \subseteq Full /\ Reordered(i) \subseteq Full
  <2>1. \A q \in BOOLEAN : [i EXCEPT !.agreed = q] \in Full
    BY DEF Item, Filled, IsActive
  <2>. QED
    BY <2>1, Zenon DEF Reviewed, Reordered
<1>6. Restored(t, plan[t]) \subseteq Full
  BY ItemType DEF Restored, ActiveItem, Filled
<1>7. Mutated(t) \subseteq Full
  <2>. HIDE DEF Full
  <2>1. Changed(t) \subseteq Full
    BY <1>1, <1>2, <1>3, <1>4, <1>6, Zenon DEF Changed
  <2>. QED
    BY <1>4, <2>1, Zenon DEF Mutated, Agreed
<1>. QED
  BY <1>7

\* Only an agreement makes an item agreed.
LEMMA ChangedAgreement ==
    ASSUME NEW t \in Task, plan[t] \in Item, NEW item \in Changed(t), item.agreed
    PROVE  item = plan[t]
<1>1. \A k \in Contract : ~ActiveItem(k).agreed
  BY DEF ActiveItem
<1>2. \A i \in Added(plan[t]) \cup Amended(plan[t]) \cup Restored(t, plan[t]) : ~i.agreed
  BY <1>1 DEF Added, Amended, Restored
<1>3. \A i \in Removed(plan[t]) \cup Reviewed(plan[t], FALSE) \cup Reordered(plan[t]) : ~i.agreed
  BY Zenon DEF Removed, Reviewed, Reordered, Item
<1>. QED
  BY <1>2, <1>3, Zenon DEF Changed

\* The initial ledger has its type.
LEMMA LedgerInitType == LedgerInit => LedgerTypeOK
BY ItemType DEF LedgerInit, LedgerTypeOK, Ledger, LedgerState, TaskState

LEMMA LedgerStates ==
    {"absent", "proposed", "frozen", "revising", "completed", "cancelled"} = LedgerState
BY DEF LedgerState

\* Writing a revision preserves the type.
LEMMA WriteType ==
    ASSUME LedgerTypeOK, NEW items \in [Task -> Item], NEW base
    PROVE  /\ CreateCodingLedger(items) => LedgerTypeOK'
           /\ ApplyCodingLedgerMutation(base, items) => LedgerTypeOK'
           /\ ProposeUnchanged(base) => LedgerTypeOK'
<1>0. "proposed" \in LedgerState /\ ledger \in Ledger
  BY LedgerStates DEF LedgerTypeOK
<1>1. ASSUME CreateCodingLedger(items) PROVE LedgerTypeOK'
  <2>1. ledger' \in Ledger
    BY <1>0, <1>1, Zenon DEF CreateCodingLedger, Ledger
  <2>. QED
    BY <1>1, <2>1 DEF CreateCodingLedger, LedgerTypeOK
<1>2. ASSUME NextRevision(base, "proposed") PROVE ledger' \in Ledger
  <2>1. ASSUME NEW n \in Nat PROVE [ledger EXCEPT !.state = "proposed", !.revision = n] \in Ledger
    BY <1>0, Zenon DEF Ledger
  <2>2. ledger.revision + 1 \in Nat
    BY <1>0 DEF Ledger
  <2>. QED
    BY <1>2, <2>1, <2>2, Zenon DEF NextRevision
<1>3. ApplyCodingLedgerMutation(base, items) => LedgerTypeOK'
  BY <1>2 DEF ApplyCodingLedgerMutation, LedgerTypeOK
<1>4. ProposeUnchanged(base) => LedgerTypeOK'
  BY <1>2 DEF ProposeUnchanged, LedgerTypeOK
<1>. QED
  BY <1>1, <1>3, <1>4

\* The transitions of the ledger's state preserve the type.
LEMMA TransitionType ==
    ASSUME LedgerTypeOK, NEW base
    PROVE  /\ FreezeCodingLedger(base) => LedgerTypeOK'
           /\ SupersedeCodingAuthority => LedgerTypeOK'
           /\ CancelCodingAuthority => LedgerTypeOK'
           /\ \A t \in Task : AcceptTask(t) => LedgerTypeOK'
           /\ CompleteCodingLedger => LedgerTypeOK'
<1>0. /\ {"frozen", "revising", "cancelled", "completed"} \subseteq LedgerState
      /\ ledger \in Ledger
  BY LedgerStates DEF LedgerTypeOK
<1>1. ASSUME FreezeCodingLedger(base) PROVE LedgerTypeOK'
  <2>1. \A u \in Task : FrozenRow(u) \in TaskState /\ FrozenContract(u) \in Contract \cup {NoContract}
    BY DEF FrozenRow, FrozenContract, Item, TaskState, LedgerTypeOK
  <2>2. ledger' \in Ledger
    BY <1>0, <1>1 DEF FreezeCodingLedger, Ledger
  <2>. QED
    BY <1>1, <2>1, <2>2 DEF FreezeCodingLedger, LedgerTypeOK
<1>2. ASSUME SupersedeCodingAuthority PROVE LedgerTypeOK'
  <2>1. [ledger EXCEPT !.state = "revising", !.frozen = 0] \in Ledger
    BY <1>0, Zenon DEF Ledger
  <2>. QED
    BY <1>2, <2>1 DEF SupersedeCodingAuthority, LedgerTypeOK
<1>3. ASSUME CancelCodingAuthority PROVE LedgerTypeOK'
  <2>1. \A u \in Task : CancelledRow(u) \in TaskState
    BY DEF CancelledRow, TaskState, LedgerTypeOK
  <2>2. [ledger EXCEPT !.state = "cancelled", !.frozen = ledger.lastFrozen] \in Ledger
    BY <1>0, Zenon DEF Ledger
  <2>. QED
    BY <1>3, <2>1, <2>2 DEF CancelCodingAuthority, LedgerTypeOK
<1>4. \A t \in Task : AcceptTask(t) => LedgerTypeOK'
  BY DEF AcceptTask, TaskState, LedgerTypeOK
<1>5. ASSUME CompleteCodingLedger PROVE LedgerTypeOK'
  <2>1. ledger' \in Ledger
    BY <1>0, <1>5 DEF CompleteCodingLedger, Ledger
  <2>. QED
    BY <1>5, <2>1 DEF CompleteCodingLedger, LedgerTypeOK
<1>. QED
  BY <1>1, <1>2, <1>3, <1>4, <1>5
\* What the ledger is like by itself.
LedgerShape ==
    /\ ledger.state = "absent" <=> ledger.revision = 0
    /\ \A t \in Task : Filled(plan[t])
    /\ \A t \in Task : tasks[t] = "none" <=> approved[t] = NoContract
    /\ ledger.state \in {"frozen", "completed"} =>
          /\ ledger.frozen = ledger.revision
          /\ \E t \in Task : IsActive(plan[t])
          /\ \A t \in Task : approved[t] = FrozenContract(t)


\* It has that shape at first.
LEMMA LedgerInitShape == LedgerInit => LedgerShape
BY DEF LedgerInit, LedgerShape, Filled, IsActive, AbsentItem

\* Writing a revision keeps the shape, given filled items.
LEMMA WriteShape ==
    ASSUME LedgerTypeOK, LedgerShape, NEW items \in [Task -> Item], NEW base
    PROVE  /\ CreateCodingLedger(items) /\ (\A t \in Task : Filled(items[t])) => LedgerShape'
           /\ ApplyCodingLedgerMutation(base, items) /\ (\A t \in Task : Filled(items[t]))
                => LedgerShape'
           /\ ProposeUnchanged(base) => LedgerShape'
<1>0. ledger.revision \in Nat
  BY DEF LedgerTypeOK, Ledger
<1>1. ASSUME CreateCodingLedger(items)
      PROVE  ledger'.state = "proposed" /\ ledger'.revision = 1
  BY <1>1 DEF CreateCodingLedger, LedgerTypeOK, Ledger
<1>2. ASSUME NextRevision(base, "proposed")
      PROVE  ledger'.state = "proposed" /\ ledger'.revision = ledger.revision + 1
  BY <1>2 DEF NextRevision, LedgerTypeOK, Ledger
<1>3. ASSUME CreateCodingLedger(items), \A t \in Task : Filled(items[t]) PROVE LedgerShape'
  BY <1>1, <1>3 DEF CreateCodingLedger, LedgerShape, Filled, IsActive
<1>4. ASSUME ApplyCodingLedgerMutation(base, items), \A t \in Task : Filled(items[t])
      PROVE  LedgerShape'
  BY <1>0, <1>2, <1>4 DEF ApplyCodingLedgerMutation, LedgerShape, Filled, IsActive
<1>5. ASSUME ProposeUnchanged(base) PROVE LedgerShape'
  BY <1>0, <1>2, <1>5 DEF ProposeUnchanged, LedgerShape, Filled, IsActive
<1>. QED
  BY <1>3, <1>4, <1>5

\* So do the transitions of its state.
LEMMA TransitionShape ==
    ASSUME LedgerTypeOK, LedgerShape, NEW base
    PROVE  /\ FreezeCodingLedger(base) => LedgerShape'
           /\ SupersedeCodingAuthority => LedgerShape'
           /\ CancelCodingAuthority => LedgerShape'
           /\ \A t \in Task : AcceptTask(t) => LedgerShape'
           /\ CompleteCodingLedger => LedgerShape'
<1>0. ledger.revision \in Nat
  BY DEF LedgerTypeOK, Ledger
<1>. USE DEF Filled, IsActive
<1>1. ASSUME FreezeCodingLedger(base) PROVE LedgerShape'
  <2>1. \A t \in Task : FrozenRow(t) = "none" <=> FrozenContract(t) = NoContract
    BY ContractAssumption DEF FrozenRow, FrozenContract, LedgerShape
  <2>2. \A t \in Task : FrozenContract(t)' = FrozenContract(t)
    BY <1>1 DEF FreezeCodingLedger, FrozenContract
  <2>. QED
    BY <1>0, <1>1, <2>1, <2>2 DEF FreezeCodingLedger, LedgerShape
<1>2. ASSUME SupersedeCodingAuthority PROVE LedgerShape'
  <2>1. /\ ledger'.revision = ledger.revision
        /\ ledger.state = "frozen" => ledger'.state = "revising"
        /\ ledger.state # "frozen" => ledger' = ledger
    BY <1>2 DEF SupersedeCodingAuthority, LedgerTypeOK, Ledger
  <2>. QED
    BY <1>2, <2>1 DEF SupersedeCodingAuthority, LedgerShape, FrozenContract
<1>3. ASSUME CancelCodingAuthority PROVE LedgerShape'
  <2>1. /\ ledger'.revision = ledger.revision
        /\ ledger.state = "absent" => ledger'.state = "absent"
        /\ ledger.state # "absent" => ledger'.state = "cancelled"
    BY <1>3, Zenon DEF CancelCodingAuthority, LedgerTypeOK, Ledger
  <2>2. \A t \in Task : tasks'[t] = "none" <=> tasks[t] = "none"
    BY <1>3 DEF CancelCodingAuthority, CancelledRow
  <2>. QED
    BY <1>3, <2>1, <2>2 DEF CancelCodingAuthority, LedgerShape
<1>4. ASSUME NEW t \in Task, AcceptTask(t) PROVE LedgerShape'
  <2>1. \A u \in Task : tasks'[u] = "none" <=> tasks[u] = "none"
    BY <1>4 DEF AcceptTask, LedgerTypeOK
  <2>. QED
    BY <1>4, <2>1 DEF AcceptTask, LedgerShape, FrozenContract
<1>5. ASSUME CompleteCodingLedger PROVE LedgerShape'
  <2>1. /\ ledger'.revision = ledger.revision /\ ledger'.frozen = ledger.frozen
        /\ ledger'.state = "completed"
    BY <1>5 DEF CompleteCodingLedger, LedgerTypeOK, Ledger
  <2>. QED
    BY <1>5, <2>1 DEF CompleteCodingLedger, LedgerShape, FrozenContract
<1>. QED
  BY <1>1, <1>2, <1>3, <1>4, <1>5
=============================================================================
