-------------------------- MODULE ReplicationProofs --------------------------
(***************************************************************************)
(* For every number of nodes, tuples and operations, every horizon and     *)
(* every reading of the wall clocks: a node allows what the last decision  *)
(* it was told of says.                                                    *)
(***************************************************************************)
EXTENDS Replication, StateVectorProofs

LEMMA TimeIsInt == \A x \in Time : x \in Int
BY ReplicationAssumption

LEMMA InitIInv == Init => IInv
<1>1. SUFFICES ASSUME Init PROVE IInv
  OBVIOUS
<1>2. TypeOK
  BY <1>1, ReplicationAssumption
     DEF Init, TypeOK, NewClock, Clock, NoEntry, Entry, Timestamp, Null
<1>3. ClockAhead
  BY <1>1, LogicalSizeAssumption DEF Init, ClockAhead, NewClock
<1>4. NotBeforePruning
  BY <1>1 DEF Init, NotBeforePruning
<1>5. IssueOrder /\ TimestampsTold /\ GrantsCovered /\ RevokesCovered
  BY <1>1 DEF Init, IssueOrder, TimestampsTold, GrantsCovered, RevokesCovered,
              Told, NoEntry, Null
<1>6. PruningBoundsPairs
  BY <1>1 DEF Init, PruningBoundsPairs, NoEntry, Null
<1>7. QED
  BY <1>2, <1>3, <1>4, <1>5, <1>6 DEF IInv

(* The log after a step that may have appended to it. *)
Extends(newLog) ==
    /\ newLog \in Seq(Operation)
    /\ Len(newLog) >= Len(log)
    /\ \A j \in 1 .. Len(log) : newLog[j] = log[j]

(* What a node was told before stays what it was told. *)
LEMMA ToldStays ==
    ASSUME TypeOK, Extends(log'), NEW n \in Node, NEW t \in Tuple,
           seen'[n] = seen[n]
    PROVE  /\ Told(n, t)' = Told(n, t)
           /\ \A j \in Told(n, t) : log'[j] = log[j]
BY DEF TypeOK, Extends, Told

(* The entry a node has applied an operation to, field by field. *)
LEMMA ApplyFields ==
    ASSUME NEW e \in Entry, NEW op \in Operation
    PROVE  LET f == Apply(e, op.action, op.hlc) IN
           /\ f \in Entry
           /\ op.action = Grant =>
                 /\ f.removeTs = e.removeTs
                 /\ f.addTs \in {e.addTs, op.hlc}
                 /\ f.addTs >= e.addTs /\ f.addTs >= op.hlc
           /\ op.action # Grant =>
                 /\ f.addTs = e.addTs
                 /\ f.removeTs \in {e.removeTs, op.hlc}
                 /\ f.removeTs >= e.removeTs /\ f.removeTs >= op.hlc
BY DEF Entry, Operation, Timestamp, Null, Apply, maxTs

(* What ApplyAt does to the entries and to what nodes were told. *)
LEMMA ApplyAtEffect ==
    ASSUME TypeOK, Extends(log'),
           NEW n \in Node, NEW i \in 1 .. Len(log'),
           NEW op \in Operation, log'[i] = op, ApplyAt(n, op, i)
    PROVE  /\ \A m \in Node, t \in Tuple :
                (m # n \/ t # op.tuple) =>
                   /\ sv'[m][t] = sv[m][t]
                   /\ Told(m, t)' = Told(m, t)
           /\ sv'[n][op.tuple] = Apply(sv[n][op.tuple], op.action, op.hlc)
           /\ Told(n, op.tuple)' = Told(n, op.tuple) \cup {i}
           /\ \A m \in Node, t \in Tuple : \A j \in Told(m, t) :
                log'[j] = log[j]
<1>1. op.tuple \in Tuple
  BY DEF Operation
<1>2. \A m \in Node :
         sv'[m] = IF m = n
                  THEN [sv[n] EXCEPT ![op.tuple] =
                          Apply(sv[n][op.tuple], op.action, op.hlc)]
                  ELSE sv[m]
  BY DEF ApplyAt, TypeOK
<1>3. \A m \in Node : sv[m] \in [Tuple -> Entry]
  BY DEF TypeOK
<1>4. \A m \in Node, t \in Tuple : (m # n \/ t # op.tuple) =>
         sv'[m][t] = sv[m][t]
  BY <1>1, <1>2, <1>3
<1>5. sv'[n][op.tuple] = Apply(sv[n][op.tuple], op.action, op.hlc)
  BY <1>1, <1>2, <1>3
<1>6. \A m \in Node : seen'[m] = IF m = n THEN seen[m] \cup {i} ELSE seen[m]
  BY DEF ApplyAt, TypeOK
<1>7. \A m \in Node : \A j \in seen[m] : log'[j] = log[j]
  BY DEF TypeOK, Extends
<1>8. \A m \in Node, t \in Tuple : (m # n \/ t # op.tuple) =>
         Told(m, t)' = Told(m, t)
  BY <1>6, <1>7 DEF Told
<1>9. Told(n, op.tuple)' = Told(n, op.tuple) \cup {i}
  BY <1>6, <1>7 DEF Told
<1>10. \A m \in Node, t \in Tuple : \A j \in Told(m, t) : log'[j] = log[j]
  BY <1>7 DEF Told
<1>11. QED
  BY <1>4, <1>5, <1>8, <1>9, <1>10

(* The part of the invariant that concerns entries. *)
EntryInv ==
    TimestampsTold /\ GrantsCovered /\ RevokesCovered /\ PruningBoundsPairs

(* Applying an operation that passed intake keeps the entries right: its    *)
(* timestamp is at least as recent as any that pruning has removed.         *)
LEMMA ApplyPreserves ==
    ASSUME IInv, Extends(log'),
           NEW n \in Node, NEW i \in 1 .. Len(log'),
           NEW op \in Operation, log'[i] = op,
           Intake(op.hlc, wall[n]), ApplyAt(n, op, i),
           UNCHANGED prunedAt
    PROVE  EntryInv'
<1> DEFINE t == op.tuple
           e == sv[n][t]
           f == sv'[n][t]
           cutoff == prunedAt[n] - Horizon
<1>1. TypeOK /\ TimestampsTold /\ GrantsCovered /\ RevokesCovered
        /\ PruningBoundsPairs /\ NotBeforePruning
  BY DEF IInv
<1>2. t \in Tuple /\ op.hlc \in Nat /\ op.action \in Action
  BY DEF Operation
<1>3. /\ \A m \in Node, u \in Tuple : (m # n \/ u # t) =>
            sv'[m][u] = sv[m][u] /\ Told(m, u)' = Told(m, u)
      /\ f = Apply(e, op.action, op.hlc)
      /\ Told(n, t)' = Told(n, t) \cup {i}
      /\ \A m \in Node, u \in Tuple : \A j \in Told(m, u) : log'[j] = log[j]
  BY <1>1, ApplyAtEffect
<1>4. e \in Entry
  BY <1>1, <1>2 DEF TypeOK
<1>5. /\ f \in Entry
      /\ op.action = Grant =>
            /\ f.removeTs = e.removeTs
            /\ f.addTs \in {e.addTs, op.hlc}
            /\ f.addTs >= e.addTs /\ f.addTs >= op.hlc
      /\ op.action # Grant =>
            /\ f.addTs = e.addTs
            /\ f.removeTs \in {e.removeTs, op.hlc}
            /\ f.removeTs >= e.removeTs /\ f.removeTs >= op.hlc
  BY <1>3, <1>4, ApplyFields
<1>6. /\ e.addTs \in Int /\ e.removeTs \in Int
      /\ f.addTs \in Int /\ f.removeTs \in Int
  BY <1>4, <1>5 DEF Entry, Timestamp, Null
<1>7. \A m \in Node, u \in Tuple : \A j \in Told(m, u) : log[j].hlc \in Nat
  <2>1. \A j \in 1 .. Len(log) : log[j] \in Operation
    BY <1>1 DEF TypeOK
  <2>2. \A m \in Node, u \in Tuple : Told(m, u) \subseteq 1 .. Len(log)
    BY <1>1 DEF TypeOK, Told
  <2>3. QED
    BY <2>1, <2>2 DEF Operation
<1>8. cutoff \in Int /\ cutoff <= physicalMs(op.hlc)
  <2>1. wall[n] \in Int /\ prunedAt[n] \in Int /\ prunedAt[n] <= wall[n]
    <3>1. wall[n] \in Time /\ prunedAt[n] \in Time
      BY <1>1 DEF TypeOK
    <3>2. wall[n] \in Int /\ prunedAt[n] \in Int
      BY <3>1, TimeIsInt
    <3>3. QED
      BY <1>1, <3>2 DEF NotBeforePruning
  <2>2. physicalMs(op.hlc) \in Int
    BY <1>2, PhysicalType
  <2>3. QED
    BY <2>1, <2>2, HorizonAssumption DEF Intake
<1>9. TimestampsTold'
  <2>1. SUFFICES ASSUME NEW m \in Node, NEW u \in Tuple
                 PROVE  /\ sv'[m][u].addTs # Null =>
                             \E j \in Told(m, u)' :
                                /\ log'[j].action = Grant
                                /\ log'[j].hlc = sv'[m][u].addTs
                        /\ sv'[m][u].removeTs # Null =>
                             \E j \in Told(m, u)' :
                                /\ log'[j].action = Revoke
                                /\ log'[j].hlc = sv'[m][u].removeTs
    BY DEF TimestampsTold
  <2>2. CASE m # n \/ u # t
    BY <1>1, <1>3, <2>2 DEF TimestampsTold
  <2>3. CASE m = n /\ u = t
    <3>1. /\ e.addTs # Null => \E j \in Told(n, t) :
                log'[j].action = Grant /\ log'[j].hlc = e.addTs
          /\ e.removeTs # Null => \E j \in Told(n, t) :
                log'[j].action = Revoke /\ log'[j].hlc = e.removeTs
      BY <1>1, <1>2, <1>3 DEF TimestampsTold
    <3>2. i \in Told(n, t)'
      BY <1>3
    <3>3. CASE op.action = Grant
      BY <1>3, <1>5, <2>3, <3>1, <3>2, <3>3
    <3>4. CASE op.action # Grant
      <4>1. log'[i].action = Revoke
        BY <1>2, <3>4 DEF Action
      <4>2. QED
        BY <1>3, <1>5, <2>3, <3>1, <3>2, <3>4, <4>1
    <3>5. QED
      BY <3>3, <3>4
  <2>4. QED
    BY <2>2, <2>3
<1>10. GrantsCovered'
  <2>1. SUFFICES ASSUME NEW m \in Node, NEW u \in Tuple,
                        NEW k \in Told(m, u)', log'[k].action = Grant
                 PROVE  \/ log'[k].hlc <= sv'[m][u].addTs
                        \/ /\ physicalMs(log'[k].hlc) < prunedAt[m] - Horizon
                           /\ \E j \in Told(m, u)' :
                                 /\ log'[j].action = Revoke
                                 /\ log'[j].hlc >= log'[k].hlc
    BY DEF GrantsCovered
  <2>2. CASE m # n \/ u # t
    <3>1. sv'[m][u] = sv[m][u] /\ Told(m, u)' = Told(m, u)
      BY <1>3, <2>2
    <3>2. QED
      BY <1>1, <1>3, <2>1, <3>1 DEF GrantsCovered
  <2>3. CASE m = n /\ u = t /\ k = i
    BY <1>5, <2>1, <2>3
  <2>4. CASE m = n /\ u = t /\ k \in Told(n, t)
    <3>1. log'[k] = log[k]
      BY <1>2, <1>3, <2>4
    <3>2. CASE log[k].hlc <= e.addTs
      BY <1>2, <1>5, <1>6, <1>7, <2>4, <3>1, <3>2
    <3>3. CASE /\ physicalMs(log[k].hlc) < cutoff
               /\ \E j \in Told(n, t) :
                     log[j].action = Revoke /\ log[j].hlc >= log[k].hlc
      BY <1>2, <1>3, <2>4, <3>1, <3>3
    <3>4. QED
      BY <1>1, <1>2, <2>1, <2>4, <3>1, <3>2, <3>3 DEF GrantsCovered
  <2>5. QED
    BY <1>3, <2>2, <2>3, <2>4
<1>11. RevokesCovered'
  <2>1. SUFFICES ASSUME NEW m \in Node, NEW u \in Tuple,
                        NEW k \in Told(m, u)', log'[k].action = Revoke
                 PROVE  \/ log'[k].hlc <= sv'[m][u].removeTs
                        \/ /\ physicalMs(log'[k].hlc) < prunedAt[m] - Horizon
                           /\ \/ sv'[m][u].addTs = Null
                              \/ sv'[m][u].addTs > log'[k].hlc
    BY DEF RevokesCovered
  <2>2. CASE m # n \/ u # t
    <3>1. sv'[m][u] = sv[m][u] /\ Told(m, u)' = Told(m, u)
      BY <1>3, <2>2
    <3>2. QED
      BY <1>1, <1>3, <2>1, <3>1 DEF RevokesCovered
  <2>3. CASE m = n /\ u = t /\ k = i
    BY <1>5, <2>1, <2>3 DEF Grant, Revoke
  <2>4. CASE m = n /\ u = t /\ k \in Told(n, t)
    <3>1. log'[k] = log[k] /\ log[k].hlc \in Nat
      BY <1>2, <1>3, <1>7, <2>4
    <3>2. CASE log[k].hlc <= e.removeTs
      BY <1>2, <1>5, <1>6, <2>4, <3>1, <3>2
    <3>3. CASE /\ physicalMs(log[k].hlc) < cutoff
               /\ e.addTs = Null \/ e.addTs > log[k].hlc
      <4>1. physicalMs(log[k].hlc) < physicalMs(op.hlc)
        <5>1. physicalMs(log[k].hlc) \in Int /\ physicalMs(op.hlc) \in Int
          <6>1. log[k].hlc \in Int /\ op.hlc \in Int
            BY <1>2, <3>1
          <6>2. QED
            BY <6>1, PhysicalType
        <5>2. QED
          BY <1>8, <3>3, <5>1
      <4>2. log[k].hlc < op.hlc
        BY <1>2, <3>1, <4>1, PhysicalOrders
      <4>3. f.addTs = Null \/ f.addTs > log[k].hlc
        BY <1>2, <1>5, <1>6, <3>1, <3>3, <4>2
      <4>4. QED
        BY <2>4, <3>1, <3>3, <4>3
    <3>4. QED
      BY <1>1, <1>2, <2>1, <2>4, <3>1, <3>2, <3>3 DEF RevokesCovered
  <2>5. QED
    BY <1>3, <2>2, <2>3, <2>4
<1>12. PruningBoundsPairs'
  <2>1. SUFFICES ASSUME NEW m \in Node, NEW u \in Tuple,
                        ~ isActive(sv'[m][u]), sv'[m][u].addTs # Null,
                        sv'[m][u].removeTs # Null,
                        OutlivedAt(m, sv'[m][u])
                 PROVE  FALSE
    BY DEF PruningBoundsPairs, OutlivedAt
  <2>2. CASE m # n \/ u # t
    BY <1>1, <1>3, <2>1, <2>2 DEF PruningBoundsPairs
  <2>3. CASE m = n /\ u = t
    <3>1. f.addTs >= op.hlc \/ f.removeTs >= op.hlc
      BY <1>5
    <3>2. \/ physicalMs(f.addTs) >= physicalMs(op.hlc)
          \/ physicalMs(f.removeTs) >= physicalMs(op.hlc)
      BY <1>2, <1>6, <3>1, PhysicalMonotone
    <3>3. /\ physicalMs(f.addTs) \in Int /\ physicalMs(f.removeTs) \in Int
          /\ physicalMs(op.hlc) \in Int
      <4>1. physicalMs(f.addTs) \in Int
        BY <1>6, PhysicalType
      <4>2. physicalMs(f.removeTs) \in Int
        BY <1>6, PhysicalType
      <4>3. physicalMs(op.hlc) \in Int
        BY <1>2, PhysicalType
      <4>4. QED
        BY <4>1, <4>2, <4>3
    <3>4. /\ physicalMs(f.addTs) < cutoff
          /\ physicalMs(f.removeTs) < cutoff
      BY <2>1, <2>3 DEF OutlivedAt
    <3>5. QED
      BY <1>8, <3>2, <3>3, <3>4
  <2>4. QED
    BY <2>2, <2>3
<1>13. QED
  BY <1>9, <1>10, <1>11, <1>12 DEF EntryInv

(* A step that changes no entry keeps them right, even if an operation was  *)
(* issued meanwhile.                                                        *)
LEMMA IdleKeepsEntries ==
    ASSUME IInv, Extends(log'), UNCHANGED <<sv, seen, prunedAt>>
    PROVE  EntryInv'
<1>1. TypeOK /\ TimestampsTold /\ GrantsCovered /\ RevokesCovered
        /\ PruningBoundsPairs
  BY DEF IInv
<1>2. \A n \in Node, t \in Tuple :
         /\ sv'[n][t] = sv[n][t]
         /\ Told(n, t)' = Told(n, t)
         /\ \A j \in Told(n, t) : log'[j] = log[j]
  BY <1>1, ToldStays
<1>3. TimestampsTold'
  BY <1>1, <1>2 DEF TimestampsTold
<1>4. GrantsCovered'
  BY <1>1, <1>2 DEF GrantsCovered
<1>5. RevokesCovered'
  BY <1>1, <1>2 DEF RevokesCovered
<1>6. PruningBoundsPairs'
  BY <1>1, <1>2 DEF PruningBoundsPairs, OutlivedAt
<1>7. QED
  BY <1>3, <1>4, <1>5, <1>6 DEF EntryInv

(* Pruning at n rewrites n's entries and nothing else. *)
LEMMA PruneEffect ==
    ASSUME TypeOK, NEW n \in Node, PruneAll(n)
    PROVE  /\ \A m \in Node, t \in Tuple :
                /\ sv'[m][t] = IF m = n THEN Prune(sv[n][t], wall[n])
                               ELSE sv[m][t]
                /\ Told(m, t)' = Told(m, t)
           /\ \A m \in Node :
                prunedAt'[m] = IF m = n THEN wall[n] ELSE prunedAt[m]
BY DEF PruneAll, TypeOK, Told

(* Pruning empties only entries whose timestamps are all old and whose      *)
(* grants are all revoked.                                                  *)
LEMMA PrunePreserves ==
    ASSUME IInv, NEW n \in Node, PruneAll(n)
    PROVE  EntryInv'
<1>1. TypeOK /\ TimestampsTold /\ GrantsCovered /\ RevokesCovered
        /\ PruningBoundsPairs /\ NotBeforePruning
  BY DEF IInv
<1>2. /\ \A m \in Node, t \in Tuple :
            /\ sv'[m][t] = IF m = n THEN Prune(sv[n][t], wall[n])
                           ELSE sv[m][t]
            /\ Told(m, t)' = Told(m, t)
      /\ \A m \in Node :
            prunedAt'[m] = IF m = n THEN wall[n] ELSE prunedAt[m]
      /\ log' = log
  BY <1>1, PruneEffect DEF PruneAll
<1>3. \A m \in Node :
         /\ wall[m] \in Int /\ prunedAt[m] \in Int
         /\ prunedAt[m] <= wall[m]
  <2>1. \A m \in Node : wall[m] \in Time /\ prunedAt[m] \in Time
    BY <1>1 DEF TypeOK
  <2>2. QED
    BY <1>1, <2>1, TimeIsInt DEF NotBeforePruning
<1>4. \A m \in Node, t \in Tuple :
         /\ sv[m][t].addTs \in Int /\ sv[m][t].addTs >= Null
         /\ sv[m][t].removeTs \in Int /\ sv[m][t].removeTs >= Null
  BY <1>1 DEF TypeOK, Entry, Timestamp, Null
<1>5. \A m \in Node, t \in Tuple : \A j \in Told(m, t) : log[j].hlc \in Nat
  <2>1. \A j \in 1 .. Len(log) : log[j] \in Operation
    BY <1>1 DEF TypeOK
  <2>2. \A m \in Node, u \in Tuple : Told(m, u) \subseteq 1 .. Len(log)
    BY <1>1 DEF TypeOK, Told
  <2>3. QED
    BY <2>1, <2>2 DEF Operation
<1>6. \A x, y \in Int : x <= y => /\ physicalMs(x) \in Int
                                 /\ physicalMs(y) \in Int
                                 /\ physicalMs(x) <= physicalMs(y)
  BY PhysicalMonotone, PhysicalType
<1>7. Horizon \in Nat
  BY HorizonAssumption
<1>8. TimestampsTold'
  BY <1>1, <1>2 DEF TimestampsTold, Prune, NoEntry
<1>9. GrantsCovered'
  <2>1. SUFFICES ASSUME NEW m \in Node, NEW t \in Tuple,
                        NEW i \in Told(m, t), log[i].action = Grant
                 PROVE  \/ log[i].hlc <= sv'[m][t].addTs
                        \/ /\ physicalMs(log[i].hlc) < prunedAt'[m] - Horizon
                           /\ \E j \in Told(m, t) :
                                 /\ log[j].action = Revoke
                                 /\ log[j].hlc >= log[i].hlc
    BY <1>2 DEF GrantsCovered
  <2>2. physicalMs(log[i].hlc) \in Int
    BY <1>5, PhysicalType
  <2>3. CASE \/ log[i].hlc <= sv[m][t].addTs /\ sv'[m][t] = sv[m][t]
             \/ ~ (log[i].hlc <= sv[m][t].addTs)
    BY <1>1, <1>2, <1>3, <1>7, <2>1, <2>2, <2>3 DEF GrantsCovered
  <2>4. CASE log[i].hlc <= sv[m][t].addTs /\ sv'[m][t] # sv[m][t]
    <3>1. m = n /\ Prunable(sv[n][t], wall[n])
      BY <1>2, <2>4 DEF Prune
    <3>2. physicalMs(log[i].hlc) < prunedAt'[m] - Horizon
      <4>1. /\ physicalMs(log[i].hlc) <= physicalMs(sv[n][t].addTs)
            /\ physicalMs(sv[n][t].addTs) \in Int
        BY <1>4, <1>5, <1>6, <2>4, <3>1
      <4>2. physicalMs(sv[n][t].addTs) < wall[n] - Horizon
        BY <3>1 DEF Prunable
      <4>3. QED
        BY <1>2, <1>3, <1>7, <2>2, <3>1, <4>1, <4>2
    <3>3. /\ sv[n][t].removeTs # Null
          /\ sv[n][t].addTs <= sv[n][t].removeTs
      BY <1>4, <3>1 DEF Prunable, isActive
    <3>4. PICK j \in Told(n, t) :
             log[j].action = Revoke /\ log[j].hlc = sv[n][t].removeTs
      BY <1>1, <3>3 DEF TimestampsTold
    <3>5. log[j].hlc >= log[i].hlc
      BY <1>4, <1>5, <2>4, <3>1, <3>3, <3>4
    <3>6. QED
      BY <3>1, <3>2, <3>4, <3>5
  <2>5. QED
    BY <2>3, <2>4
<1>10. RevokesCovered'
  <2>1. SUFFICES ASSUME NEW m \in Node, NEW t \in Tuple,
                        NEW i \in Told(m, t), log[i].action = Revoke
                 PROVE  \/ log[i].hlc <= sv'[m][t].removeTs
                        \/ /\ physicalMs(log[i].hlc) < prunedAt'[m] - Horizon
                           /\ \/ sv'[m][t].addTs = Null
                              \/ sv'[m][t].addTs > log[i].hlc
    BY <1>2 DEF RevokesCovered
  <2>2. physicalMs(log[i].hlc) \in Int
    BY <1>5, PhysicalType
  <2>3. CASE sv'[m][t] = sv[m][t]
    BY <1>1, <1>2, <1>3, <1>7, <2>1, <2>2, <2>3 DEF RevokesCovered
  <2>4. CASE sv'[m][t] # sv[m][t]
    <3>1. m = n /\ Prunable(sv[n][t], wall[n]) /\ sv'[m][t] = NoEntry
      BY <1>2, <2>4 DEF Prune
    <3>2. physicalMs(log[i].hlc) < prunedAt'[m] - Horizon
      <4>1. CASE log[i].hlc <= sv[n][t].removeTs
        <5>1. /\ physicalMs(log[i].hlc) <= physicalMs(sv[n][t].removeTs)
              /\ physicalMs(sv[n][t].removeTs) \in Int
          BY <1>4, <1>5, <1>6, <3>1, <4>1
        <5>2. physicalMs(sv[n][t].removeTs) < wall[n] - Horizon
          BY <3>1 DEF Prunable
        <5>3. QED
          BY <1>2, <1>3, <1>7, <2>2, <3>1, <5>1, <5>2
      <4>2. CASE physicalMs(log[i].hlc) < prunedAt[n] - Horizon
        BY <1>2, <1>3, <1>7, <2>2, <3>1, <4>2
      <4>3. QED
        BY <1>1, <2>1, <3>1, <4>1, <4>2 DEF RevokesCovered
    <3>3. QED
      BY <3>1, <3>2 DEF NoEntry
  <2>5. QED
    BY <2>3, <2>4
<1>11. PruningBoundsPairs'
  BY <1>1, <1>2
     DEF PruningBoundsPairs, OutlivedAt, Prune, Prunable, NoEntry
<1>12. QED
  BY <1>8, <1>9, <1>10, <1>11 DEF EntryInv

(* The clock of an issuer moves past everything it has stamped. *)
LEMMA ClockMoves ==
    ASSUME IInv, NEW n \in Node,
           ~ Exhausted(Advance(clock[n], wall[n])),
           clock' = [clock EXCEPT ![n] = Advance(clock[n], wall[n])]
    PROVE  /\ clock' \in [Node -> Clock]
           /\ \A m \in Node : clock'[m].logical < LogicalSize
           /\ \A m \in Node : /\ HlcOf(clock[m]) \in Nat
                              /\ HlcOf(clock'[m]) \in Nat
                              /\ HlcOf(clock[m]) <= HlcOf(clock'[m])
           /\ HlcOf(clock'[n]) > HlcOf(clock[n])
           /\ clock'[n] = Advance(clock[n], wall[n])
<1> DEFINE c == Advance(clock[n], wall[n])
<1>1. /\ clock \in [Node -> Clock] /\ wall[n] \in Time
      /\ \A m \in Node : clock[m].logical < LogicalSize
  BY DEF IInv, TypeOK, ClockAhead
<1>2. wall[n] \in Nat
  BY <1>1, ReplicationAssumption
<1>3. \A m \in Node : clock[m] \in Clock
  BY <1>1
<1>4. /\ c \in Clock /\ HlcOf(c) \in Nat /\ HlcOf(clock[n]) < HlcOf(c)
  BY <1>1, <1>2, <1>3, AdvanceExceeds
<1>5. c.logical < LogicalSize
  BY <1>4, LogicalSizeAssumption DEF Exhausted, Clock
<1>6. \A m \in Node : HlcOf(clock[m]) \in Nat
  BY <1>1, <1>2, <1>3, AdvanceExceeds
<1>7. \A m \in Node : clock'[m] = IF m = n THEN c ELSE clock[m]
  BY <1>1
<1>8. clock' \in [Node -> Clock]
  BY <1>1, <1>4
<1>9. \A m \in Node : /\ clock'[m].logical < LogicalSize
                      /\ HlcOf(clock'[m]) \in Nat
                      /\ HlcOf(clock[m]) <= HlcOf(clock'[m])
  <2>1. SUFFICES ASSUME NEW m \in Node
                 PROVE  /\ clock'[m].logical < LogicalSize
                        /\ HlcOf(clock'[m]) \in Nat
                        /\ HlcOf(clock[m]) <= HlcOf(clock'[m])
    OBVIOUS
  <2>2. CASE m = n
    BY <1>4, <1>5, <1>6, <1>7, <2>2
  <2>3. CASE m # n
    BY <1>1, <1>6, <1>7, <2>3
  <2>4. QED
    BY <2>2, <2>3
<1>10. clock'[n] = c
  BY <1>7
<1>11. HlcOf(clock'[n]) > HlcOf(clock[n])
  BY <1>4, <1>6, <1>10
<1>12. QED
  BY <1>6, <1>8, <1>9, <1>10, <1>11

(* Issuing appends one operation, stamped later than all before it. *)
LEMMA IssueFacts ==
    ASSUME IInv, NEW n \in Node, NEW t \in Tuple, NEW a \in Action,
           NEW noApply \in BOOLEAN, Issue(n, t, a, noApply)
    PROVE  LET op == [tuple |-> t, action |-> a,
                      hlc |-> HlcOf(Advance(clock[n], wall[n]))] IN
           /\ op \in Operation
           /\ Extends(log')
           /\ Len(log') = Len(log) + 1 /\ log'[Len(log) + 1] = op
           /\ clock' \in [Node -> Clock]
           /\ ClockAhead'
           /\ IssueOrder'
<1> DEFINE op == [tuple |-> t, action |-> a,
                  hlc |-> HlcOf(Advance(clock[n], wall[n]))]
           k == Len(log) + 1
<1>1. /\ log \in Seq(Operation) /\ ClockAhead /\ IssueOrder
  BY DEF IInv, TypeOK
<1>2. /\ IssuerOf[t] = n
      /\ ~ Exhausted(Advance(clock[n], wall[n]))
      /\ clock' = [clock EXCEPT ![n] = Advance(clock[n], wall[n])]
      /\ log' = Append(log, op)
  BY DEF Issue
<1>3. /\ clock' \in [Node -> Clock]
      /\ \A m \in Node : clock'[m].logical < LogicalSize
      /\ \A m \in Node : /\ HlcOf(clock[m]) \in Nat
                         /\ HlcOf(clock'[m]) \in Nat
                         /\ HlcOf(clock[m]) <= HlcOf(clock'[m])
      /\ HlcOf(clock'[n]) > HlcOf(clock[n])
      /\ clock'[n] = Advance(clock[n], wall[n])
  BY <1>2, ClockMoves
<1>4. op \in Operation
  BY <1>3 DEF Operation
<1>5. /\ log' \in Seq(Operation) /\ Len(log') = k /\ log'[k] = op
      /\ \A j \in 1 .. Len(log) : log'[j] = log[j]
      /\ Len(log) \in Nat
  BY <1>1, <1>2, <1>4
<1>6. Extends(log')
  BY <1>5 DEF Extends
<1>7. \A j \in 1 .. Len(log) :
         /\ log[j].hlc \in Nat /\ IssuerOf[log[j].tuple] \in Node
         /\ log[j].hlc <= HlcOf(clock[IssuerOf[log[j].tuple]])
  <2>1. \A j \in 1 .. Len(log) : log[j] \in Operation
    BY <1>1
  <2>2. QED
    BY <1>1, <2>1, ReplicationAssumption DEF Operation, ClockAhead
<1>8. ClockAhead'
  <2>1. SUFFICES ASSUME NEW j \in 1 .. Len(log')
                 PROVE  log'[j].hlc <= HlcOf(clock'[IssuerOf[log'[j].tuple]])
    BY <1>3 DEF ClockAhead
  <2>2. CASE j = k
    BY <1>2, <1>3, <1>5, <2>2
  <2>3. CASE j # k
    <3>1. j \in 1 .. Len(log)
      BY <1>5, <2>3
    <3>2. log'[j] = log[j]
      BY <1>5, <3>1
    <3>3. QED
      BY <1>3, <1>7, <3>1, <3>2
  <2>4. QED
    BY <2>2, <2>3
<1>9. IssueOrder'
  <2>1. SUFFICES ASSUME NEW i \in 1 .. Len(log'), NEW j \in 1 .. Len(log'),
                        i < j,
                        IssuerOf[log'[i].tuple] = IssuerOf[log'[j].tuple]
                 PROVE  log'[i].hlc < log'[j].hlc
    BY DEF IssueOrder
  <2>2. i \in 1 .. Len(log) /\ log'[i] = log[i]
    BY <1>5, <2>1
  <2>3. CASE j = k
    <3>1. IssuerOf[log[i].tuple] = n /\ log'[j].hlc = HlcOf(clock'[n])
      BY <1>2, <1>3, <1>5, <2>1, <2>2, <2>3
    <3>2. QED
      BY <1>3, <1>7, <2>2, <3>1
  <2>4. CASE j # k
    <3>1. j \in 1 .. Len(log) /\ log'[j] = log[j]
      BY <1>5, <2>4
    <3>2. QED
      BY <1>1, <2>1, <2>2, <3>1 DEF IssueOrder
  <2>5. QED
    BY <2>3, <2>4
<1>10. QED
  BY <1>3, <1>4, <1>5, <1>6, <1>8, <1>9

(* Applying an operation keeps the types. *)
LEMMA ApplyTypes ==
    ASSUME TypeOK, Extends(log'),
           NEW n \in Node, NEW i \in 1 .. Len(log'),
           NEW op \in Operation, ApplyAt(n, op, i)
    PROVE  /\ sv' \in [Node -> [Tuple -> Entry]]
           /\ seen' \in [Node -> SUBSET (1 .. Len(log'))]
<1>1. op.tuple \in Tuple /\ sv[n] \in [Tuple -> Entry]
  BY DEF Operation, TypeOK
<1>2. Apply(sv[n][op.tuple], op.action, op.hlc) \in Entry
  BY <1>1, ApplyFields
<1>3. [sv[n] EXCEPT ![op.tuple] = Apply(sv[n][op.tuple], op.action, op.hlc)]
        \in [Tuple -> Entry]
  BY <1>1, <1>2
<1>4. sv' = [sv EXCEPT ![n] =
               [sv[n] EXCEPT ![op.tuple] =
                  Apply(sv[n][op.tuple], op.action, op.hlc)]]
  BY DEF ApplyAt, TypeOK
<1>5. sv' \in [Node -> [Tuple -> Entry]]
  BY <1>3, <1>4 DEF TypeOK
<1>6. \A m \in Node : seen[m] \subseteq 1 .. Len(log')
  BY DEF TypeOK, Extends
<1>7. seen' = [seen EXCEPT ![n] = seen[n] \cup {i}]
  BY DEF ApplyAt, TypeOK
<1>8. QED
  BY <1>5, <1>6, <1>7 DEF TypeOK

LEMMA IssueInv ==
    ASSUME IInv, NEW n \in Node, NEW t \in Tuple, NEW a \in Action,
           NEW noApply \in BOOLEAN, Issue(n, t, a, noApply)
    PROVE  IInv'
<1> DEFINE op == [tuple |-> t, action |-> a,
                  hlc |-> HlcOf(Advance(clock[n], wall[n]))]
           k == Len(log) + 1
<1>1. /\ op \in Operation /\ Extends(log') /\ Len(log') = k
      /\ log'[k] = op /\ clock' \in [Node -> Clock]
      /\ ClockAhead' /\ IssueOrder'
  BY IssueFacts
<1>2. TypeOK /\ NotBeforePruning
  BY DEF IInv
<1>3. /\ UNCHANGED <<wall, prunedAt>>
      /\ \/ UNCHANGED <<sv, seen>>
         \/ Intake(op.hlc, wall[n]) /\ ApplyAt(n, op, k)
  BY DEF Issue
<1>4. NotBeforePruning'
  BY <1>2, <1>3 DEF NotBeforePruning
<1>5. k \in 1 .. Len(log')
  BY <1>1, <1>2 DEF TypeOK
<1>6. CASE UNCHANGED <<sv, seen>>
  <2>1. TypeOK'
    BY <1>1, <1>2, <1>3, <1>6 DEF TypeOK, Extends
  <2>2. EntryInv'
    BY <1>1, <1>3, <1>6, IdleKeepsEntries
  <2>3. QED
    BY <1>1, <1>4, <2>1, <2>2 DEF IInv, EntryInv
<1>7. CASE Intake(op.hlc, wall[n]) /\ ApplyAt(n, op, k)
  <2>1. /\ sv' \in [Node -> [Tuple -> Entry]]
        /\ seen' \in [Node -> SUBSET (1 .. Len(log'))]
    BY <1>1, <1>2, <1>5, <1>7, ApplyTypes
  <2>2. TypeOK'
    BY <1>1, <1>2, <1>3, <2>1 DEF TypeOK, Extends
  <2>3. EntryInv'
    BY <1>1, <1>3, <1>5, <1>7, ApplyPreserves
  <2>4. QED
    BY <1>1, <1>4, <2>2, <2>3 DEF IInv, EntryInv
<1>8. QED
  BY <1>3, <1>6, <1>7

LEMMA IssueRejectedInv ==
    ASSUME IInv, NEW n \in Node, NEW t \in Tuple, IssueRejected(n, t)
    PROVE  IInv'
<1>1. /\ ~ Exhausted(Advance(clock[n], wall[n]))
      /\ clock' = [clock EXCEPT ![n] = Advance(clock[n], wall[n])]
      /\ UNCHANGED <<wall, log, sv, seen, prunedAt>>
  BY DEF IssueRejected
<1>2. TypeOK /\ ClockAhead /\ IssueOrder /\ NotBeforePruning
  BY DEF IInv
<1>3. /\ clock' \in [Node -> Clock]
      /\ \A m \in Node : clock'[m].logical < LogicalSize
      /\ \A m \in Node : /\ HlcOf(clock[m]) \in Nat
                         /\ HlcOf(clock'[m]) \in Nat
                         /\ HlcOf(clock[m]) <= HlcOf(clock'[m])
  BY <1>1, ClockMoves
<1>4. \A i \in 1 .. Len(log) :
         IssuerOf[log[i].tuple] \in Node /\ log[i].hlc \in Nat
  <2>1. \A i \in 1 .. Len(log) : log[i] \in Operation
    BY <1>2 DEF TypeOK
  <2>2. QED
    BY <2>1, ReplicationAssumption DEF Operation
<1>5. TypeOK' /\ IssueOrder' /\ NotBeforePruning'
  BY <1>1, <1>2, <1>3 DEF TypeOK, IssueOrder, NotBeforePruning
<1>6. ClockAhead'
  BY <1>1, <1>2, <1>3, <1>4 DEF ClockAhead
<1>7. Extends(log')
  BY <1>1, <1>2 DEF Extends, TypeOK
<1>8. QED
  BY <1>1, <1>5, <1>6, <1>7, IdleKeepsEntries DEF IInv, EntryInv

LEMMA IngestInv ==
    ASSUME IInv, NEW n \in Node, NEW i \in 1 .. Len(log), Ingest(n, i)
    PROVE  IInv'
<1>1. /\ Intake(log[i].hlc, wall[n]) /\ ApplyAt(n, log[i], i)
      /\ UNCHANGED <<wall, clock, log, prunedAt>>
  BY DEF Ingest
<1>2. TypeOK /\ ClockAhead /\ IssueOrder /\ NotBeforePruning
  BY DEF IInv
<1>3. log[i] \in Operation /\ Extends(log') /\ log' = log
  BY <1>1, <1>2 DEF Extends, TypeOK
<1>4. EntryInv'
  BY <1>1, <1>3, ApplyPreserves
<1>5. TypeOK'
  BY <1>1, <1>2, <1>3, ApplyTypes DEF TypeOK
<1>6. ClockAhead' /\ IssueOrder' /\ NotBeforePruning'
  BY <1>1, <1>2 DEF ClockAhead, IssueOrder, NotBeforePruning
<1>7. QED
  BY <1>4, <1>5, <1>6 DEF IInv, EntryInv

LEMMA PruneInv ==
    ASSUME IInv, NEW n \in Node, PruneAll(n)
    PROVE  IInv'
<1>1. TypeOK /\ ClockAhead /\ IssueOrder /\ NotBeforePruning
  BY DEF IInv
<1>2. EntryInv'
  BY PrunePreserves
<1>3. TypeOK'
  <2>1. \A t \in Tuple : Prune(sv[n][t], wall[n]) \in Entry
    BY <1>1 DEF TypeOK, Prune, NoEntry, Entry, Timestamp
  <2>2. QED
    BY <1>1, <2>1 DEF TypeOK, PruneAll
<1>4. ClockAhead' /\ IssueOrder'
  BY <1>1 DEF PruneAll, ClockAhead, IssueOrder
<1>5. NotBeforePruning'
  <2>1. \A m \in Node : wall[m] \in Int /\ wall'[m] = wall[m]
          /\ prunedAt'[m] = IF m = n THEN wall[n] ELSE prunedAt[m]
    BY <1>1, PruneEffect, TimeIsInt DEF TypeOK, PruneAll
  <2>2. QED
    BY <1>1, <2>1 DEF NotBeforePruning
<1>6. QED
  BY <1>2, <1>3, <1>4, <1>5 DEF IInv, EntryInv

LEMMA SetWallInv ==
    ASSUME IInv, NEW n \in Node, NEW now \in Time, SetWall(n, now)
    PROVE  IInv'
<1>1. TypeOK /\ ClockAhead /\ IssueOrder /\ NotBeforePruning
  BY DEF IInv
<1>2. /\ now >= prunedAt[n] /\ wall' = [wall EXCEPT ![n] = now]
      /\ UNCHANGED <<clock, log, sv, seen, prunedAt>>
  BY DEF SetWall
<1>3. Extends(log')
  BY <1>1, <1>2 DEF Extends, TypeOK
<1>4. EntryInv'
  BY <1>2, <1>3, IdleKeepsEntries
<1>5. TypeOK' /\ ClockAhead' /\ IssueOrder'
  BY <1>1, <1>2 DEF TypeOK, ClockAhead, IssueOrder
<1>6. NotBeforePruning'
  BY <1>1, <1>2 DEF NotBeforePruning, TypeOK
<1>7. QED
  BY <1>4, <1>5, <1>6 DEF IInv, EntryInv

LEMMA NextIInv == IInv /\ [Next]_vars => IInv'
<1>1. SUFFICES ASSUME IInv, [Next]_vars PROVE IInv'
  OBVIOUS
<1>2. CASE UNCHANGED vars
  <2>1. TypeOK /\ ClockAhead /\ IssueOrder /\ NotBeforePruning
    BY <1>1 DEF IInv
  <2>2. Extends(log')
    BY <1>2, <2>1 DEF vars, Extends, TypeOK
  <2>3. EntryInv'
    BY <1>1, <1>2, <2>2, IdleKeepsEntries DEF vars
  <2>4. TypeOK' /\ ClockAhead' /\ IssueOrder' /\ NotBeforePruning'
    BY <1>2, <2>1 DEF vars, TypeOK, ClockAhead, IssueOrder, NotBeforePruning
  <2>5. QED
    BY <2>3, <2>4 DEF IInv, EntryInv
<1>3. CASE Next
  <2>1. PICK n \in Node :
           \/ \E t \in Tuple, a \in Action, noApply \in BOOLEAN :
                 Issue(n, t, a, noApply)
           \/ \E t \in Tuple : IssueRejected(n, t)
           \/ \E i \in 1 .. Len(log) : Ingest(n, i)
           \/ PruneAll(n)
           \/ \E now \in Time : SetWall(n, now)
    BY <1>3 DEF Next
  <2>2. CASE \E t \in Tuple, a \in Action, noApply \in BOOLEAN :
                Issue(n, t, a, noApply)
    BY <1>1, <2>2, IssueInv
  <2>3. CASE \E t \in Tuple : IssueRejected(n, t)
    BY <1>1, <2>3, IssueRejectedInv
  <2>4. CASE \E i \in 1 .. Len(log) : Ingest(n, i)
    BY <1>1, <2>4, IngestInv
  <2>5. CASE PruneAll(n)
    BY <1>1, <2>5, PruneInv
  <2>6. CASE \E now \in Time : SetWall(n, now)
    BY <1>1, <2>6, SetWallInv
  <2>7. QED
    BY <2>1, <2>2, <2>3, <2>4, <2>5, <2>6
<1>4. QED
  BY <1>1, <1>2, <1>3

------------------------------------------------------------------------------
(* The inductive invariant holds throughout. *)
THEOREM Inductive == Spec => []IInv
<1>1. Init => IInv
  BY InitIInv
<1>2. IInv /\ [Next]_vars => IInv'
  BY NextIInv
<1>3. QED
  BY <1>1, <1>2, PTL DEF Spec

(* The types of hlc.js clocks and crdt.js entries are kept. *)
THEOREM TypeCorrect == Spec => []TypeOK
<1>1. IInv => TypeOK
  BY DEF IInv
<1>2. QED
  BY <1>1, Inductive, PTL

(* Timestamps of one issuer follow the order of its decisions (hlc.js now,  *)
(* dacar.js _issue), however its wall clock is set.                         *)
THEOREM IssueOrdered == Spec => []IssueOrder
<1>1. IInv => IssueOrder
  BY DEF IInv
<1>2. QED
  BY <1>1, Inductive, PTL

(* No complete, inactive entry outlives the horizon of its node's last      *)
(* pruning (crdt.js prune, apply).                                          *)
THEOREM PairsBounded == Spec => []PruningBoundsPairs
<1>1. IInv => PruningBoundsPairs
  BY DEF IInv
<1>2. QED
  BY <1>1, Inductive, PTL

LEMMA AnswerIsLastDecision == IInv => LastDecisionWins
<1>1. SUFFICES ASSUME IInv, NEW n \in Node, NEW t \in Tuple
               PROVE  isActive(sv[n][t]) <=> LastToldGrants(n, t)
  BY DEF LastDecisionWins
<1> DEFINE e == sv[n][t]
<1>2. TypeOK /\ IssueOrder /\ TimestampsTold /\ GrantsCovered /\ RevokesCovered
  BY <1>1 DEF IInv
<1>3. /\ e.addTs \in Int /\ e.addTs >= Null
      /\ e.removeTs \in Int /\ e.removeTs >= Null
  BY <1>2 DEF TypeOK, Entry, Timestamp, Null
<1>4. \A j \in Told(n, t) :
         /\ j \in 1 .. Len(log) /\ j \in Nat /\ log[j].hlc \in Nat
         /\ log[j].action \in {Grant, Revoke} /\ log[j].tuple = t
  <2>1. \A j \in 1 .. Len(log) : log[j] \in Operation
    BY <1>2 DEF TypeOK
  <2>2. Told(n, t) \subseteq 1 .. Len(log)
    BY <1>2 DEF TypeOK, Told
  <2>3. QED
    BY <2>1, <2>2 DEF Operation, Action, Told
<1>5. \A i, j \in Told(n, t) : i < j => log[i].hlc < log[j].hlc
  BY <1>2, <1>4 DEF IssueOrder
<1>6. ASSUME isActive(e) PROVE LastToldGrants(n, t)
  <2>1. e.addTs # Null /\ (e.removeTs = Null \/ e.addTs > e.removeTs)
    BY <1>6 DEF isActive
  <2>2. PICK i \in Told(n, t) : log[i].action = Grant /\ log[i].hlc = e.addTs
    BY <1>2, <2>1 DEF TimestampsTold
  <2>3. \A j \in Told(n, t) : log[j].action = Revoke => log[j].hlc < e.addTs
    BY <1>2, <1>3, <1>4, <2>1 DEF RevokesCovered, Null
  <2>4. \A j \in Told(n, t) : log[j].action = Grant => log[j].hlc <= e.addTs
    <3>1. SUFFICES ASSUME NEW j \in Told(n, t), log[j].action = Grant
                   PROVE  log[j].hlc <= e.addTs
      OBVIOUS
    <3>2. \/ log[j].hlc <= e.addTs
          \/ \E r \in Told(n, t) :
                log[r].action = Revoke /\ log[r].hlc >= log[j].hlc
      BY <1>2, <3>1 DEF GrantsCovered
    <3>3. QED
      BY <1>3, <1>4, <2>3, <3>2
  <2>5. \A j \in Told(n, t) : log[j].hlc <= log[i].hlc
    BY <1>3, <1>4, <2>2, <2>3, <2>4
  <2>6. \A j \in Told(n, t) : j <= i
    BY <1>4, <1>5, <2>5
  <2>7. QED
    BY <2>2, <2>6 DEF LastToldGrants
<1>7. ASSUME LastToldGrants(n, t) PROVE isActive(e)
  <2>1. PICK i \in Told(n, t) :
           log[i].action = Grant /\ \A j \in Told(n, t) : j <= i
    BY <1>7 DEF LastToldGrants
  <2>2. \A r \in Told(n, t) : log[r].action = Revoke => log[r].hlc < log[i].hlc
    <3>1. SUFFICES ASSUME NEW r \in Told(n, t), log[r].action = Revoke
                   PROVE  log[r].hlc < log[i].hlc
      OBVIOUS
    <3>2. r # i
      BY <2>1, <3>1 DEF Grant, Revoke
    <3>3. r < i
      BY <1>4, <2>1, <3>2
    <3>4. QED
      BY <1>5, <3>3
  <2>3. log[i].hlc <= e.addTs
    <3>1. \/ log[i].hlc <= e.addTs
          \/ \E r \in Told(n, t) :
                log[r].action = Revoke /\ log[r].hlc >= log[i].hlc
      BY <1>2, <2>1 DEF GrantsCovered
    <3>2. QED
      BY <1>4, <2>2, <3>1
  <2>4. e.addTs # Null
    BY <1>3, <1>4, <2>3 DEF Null
  <2>5. ASSUME e.removeTs # Null PROVE e.addTs > e.removeTs
    <3>1. PICK r \in Told(n, t) :
             log[r].action = Revoke /\ log[r].hlc = e.removeTs
      BY <1>2, <2>5 DEF TimestampsTold
    <3>2. e.removeTs < log[i].hlc
      BY <2>2, <3>1
    <3>3. QED
      BY <1>3, <1>4, <2>3, <3>2
  <2>6. QED
    BY <2>4, <2>5 DEF isActive
<1>8. QED
  BY <1>6, <1>7

(* A node allows exactly what the last of its issuer's decisions it applied *)
(* says, whatever it pruned (crdt.js apply, prune, _isActiveEntry; hlc.js   *)
(* now).                                                                    *)
THEOREM Correct == Spec => []LastDecisionWins
BY Inductive, AnswerIsLastDecision, PTL

(* Nodes that were told the same of a tuple agree on it (crdt.js apply and  *)
(* prune).                                                                  *)
THEOREM Convergent == Spec => []Convergence
<1>1. LastDecisionWins => Convergence
  BY DEF LastDecisionWins, Convergence, LastToldGrants
<1>2. QED
  BY <1>1, Correct, PTL

------------------------------------------------------------------------------
(* The replicas implement Decisions.                                        *)

Decided == [i \in 1 .. Len(log) |->
               [tuple |-> log[i].tuple, action |-> log[i].action]]
Allowed == [n \in Node |-> {t \in Tuple : isActive(sv[n][t])}]

(* What a node allows is what the abstract state promises of it. *)
LEMMA AllowedAsPromised ==
    IInv => Allowed = [n \in Node |-> Abstract!LastGrants(Decided, seen[n])]
<1>1. SUFFICES ASSUME IInv, NEW n \in Node, NEW t \in Tuple
               PROVE  isActive(sv[n][t]) <=> t \in Abstract!LastGrants(Decided, seen[n])
  <2>1. \A n \in Node : Abstract!LastGrants(Decided, seen[n]) \subseteq Tuple
    BY DEF Abstract!LastGrants
  <2>2. QED
    BY <2>1 DEF Allowed
<1>2. \A i \in seen[n] : /\ i \in 1 .. Len(log)
                         /\ Decided[i].tuple = log[i].tuple
                         /\ Decided[i].action = log[i].action
  BY <1>1 DEF IInv, TypeOK, Decided
<1>3. LastToldGrants(n, t) <=> t \in Abstract!LastGrants(Decided, seen[n])
  BY <1>2 DEF LastToldGrants, Told, Abstract!LastGrants
<1>4. QED
  BY <1>1, <1>3, AnswerIsLastDecision DEF LastDecisionWins

LEMMA AllowedAsPromisedNext ==
    (IInv => Allowed = [n \in Node |-> Abstract!LastGrants(Decided, seen[n])])'
BY AllowedAsPromised, PTL

(* Applying an operation tells the node of a decision. *)
LEMMA ApplyTells ==
    ASSUME IInv, IInv', NEW n \in Node, NEW op \in Operation, NEW i, ApplyAt(n, op, i)
    PROVE  /\ seen' = [seen EXCEPT ![n] = @ \cup {i}]
           /\ Allowed' = [Allowed EXCEPT
                             ![n] = Abstract!LastGrants(Decided', seen'[n])]
<1>1. /\ seen' = [seen EXCEPT ![n] = @ \cup {i}]
      /\ sv' = [sv EXCEPT ![n][op.tuple] = Apply(@, op.action, op.hlc)]
  BY DEF ApplyAt
<1>2. Allowed' = [m \in Node |-> Abstract!LastGrants(Decided', seen'[m])]
  BY AllowedAsPromisedNext DEF Abstract!LastGrants
<1>3. Allowed'[n] = Abstract!LastGrants(Decided', seen'[n])
  BY <1>2
<1>4. \A m \in Node : m # n => Allowed'[m] = Allowed[m]
  BY <1>1 DEF Allowed, IInv, TypeOK
<1>5. DOMAIN Allowed = Node /\ Allowed' = [m \in Node |-> Allowed'[m]]
  BY DEF Allowed
<1>6. QED
  BY <1>1, <1>3, <1>4, <1>5 DEF Allowed

LEMMA IssueImplements ==
    ASSUME IInv, IInv', NEW n \in Node, NEW t \in Tuple, NEW a \in Action,
           NEW noApply \in BOOLEAN, Issue(n, t, a, noApply)
    PROVE  Abstract!Decide(n, t, a)
<1> DEFINE op == [tuple |-> t, action |-> a,
                  hlc |-> HlcOf(Advance(clock[n], wall[n]))]
<1>1. /\ op \in Operation /\ Extends(log')
      /\ Len(log') = Len(log) + 1 /\ log'[Len(log) + 1] = op
  BY IssueFacts
<1>2. Len(log) \in Nat
  BY DEF IInv, TypeOK
<1>3. Decided' = Append(Decided, [tuple |-> t, action |-> a])
  <2>1. Len(Decided) = Len(log)
    BY <1>2 DEF Decided
  <2>2. \A i \in 1 .. Len(log) : log'[i] = log[i]
    BY <1>1 DEF Extends
  <2>3. QED
    BY <1>1, <1>2, <2>1, <2>2 DEF Decided
<1>4. Len(Decided) = Len(log)
  BY <1>2 DEF Decided
<1>5. CASE UNCHANGED <<sv, seen>>
  <2>1. UNCHANGED Allowed
    BY <1>5 DEF Allowed
  <2>2. QED
    BY <1>3, <1>5, <2>1 DEF Issue, Abstract!Decide, Allowed, Decided
<1>6. CASE ApplyAt(n, op, Len(log) + 1)
  <2>1. /\ seen' = [seen EXCEPT ![n] = @ \cup {Len(log) + 1}]
        /\ Allowed' = [Allowed EXCEPT
                          ![n] = Abstract!LastGrants(Decided', seen'[n])]
    BY <1>1, <1>6, ApplyTells
  <2>2. QED
    BY <1>3, <1>4, <2>1 DEF Issue, Abstract!Decide, Abstract!Tell, Allowed, Decided
<1>7. QED
  BY <1>5, <1>6 DEF Issue

LEMMA IngestImplements ==
    ASSUME IInv, IInv', NEW n \in Node, NEW i \in 1 .. Len(log), Ingest(n, i)
    PROVE  Abstract!Learn(n, i)
<1>1. log[i] \in Operation /\ log' = log
  BY DEF IInv, TypeOK, Ingest
<1>2. Decided' = Decided
  BY <1>1 DEF Decided
<1>3. /\ seen' = [seen EXCEPT ![n] = @ \cup {i}]
      /\ Allowed' = [Allowed EXCEPT
                        ![n] = Abstract!LastGrants(Decided', seen'[n])]
  BY <1>1, ApplyTells DEF Ingest
<1>4. QED
  BY <1>2, <1>3 DEF Abstract!Learn, Abstract!Tell, Allowed, Decided

(* Steps that tell no node anything change nothing a node allows. *)
LEMMA SilentImplements ==
    ASSUME IInv, IInv', UNCHANGED <<log, seen>>
    PROVE  UNCHANGED Abstract!vars
<1>1. Allowed' = [m \in Node |-> Abstract!LastGrants(Decided', seen'[m])]
  BY AllowedAsPromisedNext DEF Abstract!LastGrants
<1>2. Decided' = Decided
  BY DEF Decided
<1>3. Allowed' = Allowed
  BY <1>1, <1>2, AllowedAsPromised DEF Abstract!LastGrants
<1>4. QED
  BY <1>2, <1>3 DEF Abstract!vars, Allowed, Decided

LEMMA InitImplements == Init => Abstract!Init
<1>1. SUFFICES ASSUME Init PROVE Abstract!Init
  OBVIOUS
<1>2. Decided = <<>>
  BY <1>1 DEF Init, Decided
<1>3. Allowed = [n \in Node |-> {}]
  BY <1>1 DEF Init, Allowed, NoEntry, isActive, Null
<1>4. QED
  BY <1>1, <1>2, <1>3 DEF Init, Abstract!Init, Allowed, Decided

LEMMA StepImplements == IInv /\ [Next]_vars => [Abstract!Next]_(Abstract!vars)
<1>1. SUFFICES ASSUME IInv, [Next]_vars
               PROVE  [Abstract!Next]_(Abstract!vars)
  OBVIOUS
<1>2. IInv'
  BY <1>1, NextIInv
<1>3. ASSUME NEW n \in Node, NEW t \in Tuple, NEW a \in Action,
             NEW noApply \in BOOLEAN, Issue(n, t, a, noApply)
      PROVE  Abstract!Next
  BY <1>1, <1>2, <1>3, IssueImplements DEF Abstract!Next
<1>4. ASSUME NEW n \in Node, NEW i \in 1 .. Len(log), Ingest(n, i)
      PROVE  Abstract!Next
  <2>1. Len([k \in 1 .. Len(log) |->
               [tuple |-> log[k].tuple, action |-> log[k].action]]) = Len(log)
    BY <1>1 DEF IInv, TypeOK
  <2>2. QED
    BY <1>1, <1>2, <1>4, <2>1, IngestImplements DEF Abstract!Next
<1>5. ASSUME UNCHANGED <<log, seen>>
      PROVE  UNCHANGED Abstract!vars
  BY <1>1, <1>2, <1>5, SilentImplements
<1>6. QED
  BY <1>1, <1>3, <1>4, <1>5
     DEF Next, vars, IssueRejected, PruneAll, SetWall

(* Every behaviour of the replicas is one of the abstract decisions: pruning, *)
(* clocks and the order of delivery are invisible in what a node allows      *)
(* (crdt.js, hlc.js, dacar.js _issue).                                      *)
THEOREM ReplicationImplements == Spec => ImplementsDecisions
<1>1. Spec => Abstract!Spec
  BY InitImplements, StepImplements, Inductive, PTL DEF Spec, Abstract!Spec
<1>2. QED
  BY <1>1 DEF ImplementsDecisions
==============================================================================
