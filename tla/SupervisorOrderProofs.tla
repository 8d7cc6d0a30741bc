----------------------- MODULE SupervisorOrderProofs -----------------------
(***************************************************************************)
(* The children table, the kernel's view of the child and the retained-    *)
(* terminal order agree, for any number of children, callers, readers and  *)
(* helpers and any bounds, as long as no process id is handed out twice: a *)
(* reused id takes its old place in the order, and is evicted with it.     *)
(*                                                                         *)
(* The properties are not inductive: that record_terminal_order appends a  *)
(* terminal id the order does not hold depends on what the threads and the *)
(* reaper do between the reap and the append.  IInv adds what they hold.   *)
(***************************************************************************)
EXTENDS SupervisorProofs

InOrder(p) == \E i \in 1 .. Len(order) : order[i] = p

OrderLabels == {"observe order", "stop order"}

CallerOrdering(c, p) == pc[c] \in OrderLabels /\ on[c] = p

\* A child about to be inserted is unreaped and not in the table, and no
\* other thread is about to insert the same one.
Inserting ==
  /\ \A c \in Callers : pc[c] = "insert" =>
       children[on[c]] = "absent" /\ os[on[c]] \in {"alive", "zombie"}
  /\ \A c, d \in Callers :
       pc[c] = "insert" /\ pc[d] = "insert" /\ on[c] = on[d] => c = d

\* A reaper between try_reap's checks and its wait holds the mutex, so the
\* entry it looked at is still Running.
Holding ==
  \A p \in Pids : rpc[p] = "wait" => holder = p /\ children[p] = "running"

\* Whoever is about to append an id appends a terminal one that is not in
\* the order, and nobody else is about to append it.
ReaperOrdering ==
  \A p \in Pids : rpc[p] = "order" => children[p] \in Terminal /\ ~InOrder(p)

CallersOrdering ==
  \A c \in Callers, p \in Pids : CallerOrdering(c, p) =>
    /\ children[p] \in Terminal
    /\ ~InOrder(p)
    /\ rpc[p] # "order"
    /\ \A d \in Callers : CallerOrdering(d, p) => d = c

\* Whoever writes a settled state writes about a reaped child.
WritingReaped ==
  /\ \A p \in Pids : rpc[p] \in {"order", "settle", "record"} => os[p] = "gone"
  /\ \A c \in Callers :
       pc[c] \in OrderLabels \cup {"settle", "record"} => os[on[c]] = "gone"

Shown == TableTracksReap /\ OrderIsExact /\ TerminalIsOrdered

Held == Inserting /\ Holding /\ ReaperOrdering /\ CallersOrdering
        /\ WritingReaped

IInv == TypeOK /\ Shown /\ Held

-----------------------------------------------------------------------------
(* record_terminal_order.                                                  *)

\* Appending an id that is terminal and not in the order keeps the order
\* exact; at most the oldest entry, never the new one and never a Running
\* one, is evicted; and the kernel kills nobody.
LEMMA RecordOrder ==
  ASSUME TypeOK, OrderIsExact, NEW p \in Pids, children[p] \in Terminal,
         ~InOrder(p), RecordTerminalOrder(p)
  PROVE  /\ OrderIsExact'
         /\ InOrder(p)'
         /\ UNCHANGED os
         /\ \A q \in Pids : \/ children'[q] = children[q] /\ (InOrder(q) => InOrder(q)')
                            \/ /\ children'[q] = "absent"
                               /\ children[q] \in Terminal
                               /\ InOrder(q)
         /\ \A q \in Pids : InOrder(q)' => InOrder(q) \/ q = p
<1> DEFINE pushed == Append(order, p)
           n == Len(order)
<1>1. order \in Seq(Pids) /\ n \in Nat
  BY DEF TypeOK, TableTypes
<1>2. /\ pushed \in Seq(Pids) /\ pushed # <<>> /\ Len(pushed) = n + 1
      /\ \A i \in 1 .. n : pushed[i] = order[i]
      /\ pushed[n + 1] = p
  BY <1>1, AppendProperties
<1>3. \A i \in 1 .. n : order[i] \in Pids /\ order[i] # p
  BY <1>1 DEF InOrder
<1>4. \A i, j \in 1 .. Len(pushed) : pushed[i] = pushed[j] => i = j
  <2>1. ASSUME NEW i \in 1 .. Len(pushed), NEW j \in 1 .. Len(pushed),
               pushed[i] = pushed[j]
        PROVE  i = j
    <3>1. CASE i \in 1 .. n /\ j \in 1 .. n
      BY <1>2, <2>1, <3>1 DEF OrderIsExact
    <3>2. CASE i = n + 1 \/ j = n + 1
      BY <1>1, <1>2, <1>3, <2>1, <3>2
    <3> QED
      BY <1>1, <1>2, <3>1, <3>2
  <2> QED
    BY <2>1
<1>5. \A i \in 1 .. Len(pushed) : children[pushed[i]] \in Terminal
  BY <1>1, <1>2 DEF OrderIsExact
<1>6. CASE ~(Len(pushed) > MaxRetained)
  <2>1. order' = pushed /\ UNCHANGED <<children, os>>
    BY <1>6 DEF RecordTerminalOrder
  <2>2. OrderIsExact'
    BY <1>4, <1>5, <2>1 DEF OrderIsExact
  <2>3. InOrder(p)'
    BY <1>1, <1>2, <2>1 DEF InOrder
  <2>4. \A q \in Pids : InOrder(q) => InOrder(q)'
    BY <1>1, <1>2, <2>1 DEF InOrder
  <2>5. ASSUME NEW q \in Pids, InOrder(q)'
        PROVE  InOrder(q) \/ q = p
    <3>1. PICK i \in 1 .. n + 1 : pushed[i] = q
      BY <1>2, <2>1, <2>5 DEF InOrder
    <3>2. CASE i \in 1 .. n
      BY <1>2, <3>1, <3>2 DEF InOrder
    <3>3. CASE i = n + 1
      BY <1>2, <3>1, <3>3
    <3> QED
      BY <1>1, <3>1, <3>2, <3>3
  <2> QED
    BY <2>1, <2>2, <2>3, <2>4, <2>5
<1>7. CASE Len(pushed) > MaxRetained
  <2> DEFINE old == Head(pushed)
  <2>1. order' = Tail(pushed) /\ Evict(old)
    BY <1>7 DEF RecordTerminalOrder
  <2>2. n >= 1
    BY <1>1, <1>2, <1>7, NumbersAssumption
  <2>3. old = pushed[1] /\ old = order[1] /\ old \in Pids /\ old # p
    BY <1>1, <1>2, <1>3, <2>2
  <2>4. /\ Len(order') = n
        /\ \A i \in 1 .. n : order'[i] = pushed[i + 1]
    BY <1>1, <1>2, <2>1, HeadTailProperties
  <2>5. children[old] \in Terminal /\ InOrder(old)
    BY <1>1, <2>2, <2>3 DEF OrderIsExact, InOrder
  <2>6. children' = [children EXCEPT ![old] = "absent"] /\ UNCHANGED os
    <3>1. children[old] # "running"
      BY <2>5 DEF Terminal
    <3>2. os' = [os EXCEPT ![old] = os[old]]
      BY <2>1, <3>1 DEF Evict
    <3> QED
      BY <2>1, <3>2 DEF Evict, TypeOK, OsTypes
  <2>7. \A i \in 1 .. n : order'[i] # old
    BY <1>1, <1>2, <1>4, <2>3, <2>4
  <2>8. OrderIsExact'
    <3>1. \A i \in 1 .. Len(order') : children'[order'[i]] \in Terminal
      <4>1. ASSUME NEW i \in 1 .. n
            PROVE  children'[order'[i]] \in Terminal
        <5>1. children[order'[i]] \in Terminal /\ order'[i] \in Pids
          BY <1>1, <1>2, <1>5, <2>4, SMTT(30)
        <5> QED
          BY <2>6, <2>7, <5>1, SMTT(30) DEF TypeOK, TableTypes
      <4> QED
        BY <2>4, <4>1
    <3>2. \A i, j \in 1 .. Len(order') : order'[i] = order'[j] => i = j
      BY <1>1, <1>2, <1>4, <2>4, SMTT(30)
    <3> QED
      BY <3>1, <3>2 DEF OrderIsExact
  <2>9. InOrder(p)'
    BY <1>1, <1>2, <2>2, <2>4 DEF InOrder
  <2>10. ASSUME NEW q \in Pids, InOrder(q)'
         PROVE  InOrder(q) \/ q = p
    <3>1. PICK i \in 1 .. n : order'[i] = q
      BY <2>4, <2>10 DEF InOrder
    <3>2. i + 1 \in 1 .. n + 1 /\ pushed[i + 1] = q
      BY <1>1, <2>4, <3>1
    <3>3. CASE i + 1 \in 1 .. n
      BY <1>2, <3>2, <3>3 DEF InOrder
    <3>4. CASE i = n
      BY <1>2, <3>2, <3>4
    <3> QED
      BY <1>1, <3>1, <3>3, <3>4
  <2>11. ASSUME NEW q \in Pids, q # old, InOrder(q)
         PROVE  InOrder(q)'
    <3>1. PICK i \in 1 .. n : order[i] = q
      BY <2>11 DEF InOrder
    <3>2. i # 1
      BY <2>3, <2>11, <3>1
    <3>3. i - 1 \in 1 .. n /\ order'[i - 1] = q
      BY <1>1, <1>2, <2>4, <3>1, <3>2
    <3> QED
      BY <2>4, <3>3 DEF InOrder
  <2>12. \A q \in Pids : q # old => children'[q] = children[q]
    BY <2>6
  <2>13. children'[old] = "absent"
    BY <2>3, <2>6 DEF TypeOK, TableTypes
  <2> QED
    BY <2>5, <2>6, <2>8, <2>9, <2>10, <2>11, <2>12, <2>13
<1> QED
  BY <1>6, <1>7

-----------------------------------------------------------------------------
(* Steps that take no part in the order.                                   *)

\* A step keeps the invariant if it starts no insertion and no append, ends
\* no append, changes the table only from one terminal state to another and
\* the kernel only by an exit, enters the wait properly, and writes settled
\* states only about reaped children.
LEMMA QuietStep ==
  ASSUME IInv, TypeOK', UNCHANGED order,
         \A p \in Pids :
           \/ os'[p] = os[p]
           \/ os[p] = "alive" /\ os'[p] = "zombie",
         \A p \in Pids :
           \/ children'[p] = children[p]
           \/ children[p] \in Terminal /\ children'[p] \in Terminal,
         \A p \in Pids :
           \/ rpc'[p] = rpc[p]
           \/ /\ rpc[p] # "order" /\ rpc'[p] # "order"
              /\ rpc'[p] \in {"settle", "record"} => os[p] = "gone",
         \A p \in Pids : rpc'[p] = "wait" => holder' = p /\ children'[p] = "running",
         \A c \in Callers :
           \/ pc'[c] = pc[c] /\ on'[c] = on[c]
           \/ /\ pc[c] \notin OrderLabels
              /\ pc'[c] \notin OrderLabels \cup {"insert"}
              /\ pc'[c] \in {"settle", "record"} => os[on'[c]] = "gone" /\ on'[c] \in Pids
  PROVE  (Shown /\ Held)'
<1> USE DEF IInv, Shown, Held
<1>1. TableTracksReap'
  BY DEF TableTracksReap, Terminal, TypeOK, TableTypes
<1>2. OrderIsExact'
  BY SMTT(30) DEF OrderIsExact, TypeOK, TableTypes, Terminal
<1>3. TerminalIsOrdered'
  <2> SUFFICES ASSUME NEW p \in Pids, children'[p] \in Terminal
               PROVE  \/ \E i \in 1 .. Len(order) : order[i] = p
                      \/ rpc'[p] = "order"
                      \/ \E c \in Callers : on'[c] = p
                           /\ pc'[c] \in {"observe order", "stop order"}
    BY ZenonT(60) DEF TerminalIsOrdered
  <2>1. children[p] \in Terminal
    OBVIOUS
  <2>2. CASE \E i \in 1 .. Len(order) : order[i] = p
    BY <2>2
  <2>3. CASE rpc[p] = "order"
    BY <2>3
  <2>4. ASSUME NEW c \in Callers, on[c] = p,
               pc[c] \in {"observe order", "stop order"}
        PROVE  on'[c] = p /\ pc'[c] \in {"observe order", "stop order"}
    BY <2>4 DEF OrderLabels
  <2> QED
    BY <2>1, <2>2, <2>3, <2>4 DEF TerminalIsOrdered
<1>4. Inserting'
  <2>1. \A c \in Callers : pc'[c] = "insert" =>
          pc[c] = "insert" /\ on'[c] = on[c] /\ on[c] \in Pids
    BY DEF TypeOK, CallerTypes
  <2> QED
    BY <2>1 DEF Inserting, Terminal
<1>5. Holding'
  BY DEF Holding
<1>6. ReaperOrdering'
  BY DEF ReaperOrdering, InOrder
<1>7. CallersOrdering'
  <2> SUFFICES ASSUME NEW c \in Callers, NEW p \in Pids, CallerOrdering(c, p)'
               PROVE  /\ children'[p] \in Terminal
                      /\ ~InOrder(p)'
                      /\ rpc'[p] # "order"
                      /\ \A d \in Callers : CallerOrdering(d, p)' => d = c
    BY DEF CallersOrdering
  <2>1. \A d \in Callers : CallerOrdering(d, p)' => CallerOrdering(d, p)
    BY DEF CallerOrdering
  <2> QED
    BY <2>1 DEF CallersOrdering, InOrder
<1>8. WritingReaped'
  <2>1. ASSUME NEW p \in Pids, rpc'[p] \in {"order", "settle", "record"}
        PROVE  os'[p] = "gone"
    BY <2>1 DEF WritingReaped
  <2>2. ASSUME NEW c \in Callers, pc'[c] \in OrderLabels \cup {"settle", "record"}
        PROVE  os'[on'[c]] = "gone"
    <3>1. CASE pc'[c] = pc[c] /\ on'[c] = on[c]
      <4>1. on[c] \in Pids /\ os[on[c]] = "gone"
        BY <2>2, <3>1 DEF WritingReaped, OrderLabels, TypeOK, CallerTypes
      <4> QED
        BY <3>1, <4>1
    <3>2. CASE ~(pc'[c] = pc[c] /\ on'[c] = on[c])
      <4>1. on'[c] \in Pids /\ os[on'[c]] = "gone"
        BY <2>2, <3>2
      <4> QED
        BY <4>1
    <3> QED
      BY <3>1, <3>2
  <2> QED
    BY <2>1, <2>2 DEF WritingReaped
<1> QED
  BY <1>1, <1>2, <1>3, <1>4, <1>5, <1>6, <1>7, <1>8

-----------------------------------------------------------------------------
(* Reaps: the entry turns terminal in the section that reaps the child,    *)
(* and the one who reaped it is the one who will append it.                *)

\* What a reap does to the table and to the kernel's view.
Reap(p, state) ==
  /\ os[p] = "zombie" /\ os' = [os EXCEPT ![p] = "gone"]
  /\ children[p] = "running" /\ children' = [children EXCEPT ![p] = state]
  /\ state \in Terminal
  /\ UNCHANGED order

\* Nobody else was appending the reaped child or holds the mutex.
LEMMA ReapFacts ==
  ASSUME IInv, NEW p \in Pids, NEW state, Reap(p, state),
         \A q \in Pids : rpc[q] = "wait" => q = p
  PROVE  /\ TableTracksReap' /\ OrderIsExact'
         /\ os'[p] = "gone" /\ children'[p] \in Terminal /\ ~InOrder(p)'
         /\ \A q \in Pids \ {p} : os'[q] = os[q] /\ children'[q] = children[q]
         /\ \A q \in Pids : InOrder(q)' <=> InOrder(q)
         /\ rpc[p] \notin {"order", "settle", "record"}
         /\ \A c \in Callers : ~CallerOrdering(c, p)
         /\ \A c \in Callers : pc[c] = "insert" => on[c] # p
<1> USE DEF IInv, Shown, Held, Reap
<1>1. /\ os'[p] = "gone" /\ children'[p] = state
      /\ \A q \in Pids \ {p} : os'[q] = os[q] /\ children'[q] = children[q]
  BY DEF TypeOK, OsTypes, TableTypes
<1>2. state \notin {"absent", "running"} /\ children[p] \notin Terminal
  BY DEF Terminal
<1>3. TableTracksReap'
  BY <1>1, <1>2 DEF TableTracksReap
<1>4. ~InOrder(p)
  BY <1>2 DEF OrderIsExact, InOrder
<1>5. OrderIsExact'
  <2>1. \A i \in 1 .. Len(order) : order[i] \in Pids \ {p}
    BY <1>4 DEF InOrder, TypeOK, TableTypes
  <2> QED
    BY <1>1, <2>1 DEF OrderIsExact
<1>6. \A q \in Pids : InOrder(q)' <=> InOrder(q)
  BY DEF InOrder
<1>7. rpc[p] \notin {"order", "settle", "record"}
  BY DEF WritingReaped
<1>8. \A c \in Callers : ~CallerOrdering(c, p)
  BY <1>2 DEF CallersOrdering
<1>9. \A c \in Callers : pc[c] = "insert" => on[c] # p
  BY DEF Inserting
<1> QED
  BY <1>1, <1>3, <1>4, <1>5, <1>6, <1>7, <1>8, <1>9

\* The reaper reaps.
LEMMA ReaperReapStep ==
  ASSUME IInv, TypeOK', NEW p \in Pids, TryReapReaped(p)
  PROVE  (Shown /\ Held)'
<1> USE DEF IInv, Shown, Held
<1>1. Reap(p, "exited")
  BY DEF TryReapReaped, Reap, Holding, Terminal
<1>2. \A q \in Pids : rpc[q] = "wait" => q = p
  BY DEF TryReapReaped, Holding
<1>3. rpc' = [rpc EXCEPT ![p] = "order"] /\ UNCHANGED <<pc, on>>
  BY DEF TryReapReaped, ReaperGoTo, AfterReap, caller
<1>4. rpc'[p] = "order" /\ \A q \in Pids \ {p} : rpc'[q] = rpc[q]
  BY <1>3 DEF TypeOK, ReaperTypes
<1>5. /\ TableTracksReap' /\ OrderIsExact'
      /\ os'[p] = "gone" /\ children'[p] \in Terminal /\ ~InOrder(p)'
      /\ \A q \in Pids \ {p} : os'[q] = os[q] /\ children'[q] = children[q]
      /\ \A q \in Pids : InOrder(q)' <=> InOrder(q)
      /\ \A c \in Callers : ~CallerOrdering(c, p)
      /\ \A c \in Callers : pc[c] = "insert" => on[c] # p
  BY <1>1, <1>2, ReapFacts
<1>6. TerminalIsOrdered'
  <2>1. ASSUME NEW q \in Pids \ {p}, children'[q] \in Terminal
        PROVE  \/ InOrder(q)' \/ rpc'[q] = "order"
               \/ \E c \in Callers : on'[c] = q
                    /\ pc'[c] \in {"observe order", "stop order"}
    BY <1>3, <1>4, <1>5, <2>1 DEF TerminalIsOrdered, InOrder
  <2> QED
    BY <1>4, <2>1 DEF TerminalIsOrdered, InOrder
<1>7. Inserting'
  BY <1>3, <1>5 DEF Inserting, TypeOK, CallerTypes
<1>8. Holding'
  BY <1>2, <1>4 DEF Holding
<1>9. ReaperOrdering'
  BY <1>4, <1>5 DEF ReaperOrdering
<1>10. CallersOrdering'
  <2>1. \A c \in Callers, q \in Pids : CallerOrdering(c, q)' <=> CallerOrdering(c, q)
    BY <1>3 DEF CallerOrdering
  <2> QED
    BY <1>4, <1>5, <2>1 DEF CallersOrdering
<1>11. WritingReaped'
  BY <1>3, <1>4, <1>5 DEF WritingReaped, OrderLabels, TypeOK, CallerTypes
<1> QED
  BY <1>5, <1>6, <1>7, <1>8, <1>9, <1>10, <1>11

\* A thread in observe or stop reaps.
LEMMA CallerReapStep ==
  ASSUME IInv, TypeOK', NEW c \in Callers, ObserveReaps(c) \/ StopReaps(c)
  PROVE  (Shown /\ Held)'
<1> USE DEF IInv, Shown, Held
<1>1. PICK p \in Pids : p = on[c]
  BY DEF ObserveReaps, StopReaps, TypeOK, CallerTypes
<1>2. PICK state : Reap(p, state)
  <2>1. CASE ObserveReaps(c)
    BY <1>1, <2>1 DEF ObserveReaps, Reap, Terminal
  <2>2. CASE StopReaps(c)
    BY <1>1, <2>2 DEF StopReaps, Reap, Terminal
  <2> QED
    BY <2>1, <2>2
<1>3. \A q \in Pids : rpc[q] # "wait"
  BY NoneAssumption DEF ObserveReaps, StopReaps, Unlocked, Holding
<1>4. PICK label \in OrderLabels :
        pc' = [pc EXCEPT ![c] = label] /\ UNCHANGED <<on, rpc>>
  BY DEF ObserveReaps, StopReaps, GoTo, AfterLook, reaper, OrderLabels
<1>5. pc'[c] \in OrderLabels /\ \A d \in Callers \ {c} : pc'[d] = pc[d]
  BY <1>4 DEF TypeOK, CallerTypes
<1>6. /\ TableTracksReap' /\ OrderIsExact'
      /\ os'[p] = "gone" /\ children'[p] \in Terminal /\ ~InOrder(p)'
      /\ \A q \in Pids \ {p} : os'[q] = os[q] /\ children'[q] = children[q]
      /\ \A q \in Pids : InOrder(q)' <=> InOrder(q)
      /\ rpc[p] \notin {"order", "settle", "record"}
      /\ \A d \in Callers : ~CallerOrdering(d, p)
      /\ \A d \in Callers : pc[d] = "insert" => on[d] # p
  BY <1>1, <1>2, <1>3, ReapFacts
<1>7. TerminalIsOrdered'
  <2>1. ASSUME NEW q \in Pids \ {p}, children'[q] \in Terminal
        PROVE  \/ InOrder(q)' \/ rpc'[q] = "order"
               \/ \E d \in Callers : on'[d] = q
                    /\ pc'[d] \in {"observe order", "stop order"}
    <3>1. \/ InOrder(q) \/ rpc[q] = "order"
          \/ \E d \in Callers : on[d] = q
               /\ pc[d] \in {"observe order", "stop order"}
      BY <1>6, <2>1 DEF TerminalIsOrdered, InOrder
    <3>2. \A d \in Callers : on[d] = q => d # c
      BY <1>1
    <3> QED
      BY <1>4, <1>5, <1>6, <3>1, <3>2
  <2>2. on'[c] = p /\ pc'[c] \in {"observe order", "stop order"}
    BY <1>1, <1>4, <1>5 DEF OrderLabels
  <2> QED
    BY <2>1, <2>2 DEF TerminalIsOrdered, InOrder
<1>8. Inserting'
  <2>1. \A d \in Callers : pc'[d] = "insert" =>
          pc[d] = "insert" /\ on[d] \in Pids \ {p}
    BY <1>5, <1>6 DEF OrderLabels, TypeOK, CallerTypes
  <2> QED
    BY <1>4, <1>6, <2>1 DEF Inserting
<1>9. Holding'
  BY <1>3, <1>4 DEF Holding
<1>10. ReaperOrdering'
  BY <1>1, <1>4, <1>6 DEF ReaperOrdering
<1>11. CallersOrdering'
  <2>1. \A d \in Callers, q \in Pids :
          CallerOrdering(d, q)' <=> CallerOrdering(d, q) \/ (d = c /\ q = p)
    <3>1. CallerOrdering(c, p)'
      BY <1>1, <1>4, <1>5 DEF CallerOrdering
    <3>2. \A q \in Pids : CallerOrdering(c, q)' => q = p
      BY <1>1, <1>4 DEF CallerOrdering
    <3>3. \A q \in Pids : CallerOrdering(c, q) => q = p
      BY <1>1 DEF CallerOrdering
    <3>4. \A d \in Callers \ {c}, q \in Pids :
            CallerOrdering(d, q)' <=> CallerOrdering(d, q)
      BY <1>4, <1>5 DEF CallerOrdering
    <3> QED
      BY <1>6, <3>1, <3>2, <3>3, <3>4
  <2> QED
    BY <1>1, <1>4, <1>6, <2>1 DEF CallersOrdering
<1>12. WritingReaped'
  <2>1. \A d \in Callers \ {c} : pc'[d] \in OrderLabels \cup {"settle", "record"}
          => on[d] \in Pids /\ os[on[d]] = "gone"
    BY <1>5 DEF WritingReaped, OrderLabels, TypeOK, CallerTypes
  <2> QED
    BY <1>1, <1>4, <1>6, <2>1 DEF WritingReaped
<1> QED
  BY <1>6, <1>7, <1>8, <1>9, <1>10, <1>11, <1>12

-----------------------------------------------------------------------------
(* Appends: record_terminal_order by the reaper or by a thread.            *)

\* What the append leaves: the other conjuncts of Shown and Held but the
\* two about who appends.
LEMMA AppendFacts ==
  ASSUME IInv, NEW p \in Pids, RecordTerminalOrder(p), children[p] \in Terminal,
         ~InOrder(p)
  PROVE  /\ TableTracksReap' /\ OrderIsExact' /\ InOrder(p)' /\ UNCHANGED os
         /\ \A q \in Pids : rpc[q] # "wait"
         /\ \A q \in Pids : children'[q] \in Terminal =>
              children[q] \in Terminal /\ (InOrder(q) => InOrder(q)')
         /\ \A q \in Pids : ~InOrder(q) => children'[q] = children[q]
         /\ \A q \in Pids : InOrder(q)' => InOrder(q) \/ q = p
         /\ \A q \in Pids : children[q] = "absent" => children'[q] = "absent"
<1> USE DEF IInv, Shown, Held
<1>1. /\ OrderIsExact' /\ InOrder(p)' /\ UNCHANGED os
      /\ \A q \in Pids : \/ children'[q] = children[q] /\ (InOrder(q) => InOrder(q)')
                         \/ /\ children'[q] = "absent"
                            /\ children[q] \in Terminal
                            /\ InOrder(q)
      /\ \A q \in Pids : InOrder(q)' => InOrder(q) \/ q = p
  BY RecordOrder
<1>2. "absent" \notin Terminal
  BY DEF Terminal
<1>3. TableTracksReap'
  BY <1>1, <1>2 DEF TableTracksReap
<1>4. \A q \in Pids : rpc[q] # "wait"
  BY NoneAssumption DEF RecordTerminalOrder, Unlocked, Holding
<1> QED
  BY <1>1, <1>2, <1>3, <1>4

\* The reaper appends.
LEMMA ReaperOrderStep ==
  ASSUME IInv, TypeOK', NEW p \in Pids, ReaperOrder(p)
  PROVE  (Shown /\ Held)'
<1> USE DEF IInv, Shown, Held
<1>1. RecordTerminalOrder(p) /\ children[p] \in Terminal /\ ~InOrder(p)
  BY DEF ReaperOrder, ReaperOrdering
<1>2. rpc' = [rpc EXCEPT ![p] = "settle"] /\ UNCHANGED <<pc, on>>
  BY DEF ReaperOrder, ReaperGoTo, caller
<1>3. rpc'[p] = "settle" /\ \A q \in Pids \ {p} : rpc'[q] = rpc[q]
  BY <1>2 DEF TypeOK, ReaperTypes
<1>4. rpc[p] = "order"
  BY DEF ReaperOrder
<1>5. /\ TableTracksReap' /\ OrderIsExact' /\ InOrder(p)' /\ UNCHANGED os
      /\ \A q \in Pids : rpc[q] # "wait"
      /\ \A q \in Pids : children'[q] \in Terminal =>
           children[q] \in Terminal /\ (InOrder(q) => InOrder(q)')
      /\ \A q \in Pids : ~InOrder(q) => children'[q] = children[q]
      /\ \A q \in Pids : InOrder(q)' => InOrder(q) \/ q = p
      /\ \A q \in Pids : children[q] = "absent" => children'[q] = "absent"
  BY <1>1, AppendFacts
<1>6. TerminalIsOrdered'
  <2>1. ASSUME NEW q \in Pids \ {p}, children'[q] \in Terminal
        PROVE  \/ InOrder(q)' \/ rpc'[q] = "order"
               \/ \E c \in Callers : on'[c] = q
                    /\ pc'[c] \in {"observe order", "stop order"}
    BY <1>2, <1>3, <1>5, <2>1 DEF TerminalIsOrdered, InOrder
  <2> QED
    BY <1>5, <2>1 DEF TerminalIsOrdered, InOrder
<1>7. Inserting'
  BY <1>2, <1>5 DEF Inserting, TypeOK, CallerTypes
<1>8. Holding'
  BY <1>3, <1>5 DEF Holding
<1>9. ReaperOrdering'
  BY <1>3, <1>5 DEF ReaperOrdering
<1>10. CallersOrdering'
  <2>1. \A c \in Callers, q \in Pids : CallerOrdering(c, q)' <=> CallerOrdering(c, q)
    BY <1>2 DEF CallerOrdering
  <2>2. \A c \in Callers : ~CallerOrdering(c, p)
    BY <1>4 DEF CallersOrdering
  <2> QED
    BY <1>3, <1>5, <2>1, <2>2 DEF CallersOrdering
<1>11. WritingReaped'
  BY <1>2, <1>3, <1>4, <1>5 DEF WritingReaped
<1> QED
  BY <1>5, <1>6, <1>7, <1>8, <1>9, <1>10, <1>11

\* A thread appends.
LEMMA CallerOrderStep ==
  ASSUME IInv, TypeOK', NEW c \in Callers, CallerOrders(c)
  PROVE  (Shown /\ Held)'
<1> USE DEF IInv, Shown, Held
<1>1. PICK p \in Pids : p = on[c]
  BY DEF CallerOrders, TypeOK, CallerTypes
<1>2. CallerOrdering(c, p)
  BY <1>1 DEF CallerOrders, CallerOrdering, OrderLabels
<1>3. RecordTerminalOrder(p) /\ children[p] \in Terminal /\ ~InOrder(p)
  BY <1>1, <1>2 DEF CallerOrders, CallersOrdering
<1>4. PICK label \in {"settle", "confirm"} :
        pc' = [pc EXCEPT ![c] = label] /\ UNCHANGED <<on, rpc>>
  BY DEF CallerOrders, GoTo, reaper
<1>5. pc'[c] \in {"settle", "confirm"} /\ \A d \in Callers \ {c} : pc'[d] = pc[d]
  BY <1>4 DEF TypeOK, CallerTypes
<1>6. /\ TableTracksReap' /\ OrderIsExact' /\ InOrder(p)' /\ UNCHANGED os
      /\ \A q \in Pids : rpc[q] # "wait"
      /\ \A q \in Pids : children'[q] \in Terminal =>
           children[q] \in Terminal /\ (InOrder(q) => InOrder(q)')
      /\ \A q \in Pids : ~InOrder(q) => children'[q] = children[q]
      /\ \A q \in Pids : InOrder(q)' => InOrder(q) \/ q = p
      /\ \A q \in Pids : children[q] = "absent" => children'[q] = "absent"
  BY <1>3, AppendFacts
<1>7. TerminalIsOrdered'
  <2>1. ASSUME NEW q \in Pids \ {p}, children'[q] \in Terminal
        PROVE  \/ InOrder(q)' \/ rpc'[q] = "order"
               \/ \E d \in Callers : on'[d] = q
                    /\ pc'[d] \in {"observe order", "stop order"}
    <3>1. \/ InOrder(q)' \/ rpc[q] = "order"
          \/ \E d \in Callers : on[d] = q
               /\ pc[d] \in {"observe order", "stop order"}
      BY <1>6, <2>1 DEF TerminalIsOrdered, InOrder
    <3>2. \A d \in Callers : on[d] = q => d # c
      BY <1>1
    <3> QED
      BY <1>4, <1>5, <3>1, <3>2
  <2> QED
    BY <1>6, <2>1 DEF TerminalIsOrdered, InOrder
<1>8. Inserting'
  <2>1. \A d \in Callers : pc'[d] = "insert" =>
          pc[d] = "insert" /\ on[d] \in Pids
    BY <1>5 DEF TypeOK, CallerTypes
  <2> QED
    BY <1>4, <1>6, <2>1 DEF Inserting
<1>9. Holding'
  BY <1>4, <1>6 DEF Holding
<1>10. ReaperOrdering'
  <2>1. rpc[p] # "order"
    BY <1>2 DEF CallersOrdering
  <2> QED
    BY <1>4, <1>6, <2>1 DEF ReaperOrdering
<1>11. CallersOrdering'
  <2>1. \A d \in Callers, q \in Pids :
          CallerOrdering(d, q)' => CallerOrdering(d, q) /\ d # c
    BY <1>4, <1>5 DEF CallerOrdering, OrderLabels
  <2>2. \A d \in Callers : CallerOrdering(d, p) => d = c
    BY <1>2 DEF CallersOrdering
  <2> QED
    BY <1>4, <1>6, <2>1, <2>2 DEF CallersOrdering
<1>12. WritingReaped'
  <2>1. os[p] = "gone"
    BY <1>1, <1>2 DEF WritingReaped, CallerOrdering
  <2>2. \A d \in Callers \ {c} : pc'[d] \in OrderLabels \cup {"settle", "record"}
          => os[on[d]] = "gone"
    BY <1>5 DEF WritingReaped
  <2> QED
    BY <1>1, <1>4, <1>6, <2>1, <2>2 DEF WritingReaped
<1> QED
  BY <1>6, <1>7, <1>8, <1>9, <1>10, <1>11, <1>12

-----------------------------------------------------------------------------
(* Spawns.                                                                 *)

\* A fork gives a pid nobody has, so its entry is absent.
LEMMA SpawnForkStep ==
  ASSUME IInv, TypeOK', PidsRecycle = FALSE, NEW c \in Callers, NEW p \in Pids,
         SpawnFork(c, p)
  PROVE  (Shown /\ Held)'
<1> USE DEF IInv, Shown, Held
<1>1. os[p] = "none" /\ os' = [os EXCEPT ![p] = "alive"]
  BY DEF SpawnFork, Available
<1>2. children[p] = "absent"
  BY <1>1 DEF TableTracksReap, TypeOK, TableTypes
<1>3. /\ pc[c] = "fork" /\ pc' = [pc EXCEPT ![c] = "insert"]
      /\ on' = [on EXCEPT ![c] = p]
      /\ rpc' = [rpc EXCEPT ![p] = "reading"]
      /\ UNCHANGED <<children, order, holder>>
  BY DEF SpawnFork, GoTo, ReaperGoTo, tables
<1>4. /\ pc'[c] = "insert" /\ on'[c] = p /\ os'[p] = "alive"
      /\ rpc'[p] = "reading"
      /\ \A d \in Callers \ {c} : pc'[d] = pc[d] /\ on'[d] = on[d]
      /\ \A q \in Pids \ {p} : os'[q] = os[q] /\ rpc'[q] = rpc[q]
  BY <1>1, <1>3 DEF TypeOK, OsTypes, ReaperTypes, CallerTypes
<1>5. TableTracksReap'
  BY <1>2, <1>3, <1>4 DEF TableTracksReap, Terminal
<1>6. OrderIsExact'
  BY <1>3 DEF OrderIsExact
<1>7. TerminalIsOrdered'
  <2>1. ASSUME NEW q \in Pids, children'[q] \in Terminal
        PROVE  \/ InOrder(q)' \/ rpc'[q] = "order"
               \/ \E d \in Callers : on'[d] = q
                    /\ pc'[d] \in {"observe order", "stop order"}
    <3>1. q # p
      BY <1>2, <1>3, <2>1 DEF Terminal
    <3>2. \/ InOrder(q) \/ rpc[q] = "order"
          \/ \E d \in Callers : on[d] = q
               /\ pc[d] \in {"observe order", "stop order"}
      BY <1>3, <2>1 DEF TerminalIsOrdered, InOrder
    <3>3. \A d \in Callers : pc[d] \in {"observe order", "stop order"} => d # c
      BY <1>3
    <3> QED
      BY <1>3, <1>4, <3>1, <3>2, <3>3 DEF InOrder
  <2> QED
    BY <2>1 DEF TerminalIsOrdered, InOrder
<1>8. Inserting'
  <2>1. \A d \in Callers \ {c} : pc[d] = "insert" => on[d] \in Pids \ {p}
    BY <1>1 DEF Inserting, TypeOK, CallerTypes
  <2>2. \A d \in Callers : pc'[d] = "insert" =>
          children'[on'[d]] = "absent" /\ os'[on'[d]] \in {"alive", "zombie"}
    BY <1>2, <1>3, <1>4, <2>1 DEF Inserting
  <2>3. \A d, e \in Callers :
          pc'[d] = "insert" /\ pc'[e] = "insert" /\ on'[d] = on'[e] => d = e
    BY <1>4, <2>1 DEF Inserting
  <2> QED
    BY <2>2, <2>3 DEF Inserting
<1>9. Holding'
  BY <1>3, <1>4 DEF Holding
<1>10. ReaperOrdering'
  BY <1>3, <1>4 DEF ReaperOrdering, InOrder
<1>11. CallersOrdering'
  <2>1. \A d \in Callers, q \in Pids :
          CallerOrdering(d, q)' => CallerOrdering(d, q)
    BY <1>4 DEF CallerOrdering, OrderLabels
  <2>2. \A q \in Pids : InOrder(q)' <=> InOrder(q)
    BY <1>3 DEF InOrder
  <2> QED
    BY <1>3, <1>4, <2>1, <2>2 DEF CallersOrdering
<1>12. WritingReaped'
  <2>1. \A q \in Pids : os[q] = "gone" => os'[q] = "gone"
    BY <1>1, <1>4
  <2>2. \A d \in Callers : pc'[d] \in OrderLabels \cup {"settle", "record"} =>
          on'[d] = on[d] /\ on[d] \in Pids /\ os[on[d]] = "gone"
    BY <1>4 DEF WritingReaped, OrderLabels, TypeOK, CallerTypes
  <2> QED
    BY <1>4, <2>1, <2>2 DEF WritingReaped
<1> QED
  BY <1>5, <1>6, <1>7, <1>8, <1>9, <1>10, <1>11, <1>12

\* The fresh child's entry appears, and only this thread inserts it.
LEMMA SpawnInsertStep ==
  ASSUME IInv, TypeOK', NEW c \in Callers, SpawnInsert(c)
  PROVE  (Shown /\ Held)'
<1> USE DEF IInv, Shown, Held
<1>1. PICK p \in Pids : p = on[c]
  BY DEF SpawnInsert, TypeOK, CallerTypes
<1>2. /\ pc[c] = "insert" /\ pc' = [pc EXCEPT ![c] = "idle"]
      /\ on' = [on EXCEPT ![c] = None]
      /\ children' = [children EXCEPT ![p] = "running"]
      /\ UNCHANGED <<os, order, rpc>>
  BY <1>1 DEF SpawnInsert, Return, GoTo, osVars, reaper
<1>3. children[p] = "absent" /\ os[p] \in {"alive", "zombie"}
  BY <1>1, <1>2 DEF Inserting
<1>4. /\ pc'[c] = "idle" /\ children'[p] = "running"
      /\ \A d \in Callers \ {c} : pc'[d] = pc[d] /\ on'[d] = on[d]
      /\ \A q \in Pids \ {p} : children'[q] = children[q]
  BY <1>2 DEF TypeOK, TableTypes, CallerTypes
<1>5. ~InOrder(p) /\ \A q \in Pids : InOrder(q)' <=> InOrder(q)
  BY <1>2, <1>3 DEF OrderIsExact, InOrder, Terminal
<1>6. TableTracksReap'
  BY <1>2, <1>3, <1>4 DEF TableTracksReap, Terminal
<1>7. OrderIsExact'
  <2>1. \A i \in 1 .. Len(order) : order[i] \in Pids \ {p}
    BY <1>5 DEF InOrder, TypeOK, TableTypes
  <2> QED
    BY <1>2, <1>4, <2>1 DEF OrderIsExact
<1>8. TerminalIsOrdered'
  <2>1. ASSUME NEW q \in Pids, children'[q] \in Terminal
        PROVE  \/ InOrder(q)' \/ rpc'[q] = "order"
               \/ \E d \in Callers : on'[d] = q
                    /\ pc'[d] \in {"observe order", "stop order"}
    <3>1. children[q] \in Terminal
      BY <1>4, <2>1 DEF Terminal
    <3>2. \/ InOrder(q) \/ rpc[q] = "order"
          \/ \E d \in Callers : on[d] = q
               /\ pc[d] \in {"observe order", "stop order"}
      BY <3>1 DEF TerminalIsOrdered, InOrder
    <3>3. \A d \in Callers : pc[d] \in {"observe order", "stop order"} => d # c
      BY <1>2
    <3> QED
      BY <1>2, <1>4, <1>5, <3>2, <3>3
  <2> QED
    BY <2>1 DEF TerminalIsOrdered, InOrder
<1>9. Inserting'
  <2>1. \A d \in Callers : pc'[d] = "insert" =>
          /\ d # c /\ pc[d] = "insert" /\ on'[d] = on[d]
          /\ on[d] \in Pids \ {p}
    BY <1>1, <1>2, <1>4 DEF Inserting, TypeOK, CallerTypes
  <2> QED
    BY <1>2, <1>4, <2>1 DEF Inserting
<1>10. Holding'
  BY <1>2, NoneAssumption DEF Holding, SpawnInsert, Unlocked
<1>11. ReaperOrdering'
  <2>1. rpc[p] # "order"
    BY <1>3 DEF ReaperOrdering, Terminal
  <2> QED
    BY <1>2, <1>4, <1>5, <2>1 DEF ReaperOrdering
<1>12. CallersOrdering'
  <2>1. \A d \in Callers, q \in Pids :
          CallerOrdering(d, q)' => CallerOrdering(d, q)
    BY <1>4 DEF CallerOrdering, OrderLabels
  <2>2. \A d \in Callers : ~CallerOrdering(d, p)
    BY <1>3 DEF CallersOrdering, Terminal
  <2> QED
    BY <1>2, <1>4, <1>5, <2>1, <2>2 DEF CallersOrdering
<1>13. WritingReaped'
  <2>1. \A d \in Callers : pc'[d] \in OrderLabels \cup {"settle", "record"} =>
          on'[d] = on[d] /\ os[on[d]] = "gone"
    BY <1>4 DEF WritingReaped, OrderLabels
  <2> QED
    BY <1>2, <2>1 DEF WritingReaped
<1> QED
  BY <1>6, <1>7, <1>8, <1>9, <1>10, <1>11, <1>12, <1>13

-----------------------------------------------------------------------------
(* Every step.                                                             *)

\* Every step keeps the inductive invariant.
LEMMA InvStep ==
  ASSUME PidsRecycle = FALSE, IInv, [Next]_vars
  PROVE  IInv'
<1> USE DEF OrderLabels, osVars, tables, output, reaper, caller
<1>1. TypeOK'
  BY TypeStep DEF IInv
<1>2. /\ os \in [Pids -> {"none", "alive", "zombie", "gone"}]
      /\ children \in [Pids -> {"absent", "running"} \cup Terminal]
      /\ rpc \in [Pids -> ReaperLabels]
      /\ pc \in [Callers -> CallerLabels]
      /\ on \in [Callers -> Pids \cup {None}]
      /\ \A c \in Callers : pc[c] \notin {"idle", "fork"} => on[c] \in Pids
  BY DEF IInv, TypeOK, OsTypes, TableTypes, ReaperTypes, CallerTypes
<1>3. \A p \in Pids : rpc[p] = "wait" => holder = p /\ children[p] = "running"
  BY DEF IInv, Held, Holding
<1>4. ASSUME NEW p \in Pids, ChildExits(p)
      PROVE  (Shown /\ Held)'
  BY <1>1, <1>2, <1>3, <1>4, QuietStep DEF ChildExits
<1>5. ASSUME NEW p \in Pids, ClaimStales(p)
      PROVE  (Shown /\ Held)'
  BY <1>1, <1>2, <1>3, <1>5, QuietStep DEF ClaimStales
<1>6. ASSUME NEW p \in Pids, SettleOverdue(p)
      PROVE  (Shown /\ Held)'
  BY <1>1, <1>2, <1>3, <1>6, QuietStep DEF SettleOverdue
<1>7. ASSUME NEW p \in Pids, NEW h \in Helpers, HelperForks(p, h)
      PROVE  (Shown /\ Held)'
  BY <1>1, <1>2, <1>3, <1>7, QuietStep DEF HelperForks
<1>8. ASSUME NEW p \in Pids, NEW h \in Helpers, HelperExits(p, h)
      PROVE  (Shown /\ Held)'
  BY <1>1, <1>2, <1>3, <1>8, QuietStep DEF HelperExits
<1>9. ASSUME NEW p \in Pids, ReaderEnds(p)
      PROVE  (Shown /\ Held)'
  BY <1>1, <1>2, <1>3, <1>9, QuietStep DEF ReaderEnds, ReaperGoTo
<1>10. ASSUME NEW p \in Pids, ReaderFinalizes(p)
      PROVE  (Shown /\ Held)'
  BY <1>1, <1>2, <1>3, <1>10, QuietStep DEF ReaderFinalizes, ReaperGoTo
<1>11. ASSUME NEW p \in Pids, ClaimReap(p)
      PROVE  (Shown /\ Held)'
  BY <1>1, <1>2, <1>3, <1>11, QuietStep DEF ClaimReap, ReaperGoTo,
     ReaperReturns
<1>12. ASSUME NEW p \in Pids, ReaperCensus(p)
      PROVE  (Shown /\ Held)'
  BY <1>1, <1>2, <1>3, <1>12, QuietStep DEF ReaperCensus, ReaperGoTo
<1>13. ASSUME NEW p \in Pids, ReaperRefresh(p)
      PROVE  (Shown /\ Held)'
  BY <1>1, <1>2, <1>3, <1>13, QuietStep DEF ReaperRefresh
<1>14. ASSUME NEW p \in Pids, NoteReapPoll(p)
      PROVE  (Shown /\ Held)'
  BY <1>1, <1>2, <1>3, <1>14, QuietStep DEF NoteReapPoll, ReaperGoTo
<1>15. ASSUME NEW p \in Pids, TryReapEnter(p)
      PROVE  (Shown /\ Held)'
  <2>1. UNCHANGED <<os, children, order, pc, on>>
    BY <1>15 DEF TryReapEnter
  <2>2. /\ rpc[p] = "try" /\ holder = None
        /\ \/ children[p] # "running" /\ ReaperReturns(p) /\ holder' = holder
           \/ children[p] = "running" /\ ReaperGoTo(p, "owed") /\ holder' = holder
           \/ children[p] = "running" /\ ReaperGoTo(p, "wait") /\ holder' = p
    BY <1>15 DEF TryReapEnter, Unlocked
  <2>3. PICK label \in {"done", "owed", "wait"} :
          /\ rpc' = [rpc EXCEPT ![p] = label]
          /\ label = "wait" => children[p] = "running" /\ holder' = p
    BY <2>2 DEF ReaperReturns, ReaperGoTo
  <2>4. \A q \in Pids : rpc[q] # "wait"
    BY <1>3, <2>2, NoneAssumption
  <2>5. \A q \in Pids : rpc'[q] = "wait" => holder' = q /\ children'[q] = "running"
    BY <1>2, <2>1, <2>3, <2>4
  <2>6. \A q \in Pids : \/ rpc'[q] = rpc[q]
                        \/ /\ rpc[q] # "order" /\ rpc'[q] # "order"
                           /\ rpc'[q] \notin {"settle", "record"}
    BY <1>2, <2>2, <2>3
  <2> QED
    BY <1>1, <2>1, <2>5, <2>6, QuietStep
<1>16. ASSUME NEW p \in Pids, TryReapReaped(p)
      PROVE  (Shown /\ Held)'
  BY <1>1, <1>16, ReaperReapStep
<1>17. ASSUME NEW p \in Pids, TryReapPending(p)
      PROVE  (Shown /\ Held)'
  BY <1>1, <1>2, <1>3, <1>17, QuietStep DEF TryReapPending, ReaperGoTo
<1>18. ASSUME NEW p \in Pids, TryReapFailed(p)
      PROVE  (Shown /\ Held)'
  BY <1>1, <1>2, <1>3, <1>18, QuietStep DEF TryReapFailed, ReaperReturns,
     ReaperGoTo
<1>19. ASSUME NEW p \in Pids, ReaperOwed(p)
      PROVE  (Shown /\ Held)'
  BY <1>1, <1>2, <1>3, <1>19, QuietStep DEF ReaperOwed, ReaperGoTo,
     ReaperReturns
<1>20. ASSUME NEW p \in Pids, ReaperOrder(p)
      PROVE  (Shown /\ Held)'
  BY <1>1, <1>20, ReaperOrderStep
<1>21. ASSUME NEW p \in Pids, ReaperSettle(p)
      PROVE  (Shown /\ Held)'
  <2>1. os[p] = "gone"
    BY <1>21 DEF ReaperSettle, IInv, Held, WritingReaped
  <2>2. /\ UNCHANGED <<os, children, order, holder, pc, on>>
        /\ rpc[p] = "settle" /\ rpc' = [rpc EXCEPT ![p] = "record"]
    BY <1>21 DEF ReaperSettle, ReaperGoTo
  <2> QED
    BY <1>1, <1>2, <1>3, <2>1, <2>2, QuietStep
<1>22. ASSUME NEW p \in Pids, ReaperRecord(p)
      PROVE  (Shown /\ Held)'
  <2>1. children[p] # "running"
    BY <1>22 DEF ReaperRecord, IInv, Shown, Held, WritingReaped, TableTracksReap
  <2>2. /\ UNCHANGED <<os, order, holder, pc, on>> /\ holder = None
        /\ rpc[p] = "record"
    BY <1>22 DEF ReaperRecord, Unlocked
  <2>3. rverdict[p] \in Terminal
    BY <1>22 DEF ReaperRecord, IInv, TypeOK, ReaperTypes
  <2>4. \A q \in Pids : \/ children'[q] = children[q]
                        \/ children[q] \in Terminal /\ children'[q] \in Terminal
    <3>1. UNCHANGED children \/ WriteSettled(p, rverdict[p])
      BY <1>22 DEF ReaperRecord
    <3> QED
      BY <1>2, <2>1, <2>3, <3>1 DEF WriteSettled
  <2>5. PICK label \in {"confirm", "unguard"} : rpc' = [rpc EXCEPT ![p] = label]
    BY <1>22 DEF ReaperRecord, ReaperGoTo
  <2>6. \A q \in Pids : rpc[q] # "wait"
    BY <1>3, <2>2, NoneAssumption
  <2> QED
    BY <1>1, <1>2, <2>2, <2>4, <2>5, <2>6, QuietStep
<1>23. ASSUME NEW p \in Pids, ReaperConfirm(p)
      PROVE  (Shown /\ Held)'
  BY <1>1, <1>2, <1>3, <1>23, QuietStep DEF ReaperConfirm, ReaperGoTo
<1>24. ASSUME NEW p \in Pids, ReaperPublish(p)
      PROVE  (Shown /\ Held)'
  BY <1>1, <1>2, <1>3, <1>24, QuietStep DEF ReaperPublish, ReaperGoTo
<1>25. ASSUME NEW p \in Pids, ReaperUnguard(p)
      PROVE  (Shown /\ Held)'
  BY <1>1, <1>2, <1>3, <1>25, QuietStep DEF ReaperUnguard, ReaperReturns,
     ReaperGoTo
<1>26. ASSUME NEW c \in Callers, NEW p \in Pids, SpawnFork(c, p)
      PROVE  (Shown /\ Held)'
  BY <1>1, <1>26, SpawnForkStep
<1>27. ASSUME NEW c \in Callers, NEW p \in Pids, ObserveClaim(c, p)
      PROVE  (Shown /\ Held)'
  BY <1>1, <1>2, <1>3, <1>27, QuietStep DEF ObserveClaim, GoTo
<1>28. ASSUME NEW c \in Callers, NEW p \in Pids, StopRegister(c, p)
      PROVE  (Shown /\ Held)'
  BY <1>1, <1>2, <1>3, <1>28, QuietStep DEF StopRegister, GoTo
<1>29. ASSUME NEW c \in Callers, SpawnCheck(c)
      PROVE  (Shown /\ Held)'
  BY <1>1, <1>2, <1>3, <1>29, QuietStep DEF SpawnCheck, GoTo, Unlocked
<1>30. ASSUME NEW c \in Callers, SpawnFails(c)
      PROVE  (Shown /\ Held)'
  BY <1>1, <1>2, <1>3, <1>30, QuietStep DEF SpawnFails, Return, GoTo
<1>31. ASSUME NEW c \in Callers, SpawnInsert(c)
      PROVE  (Shown /\ Held)'
  BY <1>1, <1>31, SpawnInsertStep
<1>32. ASSUME NEW c \in Callers, ObserveAnswers(c)
      PROVE  (Shown /\ Held)'
  BY <1>1, <1>2, <1>3, <1>32, QuietStep DEF ObserveAnswers, Return, Unlocked,
     GoTo
<1>33. ASSUME NEW c \in Callers, ObserveReaps(c)
      PROVE  (Shown /\ Held)'
  BY <1>1, <1>33, CallerReapStep
<1>34. ASSUME NEW c \in Callers, ObserveTerminal(c)
      PROVE  (Shown /\ Held)'
  BY <1>1, <1>2, <1>3, <1>34, QuietStep DEF ObserveTerminal, GoTo, AfterLook,
     Unlocked
<1>35. ASSUME NEW c \in Callers, ObserveFails(c)
      PROVE  (Shown /\ Held)'
  BY <1>1, <1>2, <1>3, <1>35, QuietStep DEF ObserveFails, GoTo, AfterLook,
     Unlocked, LeavesEntry
<1>36. ASSUME NEW c \in Callers, StopAwaits(c)
      PROVE  (Shown /\ Held)'
  BY <1>1, <1>2, <1>3, <1>36, QuietStep DEF StopAwaits, GoTo
<1>37. ASSUME NEW c \in Callers, StopAnswers(c)
      PROVE  (Shown /\ Held)'
  BY <1>1, <1>2, <1>3, <1>37, QuietStep DEF StopAnswers, GoTo, Unlocked
<1>38. ASSUME NEW c \in Callers, StopChecks(c)
      PROVE  (Shown /\ Held)'
  BY <1>1, <1>2, <1>3, <1>38, QuietStep DEF StopChecks, GoTo, Unlocked
<1>39. ASSUME NEW c \in Callers, StopCensus(c)
      PROVE  (Shown /\ Held)'
  BY <1>1, <1>2, <1>3, <1>39, QuietStep DEF StopCensus, GoTo
<1>40. ASSUME NEW c \in Callers, StopTerm(c)
      PROVE  (Shown /\ Held)'
  BY <1>1, <1>2, <1>3, <1>40, QuietStep DEF StopTerm, GoTo
<1>41. ASSUME NEW c \in Callers, StopKill(c)
      PROVE  (Shown /\ Held)'
  BY <1>1, <1>2, <1>3, <1>41, QuietStep DEF StopKill, GoTo
<1>42. ASSUME NEW c \in Callers, StopSignalUncertain(c)
      PROVE  (Shown /\ Held)'
  BY <1>1, <1>2, <1>3, <1>42, QuietStep DEF StopSignalUncertain, GoTo
<1>43. ASSUME NEW c \in Callers, StopReaps(c)
      PROVE  (Shown /\ Held)'
  BY <1>1, <1>43, CallerReapStep
<1>44. ASSUME NEW c \in Callers, StopFindsReaped(c)
      PROVE  (Shown /\ Held)'
  <2>1. os[on[c]] = "gone" /\ on[c] \in Pids
    BY <1>2, <1>44 DEF StopFindsReaped, IInv, Shown, TableTracksReap
  <2>2. /\ UNCHANGED <<os, children, order, holder, rpc, on>>
        /\ pc[c] \in {"poll", "repoll"} /\ pc' = [pc EXCEPT ![c] = "settle"]
    BY <1>44 DEF StopFindsReaped, GoTo
  <2> QED
    BY <1>1, <1>2, <1>3, <2>1, <2>2, QuietStep
<1>45. ASSUME NEW c \in Callers, StopGivesUp(c)
      PROVE  (Shown /\ Held)'
  BY <1>1, <1>2, <1>3, <1>45, QuietStep DEF StopGivesUp, GoTo, Unlocked
<1>46. ASSUME NEW c \in Callers, StopSettles(c)
      PROVE  (Shown /\ Held)'
  <2>1. os[on[c]] = "gone" /\ on[c] \in Pids
    BY <1>2, <1>46 DEF StopSettles, IInv, Held, WritingReaped
  <2>2. /\ UNCHANGED <<os, children, order, holder, rpc, on>>
        /\ pc[c] = "settle" /\ pc' = [pc EXCEPT ![c] = "record"]
    BY <1>46 DEF StopSettles, GoTo
  <2> QED
    BY <1>1, <1>2, <1>3, <2>1, <2>2, QuietStep
<1>47. ASSUME NEW c \in Callers, StopRecords(c)
      PROVE  (Shown /\ Held)'
  <2>1. children[on[c]] # "running" /\ on[c] \in Pids
    BY <1>2, <1>47 DEF StopRecords, IInv, Shown, Held, WritingReaped,
                    TableTracksReap
  <2>2. /\ UNCHANGED <<os, order, holder, rpc, on>> /\ holder = None
        /\ pc[c] = "record" /\ pc' = [pc EXCEPT ![c] = "stop confirm"]
    BY <1>47 DEF StopRecords, GoTo, Unlocked
  <2>3. res[c] \in Terminal
    BY <1>47 DEF StopRecords, IInv, TypeOK, CallerTypes, HoldsState
  <2>4. \A q \in Pids : \/ children'[q] = children[q]
                        \/ children[q] \in Terminal /\ children'[q] \in Terminal
    BY <1>2, <2>1, <2>3, <1>47 DEF StopRecords, WriteSettled
  <2>5. \A q \in Pids : rpc[q] # "wait"
    BY <1>3, <2>2, NoneAssumption
  <2> QED
    BY <1>1, <1>2, <2>2, <2>4, <2>5, QuietStep
<1>48. ASSUME NEW c \in Callers, StopReturns(c)
      PROVE  (Shown /\ Held)'
  BY <1>1, <1>2, <1>3, <1>48, QuietStep DEF StopReturns, Return, GoTo
<1>49. ASSUME NEW c \in Callers, CallerOrders(c)
      PROVE  (Shown /\ Held)'
  BY <1>1, <1>49, CallerOrderStep
<1>50. ASSUME NEW c \in Callers, CallerConfirms(c)
      PROVE  (Shown /\ Held)'
  BY <1>1, <1>2, <1>3, <1>50, QuietStep DEF CallerConfirms, GoTo
<1>51. ASSUME NEW c \in Callers, ObservePublishes(c)
      PROVE  (Shown /\ Held)'
  BY <1>1, <1>2, <1>3, <1>51, QuietStep DEF ObservePublishes, Return, GoTo
<1>52. ASSUME NEW c \in Callers, StopPublishes(c)
      PROVE  (Shown /\ Held)'
  BY <1>1, <1>2, <1>3, <1>52, QuietStep DEF StopPublishes, GoTo
<1>53. ASSUME UNCHANGED vars
      PROVE  (Shown /\ Held)'
  BY <1>1, <1>3, <1>53, QuietStep DEF vars
<1> QED
  BY <1>1, <1>4, <1>5, <1>6, <1>7, <1>8, <1>9, <1>10, <1>11, <1>12, <1>13,
     <1>14, <1>15, <1>16, <1>17, <1>18, <1>19, <1>20, <1>21, <1>22, <1>23,
     <1>24, <1>25, <1>26, <1>27, <1>28, <1>29, <1>30, <1>31, <1>32, <1>33,
     <1>34, <1>35, <1>36, <1>37, <1>38, <1>39, <1>40, <1>41, <1>42, <1>43,
     <1>44, <1>45, <1>46, <1>47, <1>48, <1>49, <1>50, <1>51, <1>52, <1>53
  DEF IInv, Next, Kernel, Reader, Reaper, Proceed, Call

\* Only reaps, appends, insertions and settled writes touch the table.
LEMMA TableChanges ==
  ASSUME [Next]_vars
  PROVE  \/ UNCHANGED children
         \/ \E p \in Pids : TryReapReaped(p) \/ ReaperOrder(p) \/ ReaperRecord(p)
         \/ \E c \in Callers : \/ SpawnInsert(c) \/ ObserveReaps(c)
                               \/ StopReaps(c) \/ StopRecords(c)
                               \/ CallerOrders(c)
<1> USE DEF tables
<1>1. ASSUME NEW p \in Pids, Kernel(p)
      PROVE  UNCHANGED children
  BY <1>1 DEF Kernel, ChildExits, ClaimStales, SettleOverdue, HelperForks,
              HelperExits
<1>2. ASSUME NEW p \in Pids, Reader(p) \/ ReaperRefresh(p)
      PROVE  UNCHANGED children
  BY <1>2 DEF Reader, ReaderEnds, ReaperRefresh
<1>3. ASSUME NEW p \in Pids, Reaper(p)
      PROVE  \/ UNCHANGED children
             \/ TryReapReaped(p) \/ ReaperOrder(p) \/ ReaperRecord(p)
  BY <1>3 DEF Reaper, ReaderFinalizes, ClaimReap, ReaperCensus, NoteReapPoll,
              TryReapEnter, TryReapPending, TryReapFailed, ReaperOwed,
              ReaperSettle, ReaperConfirm, ReaperPublish, ReaperUnguard
<1>4. ASSUME NEW c \in Callers, Call(c)
      PROVE  UNCHANGED children
  BY <1>4 DEF Call, SpawnCheck, ObserveClaim, StopRegister
<1>5. ASSUME NEW c \in Callers, Proceed(c)
      PROVE  \/ UNCHANGED children
             \/ SpawnInsert(c) \/ ObserveReaps(c) \/ StopReaps(c)
             \/ StopRecords(c) \/ CallerOrders(c)
  BY <1>5 DEF Proceed, SpawnFork, SpawnFails, ObserveAnswers, ObserveTerminal,
              ObserveFails, LeavesEntry, StopAwaits, StopAnswers, StopChecks, StopCensus,
              StopTerm, StopKill, StopSignalUncertain, StopFindsReaped,
              StopGivesUp, StopSettles, StopReturns, CallerConfirms,
              ObservePublishes, StopPublishes
<1> QED
  BY <1>1, <1>2, <1>3, <1>4, <1>5 DEF Next, vars

\* No step removes a Running entry: what is appended is terminal and not in
\* the order, and what the order holds is terminal.
LEMMA EvictionStep ==
  ASSUME IInv, [Next]_vars, NEW p \in Pids, children[p] = "running"
  PROVE  children'[p] # "absent"
<1>1. children \in [Pids -> {"absent", "running"} \cup Terminal]
  BY DEF IInv, TypeOK, TableTypes
<1>2. ASSUME NEW q \in Pids, RecordTerminalOrder(q), children[q] \in Terminal,
             ~InOrder(q)
      PROVE  children'[p] # "absent"
  <2>1. ~InOrder(p)
    BY DEF IInv, Shown, OrderIsExact, InOrder, Terminal
  <2> QED
    BY <1>2, <2>1, AppendFacts
<1>3. ASSUME NEW q \in Pids, ReaperOrder(q)
      PROVE  children'[p] # "absent"
  BY <1>2, <1>3 DEF ReaperOrder, IInv, Held, ReaperOrdering
<1>4. ASSUME NEW c \in Callers, CallerOrders(c)
      PROVE  children'[p] # "absent"
  <2>1. PICK q \in Pids : q = on[c]
    BY <1>4 DEF CallerOrders, IInv, TypeOK, CallerTypes
  <2>2. CallerOrdering(c, q)
    BY <1>4, <2>1 DEF CallerOrders, CallerOrdering, OrderLabels
  <2> QED
    BY <1>2, <1>4, <2>1, <2>2 DEF CallerOrders, IInv, Held, CallersOrdering
<1>5. ASSUME NEW q \in Pids, TryReapReaped(q) \/ ReaperRecord(q)
      PROVE  children'[p] # "absent"
  <2>1. CASE TryReapReaped(q)
    BY <1>1, <2>1 DEF TryReapReaped
  <2>2. CASE ReaperRecord(q)
    <3>1. UNCHANGED children \/ WriteSettled(q, rverdict[q])
      BY <2>2 DEF ReaperRecord
    <3>2. rverdict[q] # "absent"
      BY <2>2 DEF ReaperRecord, IInv, TypeOK, ReaperTypes, Terminal
    <3> QED
      BY <1>1, <3>1, <3>2 DEF WriteSettled
  <2> QED
    BY <1>5, <2>1, <2>2
<1>6. ASSUME NEW c \in Callers,
             SpawnInsert(c) \/ ObserveReaps(c) \/ StopReaps(c)
      PROVE  children'[p] # "absent"
  <2>1. PICK state : children' = [children EXCEPT ![on[c]] = state]
                     /\ state # "absent"
    BY <1>6 DEF SpawnInsert, ObserveReaps, StopReaps
  <2> QED
    BY <1>1, <2>1
<1>7. ASSUME NEW c \in Callers, StopRecords(c)
      PROVE  children'[p] # "absent"
  <2>1. res[c] # "absent"
    BY <1>7 DEF StopRecords, IInv, TypeOK, CallerTypes, HoldsState, Terminal
  <2> QED
    BY <1>1, <1>7, <2>1 DEF StopRecords, WriteSettled
<1> QED
  BY <1>3, <1>4, <1>5, <1>6, <1>7, TableChanges

-----------------------------------------------------------------------------
(* The theorems.                                                           *)

\* The inductive invariant holds in every reachable state when no process
\* id is handed out twice.
THEOREM InvCorrect ==
  ASSUME PidsRecycle = FALSE
  PROVE  Spec => []IInv
<1>1. Init => IInv
  <2> SUFFICES ASSUME Init PROVE IInv
    OBVIOUS
  <2>1. TypeOK
    BY NumbersAssumption
    DEF Init, TypeOK, OsTypes, TableTypes, OutputTypes, ReaperTypes,
        CallerTypes, ReaperLabels, CallerLabels, HoldsState, Census,
        Unavailable
  <2>2. Shown
    BY DEF Init, Shown, TableTracksReap, OrderIsExact, TerminalIsOrdered,
           Terminal
  <2>3. Held
    BY DEF Init, Held, Inserting, Holding, ReaperOrdering, CallersOrdering,
           WritingReaped, CallerOrdering, OrderLabels
  <2> QED
    BY <2>1, <2>2, <2>3 DEF IInv
<1>2. IInv /\ [Next]_vars => IInv'
  BY InvStep
<1> QED
  BY <1>1, <1>2, PTL DEF Spec

\* An entry is Running exactly while its child is unreaped, whatever threads
\* and the reaper do to the table (TableTracksReap): the signals stop sends
\* and the waits observe makes behind a Running entry reach that child.
THEOREM TableCorrect ==
  ASSUME PidsRecycle = FALSE
  PROVE  Spec => []TableTracksReap
<1>1. IInv => TableTracksReap
  BY DEF IInv, Shown
<1> QED
  BY <1>1, InvCorrect, PTL

\* record_terminal_order keeps every id once and names only terminal entries
\* (OrderIsExact), whoever calls it: observe, stop and the reaper race to
\* reap, and only the one who reaped appends.
THEOREM OrderCorrect ==
  ASSUME PidsRecycle = FALSE
  PROVE  Spec => []OrderIsExact
<1>1. IInv => OrderIsExact
  BY DEF IInv, Shown
<1> QED
  BY <1>1, InvCorrect, PTL

\* Every terminal entry is in the order or about to be appended, so that
\* eviction reaches it (TerminalIsOrdered).
THEOREM RetentionCorrect ==
  ASSUME PidsRecycle = FALSE
  PROVE  Spec => []TerminalIsOrdered
<1>1. IInv => TerminalIsOrdered
  BY DEF IInv, Shown
<1> QED
  BY <1>1, InvCorrect, PTL

\* Eviction never removes an entry that is still Running, which would drop
\* its Child and have it killed (EvictsOnlyReaped).
THEOREM EvictionCorrect ==
  ASSUME PidsRecycle = FALSE
  PROVE  Spec => EvictsOnlyReaped
<1>1. IInv /\ [Next]_vars
      => [\A p \in Pids : children[p] = "running" => children'[p] # "absent"]_vars
  BY EvictionStep
<1> QED
  BY <1>1, InvCorrect, PTL DEF Spec, EvictsOnlyReaped
=============================================================================
