------------------------ MODULE CrossingSessionsProofs ------------------------
(***************************************************************************)
(* Every statement works through its own transaction's session, no session  *)
(* is lost, and each transaction's DDL is settled by itself: the safety of   *)
(* CrossingSessions for every number of clients, threads and addresses.      *)
(* Each action has a lemma that it keeps Inv, with a step per part of it.    *)
(***************************************************************************)
EXTENDS CrossingSessions, TLAPS

\* A new transaction, StartTransaction: its address had been freed, so its slot was released.
LEMMA StartTransactionInv ==
    ASSUME SessionsAssumption, Inv, NEW c \in Clients, StartTransaction(c)
    PROVE  Inv'
<1> USE SessionsAssumption DEF Inv, StartTransaction, clientVars, workerVars, ddlVars, SessionsAssumption
<1>x. PICK x \in Transactions \ live : live' = live \cup {x} /\ transaction' = [transaction EXCEPT ![c] = x]
  OBVIOUS
<1>s. \A d \in Clients \ {c} :
         /\ stage'[d] = stage[d] /\ transaction'[d] = transaction[d]
         /\ ran_ddl'[d] = ran_ddl[d] /\ settled'[d] = settled[d]
  BY <1>x DEF TypeOK
<1>n. /\ stage'[c] = "active" /\ transaction'[c] = x /\ ran_ddl'[c] = FALSE
      /\ stage[c] = "none" /\ released[c] = None
  BY <1>x DEF TypeOK, SessionsHad, Resolving
<1>u. begun[x] = None
  <2>1. \A d \in Clients : transaction[d] # x
    BY <1>x DEF AddressesApart
  <2>2. QED
    BY <1>x, <2>1 DEF SlotsInUse
<1>1. TypeOK'
  BY DEF TypeOK, Stages
<1>2. AddressesApart'
  BY DEF TypeOK, AddressesApart
<1>3. SlotsInUse'
  BY DEF TypeOK, SlotsInUse
<1>4. SessionsHad'
  BY DEF TypeOK, AddressesApart, SlotsInUse, SessionsHad, Has, Resolving
<1>5. WorkersInside'
  BY DEF TypeOK, Workers, WorkersInside
<1>6. DdlMarked'
  <2>1. ASSUME NEW d \in Clients
        PROVE  /\ stage'[d] \in {"active", "commit"} =>
                      ran_ddl'[d] = (begun'[transaction'[d]] # None /\ begun'[transaction'[d]].altered)
               /\ stage'[d] \in {"resolve", "settle"} => ran_ddl'[d] = (released'[d] \in settling')
    <3>1. CASE d = c
      BY <3>1, <1>n, <1>u
    <3>2. CASE d # c
      BY <3>2, <1>s DEF DdlMarked
    <3>3. QED
      BY <3>1, <3>2
  <2>2. \A y \in Transactions : begun'[y] # None /\ begun'[y].altered => begun'[y].session # None
    BY DEF DdlMarked
  <2>3. \A s \in settling' : \E d \in Clients : released'[d] = s /\ stage'[d] \in {"resolve", "settle"}
    BY <1>s, <1>n DEF DdlMarked
  <2>4. QED
    BY <2>1, <2>2, <2>3 DEF DdlMarked
<1>7. SettlesItsOwn'
  BY <1>s, <1>n DEF SettlesItsOwn
<1>8. QED
  BY <1>1, <1>2, <1>3, <1>4, <1>5, <1>6, <1>7

\* SlotOf makes a slot only for a transaction that is inside its statement.
LEMMA AskSessionInv ==
    ASSUME SessionsAssumption, Inv, NEW c \in Clients, NEW t \in Threads, AskSession(c, t)
    PROVE  Inv'
<1> USE SessionsAssumption DEF Inv, AskSession, clientVars, workerVars, ddlVars, SessionsAssumption
<1>x. DEFINE x == transaction[c]
              w == <<c, t>>
<1>w. w \in Workers
  BY DEF Workers
<1>t. x \in Transactions /\ x # None
  BY DEF TypeOK, Stages, AddressesApart
<1>b. /\ begun'[x] # None
      /\ begun[x] # None => begun'[x] = begun[x]
      /\ begun[x] = None => begun'[x] = [session |-> None, altered |-> FALSE]
      /\ \A y \in Transactions \ {x} : begun'[y] = begun[y]
  <2>1. begun' = [begun EXCEPT ![x] = IF begun[x] = None THEN NewSlot ELSE begun[x]]
    OBVIOUS
  <2>2. NewSlot \in Slots
    BY DEF NewSlot, Slots
  <2>n. NewSlot # None
    BY <2>2
  <2>3. QED
    BY <2>1, <2>2, <2>n, <1>t DEF TypeOK, NewSlot
<1>p. pc'[w] = "slot" /\ \A v \in Workers \ {w} : pc'[v] = pc[v]
  BY <1>w DEF TypeOK
<1>o. \A d \in Clients : d # c => transaction[d] # x
  BY <1>t DEF AddressesApart
<1>y. \A d \in Clients : transaction[d] # None => transaction[d] \in Transactions
  BY DEF TypeOK
<1>1. TypeOK'
  BY DEF TypeOK, Slots, NewSlot
<1>2. AddressesApart'
  BY DEF TypeOK, AddressesApart
<1>3. SlotsInUse'
  BY DEF TypeOK, SlotsInUse
<1>4. SessionsHad'
  BY DEF TypeOK, NewSlot, SessionsHad, Has, Resolving
<1>5. WorkersInside'
  <2>1. ASSUME NEW d \in Clients, NEW u \in Threads
        PROVE  /\ pc'[<<d, u>>] # "idle" => stage'[d] = "active" /\ begun'[transaction'[d]] # None
               /\ pc'[<<d, u>>] = "begin" =>
                      slot_lock'[transaction'[d]] = <<d, u>> /\ begun'[transaction'[d]].session = None
               /\ pc'[<<d, u>>] = "using" =>
                      using'[<<d, u>>] # None /\ begun'[transaction'[d]].session = using'[<<d, u>>]
               /\ pc'[<<d, u>>] # "using" => using'[<<d, u>>] = None
    <3> <<d, u>> \in Workers
      BY DEF Workers
    <3>1. CASE d = c /\ u = t
      BY <3>1, <1>b, <1>p DEF WorkersInside
    <3>2. CASE d = c /\ u # t
      <4>1. pc'[<<d, u>>] = pc[<<d, u>>]
        BY <3>2, <1>p
      <4>2. QED
        BY <3>2, <4>1, <1>b DEF WorkersInside
    <3>3. CASE d # c
      <4>1. pc'[<<d, u>>] = pc[<<d, u>>]
        BY <3>3, <1>p
      <4>2. pc[<<d, u>>] # "idle" => transaction[d] # None
        BY DEF WorkersInside, AddressesApart
      <4>3. pc[<<d, u>>] # "idle" => begun'[transaction[d]] = begun[transaction[d]]
        BY <3>3, <4>2, <1>b, <1>o, <1>y
      <4>4. QED
        BY <4>1, <4>3, <1>b DEF WorkersInside
    <3>4. QED
      BY <3>1, <3>2, <3>3
  <2>2. ASSUME NEW y \in Transactions, NEW d \in Clients, NEW u \in Threads, slot_lock'[y] = <<d, u>>
        PROVE  pc'[<<d, u>>] = "begin" /\ transaction'[d] = y
    <3>1. pc[<<d, u>>] = "begin" /\ transaction[d] = y /\ <<d, u>> \in Workers
      BY <2>2 DEF WorkersInside, Workers
    <3>2. QED
      BY <3>1, <1>p
  <2>3. QED
    BY <2>1, <2>2 DEF WorkersInside
<1>6. DdlMarked'
  BY DEF TypeOK, NewSlot, DdlMarked
<1>7. SettlesItsOwn'
  BY DEF TypeOK, SettlesItsOwn
<1>8. QED
  BY <1>1, <1>2, <1>3, <1>4, <1>5, <1>6, <1>7

\* Session enters the slot under its lock, which one worker holds at a time.
LEMMA EnterSlotInv ==
    ASSUME SessionsAssumption, Inv, NEW c \in Clients, NEW t \in Threads, EnterSlot(c, t)
    PROVE  Inv'
<1> USE SessionsAssumption DEF Inv, EnterSlot, clientVars, workerVars, ddlVars, SessionsAssumption
<1>x. DEFINE x == transaction[c]
              w == <<c, t>>
<1>w. w \in Workers
  BY DEF Workers
<1>t. x \in Transactions /\ begun[x] # None /\ stage[c] = "active"
  BY DEF TypeOK, WorkersInside, AddressesApart
<1>b. begun[x].session \in Sessions \cup {None}
  BY <1>t DEF TypeOK, Slots
<1>p. \A v \in Workers \ {w} : pc'[v] = pc[v] /\ using'[v] = using[v]
  BY <1>w DEF TypeOK
<1>1. TypeOK'
  <2>1. CASE begun[x].session # None
    BY <2>1, <1>b, <1>t, <1>w DEF TypeOK
  <2>2. CASE begun[x].session = None
    BY <2>2, <1>t, <1>w DEF TypeOK
  <2>3. QED
    BY <2>1, <2>2
<1>2. AddressesApart'
  BY DEF TypeOK, AddressesApart
<1>3. SlotsInUse'
  BY DEF TypeOK, SlotsInUse
<1>4. SessionsHad'
  BY DEF TypeOK, SessionsHad, Has, Resolving
<1>5. WorkersInside'
  <2>1. ASSUME NEW d \in Clients, NEW u \in Threads
        PROVE  /\ pc'[<<d, u>>] # "idle" => stage'[d] = "active" /\ begun'[transaction'[d]] # None
               /\ pc'[<<d, u>>] = "begin" =>
                      slot_lock'[transaction'[d]] = <<d, u>> /\ begun'[transaction'[d]].session = None
               /\ pc'[<<d, u>>] = "using" =>
                      using'[<<d, u>>] # None /\ begun'[transaction'[d]].session = using'[<<d, u>>]
               /\ pc'[<<d, u>>] # "using" => using'[<<d, u>>] = None
    <3> <<d, u>> \in Workers
      BY DEF Workers
    <3>1. CASE d = c /\ u = t
      <4>1. CASE begun[x].session # None
        <5>1. pc'[w] = "using" /\ using'[w] = begun[x].session
          BY <4>1, <1>w DEF TypeOK
        <5>2. QED
          BY <5>1, <4>1, <3>1, <1>t
      <4>2. CASE begun[x].session = None
        <5>1. pc'[w] = "begin" /\ slot_lock'[x] = w /\ using'[w] = using[w]
          BY <4>2, <1>w, <1>t DEF TypeOK
        <5>2. using[w] = None
          BY DEF WorkersInside
        <5>3. QED
          BY <5>1, <5>2, <4>2, <3>1, <1>t
      <4>3. QED
        BY <4>1, <4>2
    <3>2. CASE ~ (d = c /\ u = t)
      <4>1. pc'[<<d, u>>] = pc[<<d, u>>] /\ using'[<<d, u>>] = using[<<d, u>>]
        BY <3>2, <1>p
      <4>2. pc[<<d, u>>] = "begin" => slot_lock'[transaction[d]] = <<d, u>>
        <5>1. SUFFICES ASSUME pc[<<d, u>>] = "begin"
                       PROVE  slot_lock'[transaction[d]] = <<d, u>>
          OBVIOUS
        <5>2. slot_lock[transaction[d]] = <<d, u>>
          BY <5>1 DEF WorkersInside
        <5>3. transaction[d] # x
          BY <5>2 DEF LockFree
        <5>4. transaction[d] \in Transactions
          BY <5>1 DEF WorkersInside, AddressesApart, TypeOK
        <5>5. QED
          BY <5>2, <5>3, <5>4, <1>t DEF TypeOK
      <4>3. QED
        BY <4>1, <4>2 DEF WorkersInside
    <3>3. QED
      BY <3>1, <3>2
  <2>2. ASSUME NEW y \in Transactions, NEW d \in Clients, NEW u \in Threads, slot_lock'[y] = <<d, u>>
        PROVE  pc'[<<d, u>>] = "begin" /\ transaction'[d] = y
    <3> <<d, u>> \in Workers
      BY DEF Workers
    <3>1. CASE slot_lock'[y] = slot_lock[y]
      <4>1. pc[<<d, u>>] = "begin" /\ transaction[d] = y
        BY <2>2, <3>1 DEF WorkersInside
      <4>2. QED
        BY <4>1, <1>p
    <3>2. CASE slot_lock'[y] # slot_lock[y]
      <4>1. y = x /\ slot_lock'[y] = w /\ pc'[w] = "begin"
        BY <3>2, <1>t, <1>w DEF TypeOK
      <4>2. QED
        BY <4>1, <2>2
    <3>3. QED
      BY <3>1, <3>2
  <2>3. QED
    BY <2>1, <2>2 DEF WorkersInside
<1>6. DdlMarked'
  BY DEF TypeOK, DdlMarked
<1>7. SettlesItsOwn'
  BY DEF TypeOK, SettlesItsOwn
<1>8. QED
  BY <1>1, <1>2, <1>3, <1>4, <1>5, <1>6, <1>7

\* A Begin that throws leaves its slot without a session and without DDL.
LEMMA BeginThrowsInv ==
    ASSUME SessionsAssumption, Inv, NEW c \in Clients, NEW t \in Threads, BeginThrows(c, t)
    PROVE  Inv'
<1> USE SessionsAssumption DEF Inv, BeginThrows, clientVars, workerVars, ddlVars, SessionsAssumption
<1>x. DEFINE x == transaction[c]
              w == <<c, t>>
<1>w. w \in Workers
  BY DEF Workers
<1>t. x \in Transactions
  BY DEF TypeOK, WorkersInside, AddressesApart
<1>p. /\ \A v \in Workers \ {w} : pc'[v] = pc[v]
      /\ pc'[w] = "idle" /\ using[w] = None
      /\ slot_lock'[x] = None /\ \A y \in Transactions \ {x} : slot_lock'[y] = slot_lock[y]
  BY <1>t, <1>w DEF TypeOK, WorkersInside
<1>1. TypeOK'
  BY DEF TypeOK
<1>2. AddressesApart'
  BY DEF TypeOK, AddressesApart
<1>3. SlotsInUse'
  BY DEF TypeOK, SlotsInUse
<1>4. SessionsHad'
  BY DEF TypeOK, SessionsHad, Has, Resolving
<1>5. WorkersInside'
  <2>1. ASSUME NEW d \in Clients, NEW u \in Threads
        PROVE  /\ pc'[<<d, u>>] # "idle" => stage'[d] = "active" /\ begun'[transaction'[d]] # None
               /\ pc'[<<d, u>>] = "begin" =>
                      slot_lock'[transaction'[d]] = <<d, u>> /\ begun'[transaction'[d]].session = None
               /\ pc'[<<d, u>>] = "using" =>
                      using'[<<d, u>>] # None /\ begun'[transaction'[d]].session = using'[<<d, u>>]
               /\ pc'[<<d, u>>] # "using" => using'[<<d, u>>] = None
    <3> <<d, u>> \in Workers
      BY DEF Workers
    <3>1. CASE d = c /\ u = t
      BY <3>1, <1>p
    <3>2. CASE ~ (d = c /\ u = t)
      <4>1. pc'[<<d, u>>] = pc[<<d, u>>]
        BY <3>2, <1>p
      <4>2. pc[<<d, u>>] = "begin" => slot_lock'[transaction[d]] = <<d, u>>
        <5>1. SUFFICES ASSUME pc[<<d, u>>] = "begin"
                       PROVE  slot_lock'[transaction[d]] = <<d, u>>
          OBVIOUS
        <5>2. slot_lock[transaction[d]] = <<d, u>> /\ transaction[d] \in Transactions
          BY <5>1 DEF WorkersInside, AddressesApart, TypeOK
        <5>3. slot_lock[x] = w
          BY DEF WorkersInside
        <5>4. transaction[d] # x
          BY <3>2, <5>2, <5>3
        <5>5. QED
          BY <5>2, <5>4, <1>p
      <4>3. QED
        BY <4>1, <4>2 DEF WorkersInside
    <3>3. QED
      BY <3>1, <3>2
  <2>2. ASSUME NEW y \in Transactions, NEW d \in Clients, NEW u \in Threads, slot_lock'[y] = <<d, u>>
        PROVE  pc'[<<d, u>>] = "begin" /\ transaction'[d] = y
    <3> <<d, u>> \in Workers
      BY DEF Workers
    <3>1. y # x
      BY <2>2, <1>p
    <3>2. pc[<<d, u>>] = "begin" /\ transaction[d] = y
      BY <2>2, <3>1, <1>p DEF WorkersInside
    <3>3. QED
      BY <3>1, <3>2, <1>p
  <2>3. QED
    BY <2>1, <2>2 DEF WorkersInside
<1>6. DdlMarked'
  BY DEF TypeOK, DdlMarked
<1>7. SettlesItsOwn'
  BY DEF TypeOK, SettlesItsOwn
<1>8. QED
  BY <1>1, <1>2, <1>3, <1>4, <1>5, <1>6, <1>7

\* A Begin that returns fills a slot that had none: the lock kept every other worker out.
LEMMA BeginInv ==
    ASSUME SessionsAssumption, Inv, NEW c \in Clients, NEW t \in Threads, NEW s \in Sessions, Begin(c, t, s)
    PROVE  Inv'
<1> USE SessionsAssumption DEF Inv, Begin, clientVars, workerVars, ddlVars, SessionsAssumption
<1>x. DEFINE x == transaction[c]
              w == <<c, t>>
<1>w. w \in Workers
  BY DEF Workers
<1>t. /\ x \in Transactions /\ begun[x] # None /\ stage[c] = "active"
      /\ begun[x].session = None /\ slot_lock[x] = w
  BY DEF TypeOK, WorkersInside, AddressesApart
<1>b. begun[x] \in Slots /\ begun[x].altered = FALSE
  BY <1>t DEF TypeOK, Slots, DdlMarked
<1>p. /\ \A v \in Workers \ {w} : pc'[v] = pc[v] /\ using'[v] = using[v]
      /\ slot_lock'[x] = None /\ \A y \in Transactions \ {x} : slot_lock'[y] = slot_lock[y] /\ begun'[y] = begun[y]
  BY <1>w, <1>t DEF TypeOK
<1>o. \A d \in Clients : d # c => transaction[d] # x
  BY <1>t DEF AddressesApart, TypeOK
<1>y. \A d \in Clients : transaction[d] # None => transaction[d] \in Transactions
  BY DEF TypeOK
<1>D. /\ begun'[x] = [session |-> s, altered |-> FALSE] /\ begun'[x] # None
      /\ using'[w] = s /\ pc'[w] = "using" /\ s # None
      /\ opener'[s] = c /\ \A r \in Sessions \ {s} : opener'[r] = opener[r]
  <2>1. begun'[x] = [begun[x] EXCEPT !.session = s]
    BY <1>t DEF TypeOK
  <2>2. begun'[x] = [session |-> s, altered |-> FALSE]
    BY <2>1, <1>b DEF Slots
  <2>3. begun'[x] \in Slots
    BY <2>1, <1>b DEF Slots
  <2>4. begun'[x] # None
    BY <2>3
  <2>5. using'[w] = s /\ pc'[w] = "using" /\ s # None
    BY <1>w DEF TypeOK
  <2>6. opener'[s] = c /\ \A r \in Sessions \ {s} : opener'[r] = opener[r]
    BY DEF TypeOK
  <2>7. QED
    BY <2>2, <2>4, <2>5, <2>6
<1>E. using[w] = None
  BY DEF WorkersInside
<1>1. TypeOK'
  <2>1. slot_lock' \in [Transactions -> Workers \cup {None}]
    BY DEF TypeOK
  <2>2. [begun[x] EXCEPT !.session = s] \in Slots
    BY <1>b DEF Slots
  <2>3. begun' \in [Transactions -> Slots \cup {None}]
    BY <2>2, <1>t DEF TypeOK
  <2>4. QED
    BY <2>1, <2>3, <1>w DEF TypeOK
<1>2. AddressesApart'
  BY DEF TypeOK, AddressesApart
<1>3. SlotsInUse'
  BY DEF TypeOK, AddressesApart, SlotsInUse, WorkersInside
<1>4. SessionsHad'
  <2>1. \A d \in Clients : released'[d] # None <=> stage'[d] \in Resolving
    BY DEF SessionsHad
  <2>2. ASSUME NEW d \in Clients, NEW r \in Sessions
        PROVE  Has(d, r)' <=> r \in alive' /\ opener'[r] = d
    <3>1. CASE d = c
      <4>1. released'[c] = None /\ stage'[c] = "active" /\ transaction'[c] = x
        BY <1>t DEF SessionsHad, Resolving
      <4>2. Has(c, r)' <=> r = s
        BY <4>1, <1>D DEF Has
      <4>3. ~ Has(c, r)
        BY <1>t DEF Has, SessionsHad, Resolving
      <4>4. r \in alive => opener[r] # c
        BY <4>3 DEF SessionsHad
      <4>5. QED
        BY <3>1, <4>2, <4>4, <1>D
    <3>2. CASE d # c
      <4>1. stage[d] \in {"active", "commit"} => begun'[transaction[d]] = begun[transaction[d]]
        BY <3>2, <1>o, <1>y, <1>p DEF AddressesApart
      <4>2. Has(d, r)' <=> Has(d, r)
        BY <4>1 DEF Has
      <4>3. Has(d, r) <=> r \in alive /\ opener[r] = d
        BY DEF SessionsHad
      <4>4. CASE r = s
        BY <3>2, <4>2, <4>3, <4>4, <1>D
      <4>5. CASE r # s
        BY <4>2, <4>3, <4>5, <1>D
      <4>6. QED
        BY <4>4, <4>5
    <3>3. QED
      BY <3>1, <3>2
  <2>3. \A r \in alive' : opener'[r] # None
    BY <1>D DEF SessionsHad, TypeOK
  <2>4. QED
    BY <2>1, <2>2, <2>3 DEF SessionsHad
<1>5. WorkersInside'
  <2>1. ASSUME NEW d \in Clients, NEW u \in Threads
        PROVE  /\ pc'[<<d, u>>] # "idle" => stage'[d] = "active" /\ begun'[transaction'[d]] # None
               /\ pc'[<<d, u>>] = "begin" =>
                      slot_lock'[transaction'[d]] = <<d, u>> /\ begun'[transaction'[d]].session = None
               /\ pc'[<<d, u>>] = "using" =>
                      using'[<<d, u>>] # None /\ begun'[transaction'[d]].session = using'[<<d, u>>]
               /\ pc'[<<d, u>>] # "using" => using'[<<d, u>>] = None
    <3> <<d, u>> \in Workers
      BY DEF Workers
    <3>1. CASE d = c /\ u = t
      BY <3>1, <1>D, <1>t
    <3>2. CASE d = c /\ u # t
      <4>1. pc'[<<d, u>>] = pc[<<d, u>>] /\ using'[<<d, u>>] = using[<<d, u>>]
        BY <3>2, <1>p
      <4>2. pc[<<d, u>>] # "begin" /\ pc[<<d, u>>] # "using"
        <5>1. <<d, u>> # w
          BY <3>2
        <5>2. QED
          BY <3>2, <5>1, <1>t, <1>w DEF WorkersInside, TypeOK
      <4>3. begun'[x] # None
        BY <1>D
      <4>4. QED
        BY <3>2, <4>1, <4>2, <4>3, <1>t DEF WorkersInside
    <3>3. CASE d # c
      <4>1. pc'[<<d, u>>] = pc[<<d, u>>] /\ using'[<<d, u>>] = using[<<d, u>>]
        BY <3>3, <1>p
      <4>2. pc[<<d, u>>] # "idle" => transaction[d] \in Transactions \ {x}
        BY <3>3, <1>o, <1>y DEF WorkersInside, AddressesApart
      <4>3. pc[<<d, u>>] # "idle" =>
                /\ begun'[transaction[d]] = begun[transaction[d]]
                /\ slot_lock'[transaction[d]] = slot_lock[transaction[d]]
        BY <4>2, <1>p
      <4>4. /\ pc[<<d, u>>] # "idle" => stage[d] = "active" /\ begun[transaction[d]] # None
            /\ pc[<<d, u>>] = "begin" =>
                    slot_lock[transaction[d]] = <<d, u>> /\ begun[transaction[d]].session = None
            /\ pc[<<d, u>>] = "using" =>
                    using[<<d, u>>] # None /\ begun[transaction[d]].session = using[<<d, u>>]
            /\ pc[<<d, u>>] # "using" => using[<<d, u>>] = None
        BY DEF WorkersInside
      <4>5. transaction' = transaction /\ stage' = stage
        OBVIOUS
      <4>6. QED
        BY <4>1, <4>3, <4>4, <4>5
    <3>4. QED
      BY <3>1, <3>2, <3>3
  <2>2. ASSUME NEW y \in Transactions, NEW d \in Clients, NEW u \in Threads, slot_lock'[y] = <<d, u>>
        PROVE  pc'[<<d, u>>] = "begin" /\ transaction'[d] = y
    <3> <<d, u>> \in Workers
      BY DEF Workers
    <3>1. y # x
      BY <2>2, <1>p DEF SessionsAssumption, Workers
    <3>2. slot_lock[y] = <<d, u>>
      BY <2>2, <3>1, <1>p
    <3>3. pc[<<d, u>>] = "begin" /\ transaction[d] = y
      BY <3>2 DEF WorkersInside
    <3>4. QED
      BY <3>1, <3>3, <1>p
  <2>3. QED
    BY <2>1, <2>2 DEF WorkersInside
<1>6. DdlMarked'
  <2>0. begun'[x] # None /\ begun'[x].altered = FALSE
    BY <1>D
  <2>1. ASSUME NEW d \in Clients
        PROVE  /\ stage'[d] \in {"active", "commit"} =>
                      ran_ddl'[d] = (begun'[transaction'[d]] # None /\ begun'[transaction'[d]].altered)
               /\ stage'[d] \in {"resolve", "settle"} => ran_ddl'[d] = (released'[d] \in settling')
    <3>1. CASE d = c
      BY <3>1, <2>0, <1>t, <1>b DEF DdlMarked
    <3>2. CASE d # c
      <4>1. stage[d] \in {"active", "commit"} => begun'[transaction[d]] = begun[transaction[d]]
        BY <3>2, <1>o, <1>y, <1>p DEF AddressesApart
      <4>2. QED
        BY <4>1 DEF DdlMarked
    <3>3. QED
      BY <3>1, <3>2
  <2>2. ASSUME NEW y \in Transactions, begun'[y] # None, begun'[y].altered
        PROVE  begun'[y].session # None
    BY <2>0, <2>2, <1>p DEF DdlMarked
  <2>3. \A z \in settling' : \E d \in Clients : released'[d] = z /\ stage'[d] \in {"resolve", "settle"}
    BY DEF DdlMarked
  <2>4. QED
    BY <2>1, <2>2, <2>3 DEF DdlMarked
<1>7. SettlesItsOwn'
  BY DEF TypeOK, SettlesItsOwn
<1>8. QED
  BY <1>1, <1>2, <1>3, <1>4, <1>5, <1>6, <1>7

\* A Ddl marks the slot its own session is in.
LEMMA UseSessionInv ==
    ASSUME SessionsAssumption, Inv, NEW c \in Clients, NEW t \in Threads, UseSession(c, t)
    PROVE  Inv'
<1> USE SessionsAssumption DEF Inv, UseSession, clientVars, workerVars, ddlVars, SessionsAssumption
<1>x. DEFINE x == transaction[c]
              w == <<c, t>>
<1>w. w \in Workers
  BY DEF Workers
<1>t. /\ x \in Transactions /\ begun[x] # None /\ stage[c] = "active"
      /\ using[w] # None /\ begun[x].session = using[w]
  BY DEF TypeOK, WorkersInside, AddressesApart
<1>b. /\ \A y \in Transactions \ {x} : begun'[y] = begun[y]
      /\ begun'[x] \in Slots /\ begun'[x] # None /\ begun'[x].session = begun[x].session
      /\ begun'[x].altered = begun[x].altered \/ begun'[x].altered
  <2>1. begun[x] \in Slots
    BY <1>t DEF TypeOK
  <2>2. CASE begun' = begun
    BY <2>1, <2>2, <1>t
  <2>3. CASE begun' = [begun EXCEPT ![x].altered = TRUE]
    <3>1. begun'[x] = [begun[x] EXCEPT !.altered = TRUE]
      BY <2>3, <1>t DEF TypeOK
    <3>2. begun'[x] \in Slots /\ begun'[x].session = begun[x].session /\ begun'[x].altered
      BY <2>1, <3>1 DEF Slots
    <3>3. begun'[x] # None
      BY <3>2
    <3>4. QED
      BY <2>3, <3>2, <3>3, <1>t DEF TypeOK
  <2>4. QED
    BY <2>2, <2>3
<1>p. /\ \A v \in Workers \ {w} : pc'[v] = pc[v] /\ using'[v] = using[v]
      /\ pc'[w] = "idle" /\ using'[w] = None
  BY <1>w DEF TypeOK
<1>o. \A d \in Clients : d # c => transaction[d] # x
  BY <1>t DEF AddressesApart, TypeOK
<1>y. \A d \in Clients : transaction[d] # None => transaction[d] \in Transactions
  BY DEF TypeOK
<1>r. /\ \A d \in Clients \ {c} : ran_ddl'[d] = ran_ddl[d]
      /\ \/ begun' = begun /\ ran_ddl' = ran_ddl
         \/ begun'[x].altered /\ ran_ddl'[c]
  BY <1>t DEF TypeOK, Slots
<1>1. TypeOK'
  <2>1. begun' \in [Transactions -> Slots \cup {None}]
    BY <1>b, <1>t DEF TypeOK
  <2>2. QED
    BY <2>1, <1>w DEF TypeOK
<1>2. AddressesApart'
  BY DEF TypeOK, AddressesApart
<1>3. SlotsInUse'
  BY DEF TypeOK, AddressesApart, SlotsInUse, WorkersInside
<1>4. SessionsHad'
  <2>1. \A d \in Clients, s \in Sessions : Has(d, s)' <=> Has(d, s)
    <3>1. SUFFICES ASSUME NEW d \in Clients, NEW s \in Sessions
                   PROVE  Has(d, s)' <=> Has(d, s)
      OBVIOUS
    <3>2. CASE stage[d] \in {"active", "commit"}
      <4>1. /\ begun'[transaction[d]] # None <=> begun[transaction[d]] # None
            /\ begun[transaction[d]] # None => begun'[transaction[d]].session = begun[transaction[d]].session
        <5>1. CASE transaction[d] = x
          BY <5>1, <1>b, <1>t
        <5>2. CASE transaction[d] # x
          <6>1. transaction[d] \in Transactions \ {x}
            BY <3>2, <5>2, <1>y DEF AddressesApart
          <6>2. begun'[transaction[d]] = begun[transaction[d]]
            BY <6>1, <1>b
          <6>3. QED
            BY <6>2
        <5>3. QED
          BY <5>1, <5>2
      <4>2. transaction' = transaction /\ stage' = stage /\ released' = released
        OBVIOUS
      <4>3. QED
        BY <4>1, <4>2 DEF Has
    <3>3. CASE stage[d] \notin {"active", "commit"}
      BY <3>3 DEF Has
    <3>4. QED
      BY <3>2, <3>3
  <2>2. QED
    BY <2>1 DEF SessionsHad
<1>5. WorkersInside'
  <2>1. ASSUME NEW d \in Clients, NEW u \in Threads
        PROVE  /\ pc'[<<d, u>>] # "idle" => stage'[d] = "active" /\ begun'[transaction'[d]] # None
               /\ pc'[<<d, u>>] = "begin" =>
                      slot_lock'[transaction'[d]] = <<d, u>> /\ begun'[transaction'[d]].session = None
               /\ pc'[<<d, u>>] = "using" =>
                      using'[<<d, u>>] # None /\ begun'[transaction'[d]].session = using'[<<d, u>>]
               /\ pc'[<<d, u>>] # "using" => using'[<<d, u>>] = None
    <3> <<d, u>> \in Workers
      BY DEF Workers
    <3>1. CASE d = c /\ u = t
      BY <3>1, <1>p
    <3>2. CASE ~ (d = c /\ u = t)
      <4>1. pc'[<<d, u>>] = pc[<<d, u>>] /\ using'[<<d, u>>] = using[<<d, u>>]
        BY <3>2, <1>p
      <4>2. pc[<<d, u>>] # "idle" =>
                /\ transaction[d] \in Transactions /\ begun'[transaction[d]] # None
                /\ begun'[transaction[d]].session = begun[transaction[d]].session
        BY <1>b, <1>t, <1>y DEF WorkersInside, AddressesApart
      <4>3. QED
        BY <4>1, <4>2 DEF WorkersInside
    <3>3. QED
      BY <3>1, <3>2
  <2>2. ASSUME NEW y \in Transactions, NEW d \in Clients, NEW u \in Threads, slot_lock'[y] = <<d, u>>
        PROVE  pc'[<<d, u>>] = "begin" /\ transaction'[d] = y
    <3> <<d, u>> \in Workers
      BY DEF Workers
    <3>1. pc[<<d, u>>] = "begin" /\ transaction[d] = y
      BY <2>2 DEF WorkersInside
    <3>2. <<d, u>> # w
      BY <3>1
    <3>3. QED
      BY <3>1, <3>2, <1>p
  <2>3. QED
    BY <2>1, <2>2 DEF WorkersInside
<1>6. DdlMarked'
  <2>1. ASSUME NEW d \in Clients
        PROVE  /\ stage'[d] \in {"active", "commit"} =>
                      ran_ddl'[d] = (begun'[transaction'[d]] # None /\ begun'[transaction'[d]].altered)
               /\ stage'[d] \in {"resolve", "settle"} => ran_ddl'[d] = (released'[d] \in settling')
    <3>1. CASE d = c
      <4>1. ran_ddl'[c] = begun'[x].altered
        <5>1. CASE begun' = begun /\ ran_ddl' = ran_ddl
          <6>1. begun[x].altered \in BOOLEAN
            BY <1>t DEF TypeOK, Slots
          <6>2. QED
            BY <5>1, <6>1, <1>t DEF DdlMarked
        <5>2. CASE begun'[x].altered /\ ran_ddl'[c]
          <6>1. begun'[x].altered \in BOOLEAN /\ ran_ddl'[c] \in BOOLEAN
            BY <1>1, <1>b DEF TypeOK, Slots
          <6>2. QED
            BY <5>2, <6>1
        <5>3. QED
          BY <5>1, <5>2, <1>r
      <4>2. begun'[x].altered \in BOOLEAN
        BY <1>b DEF Slots
      <4>3. QED
        BY <3>1, <4>1, <4>2, <1>b, <1>t
    <3>2. CASE d # c
      <4>1. stage[d] \in {"active", "commit"} => begun'[transaction[d]] = begun[transaction[d]]
        BY <3>2, <1>o, <1>y, <1>b DEF AddressesApart
      <4>2. QED
        BY <3>2, <4>1, <1>r DEF DdlMarked
    <3>3. QED
      BY <3>1, <3>2
  <2>2. ASSUME NEW y \in Transactions, begun'[y] # None, begun'[y].altered
        PROVE  begun'[y].session # None
    BY <2>2, <1>b, <1>t DEF DdlMarked
  <2>3. \A s \in settling' : \E d \in Clients : released'[d] = s /\ stage'[d] \in {"resolve", "settle"}
    BY DEF DdlMarked
  <2>4. QED
    BY <2>1, <2>2, <2>3 DEF DdlMarked
<1>7. SettlesItsOwn'
  BY DEF TypeOK, AddressesApart, WorkersInside, SettlesItsOwn
<1>8. QED
  BY <1>1, <1>2, <1>3, <1>4, <1>5, <1>6, <1>7

\* DuckDB ends a transaction once no worker of its statement is left.
LEMMA EndTransactionInv ==
    ASSUME SessionsAssumption, Inv, NEW c \in Clients, EndTransaction(c)
    PROVE  Inv'
<1> USE SessionsAssumption DEF Inv, EndTransaction, clientVars, workerVars, ddlVars, SessionsAssumption
<1>1. TypeOK'
  BY DEF TypeOK, Stages
<1>2. AddressesApart'
  BY DEF TypeOK, AddressesApart
<1>3. SlotsInUse'
  BY DEF TypeOK, SlotsInUse
<1>4. SessionsHad'
  BY DEF TypeOK, SessionsHad, Has, Resolving
<1>5. WorkersInside'
  BY DEF TypeOK, Workers, WorkersInside
<1>6. DdlMarked'
  BY DEF TypeOK, DdlMarked
<1>7. SettlesItsOwn'
  BY DEF TypeOK, SettlesItsOwn
<1>8. QED
  BY <1>1, <1>2, <1>3, <1>4, <1>5, <1>6, <1>7

\* Release takes the slot out and hands its session, and what it altered, to the commit.
LEMMA ReleaseInv ==
    ASSUME SessionsAssumption, Inv, NEW c \in Clients, Release(c)
    PROVE  Inv'
<1> USE SessionsAssumption DEF Inv, Release, clientVars, workerVars, ddlVars, SessionsAssumption
<1>x. DEFINE x == transaction[c]
<1>t. x \in Transactions
  BY DEF TypeOK, AddressesApart
<1>b. begun[x] # None => begun[x] \in Slots /\ begun[x].session \in Sessions \cup {None}
  BY <1>t DEF TypeOK, Slots
<1>1. TypeOK'
  <2>1. begun' \in [Transactions -> Slots \cup {None}] /\ stage' \in [Clients -> Stages]
    BY <1>t DEF TypeOK, Stages
  <2>2. released' \in [Clients -> Sessions \cup {None}]
    BY <1>b DEF TypeOK
  <2>3. settling' \subseteq Sessions
    BY <1>b, <1>t DEF TypeOK, DdlMarked
  <2>4. QED
    BY <2>1, <2>2, <2>3 DEF TypeOK
<1>2. AddressesApart'
  BY DEF TypeOK, AddressesApart
<1>3. SlotsInUse'
  BY DEF TypeOK, SlotsInUse
<1>4. SessionsHad'
  BY DEF TypeOK, SessionsHad, Has, Resolving
<1>5. WorkersInside'
  BY DEF TypeOK, Workers, AddressesApart, WorkersInside
<1>6. DdlMarked'
  BY DEF TypeOK, AddressesApart, SessionsHad, Has, Resolving, DdlMarked
<1>7. SettlesItsOwn'
  BY DEF TypeOK, SettlesItsOwn
<1>8. QED
  BY <1>1, <1>2, <1>3, <1>4, <1>5, <1>6, <1>7

\* The source's Commit or Rollback changes nothing the attach keeps.
LEMMA ResolveInv ==
    ASSUME SessionsAssumption, Inv, NEW c \in Clients, Resolve(c)
    PROVE  Inv'
<1> USE SessionsAssumption DEF Inv, Resolve, clientVars, workerVars, ddlVars, SessionsAssumption
<1>1. TypeOK'
  BY DEF TypeOK, Stages
<1>2. AddressesApart'
  BY DEF TypeOK, AddressesApart
<1>3. SlotsInUse'
  BY DEF TypeOK, SlotsInUse
<1>4. SessionsHad'
  BY DEF TypeOK, SessionsHad, Has, Resolving
<1>5. WorkersInside'
  BY DEF TypeOK, Workers, WorkersInside
<1>6. DdlMarked'
  BY DEF TypeOK, DdlMarked
<1>7. SettlesItsOwn'
  BY DEF TypeOK, SettlesItsOwn
<1>8. QED
  BY <1>1, <1>2, <1>3, <1>4, <1>5, <1>6, <1>7

\* Settled takes what waits under its session's address, which is its transaction's own.
LEMMA SettledInv ==
    ASSUME SessionsAssumption, Inv, NEW c \in Clients, Settled(c)
    PROVE  Inv'
<1> USE SessionsAssumption DEF Inv, Settled, clientVars, workerVars, ddlVars, SessionsAssumption
<1>1. TypeOK'
  BY DEF TypeOK, Stages
<1>2. AddressesApart'
  BY DEF TypeOK, AddressesApart
<1>3. SlotsInUse'
  BY DEF TypeOK, SlotsInUse
<1>4. SessionsHad'
  BY DEF TypeOK, SessionsHad, Has, Resolving
<1>5. WorkersInside'
  BY DEF TypeOK, Workers, WorkersInside
<1>6. DdlMarked'
  BY DEF TypeOK, SessionsHad, Has, Resolving, DdlMarked
<1>7. SettlesItsOwn'
  BY DEF TypeOK, AddressesApart, SessionsHad, Has, Resolving, DdlMarked, SettlesItsOwn
<1>8. QED
  BY <1>1, <1>2, <1>3, <1>4, <1>5, <1>6, <1>7

\* Nothing waits under a session's address when it is destroyed.
LEMMA DestroyInv ==
    ASSUME SessionsAssumption, Inv, NEW c \in Clients, Destroy(c)
    PROVE  Inv'
<1> USE SessionsAssumption DEF Inv, Destroy, clientVars, workerVars, ddlVars, SessionsAssumption
<1>s. \A d \in Clients \ {c} : stage'[d] = stage[d] /\ released'[d] = released[d]
  BY DEF TypeOK
<1>n. stage'[c] = "forget" /\ released'[c] = None
  BY DEF TypeOK
<1>1. TypeOK'
  BY DEF TypeOK, Stages
<1>2. AddressesApart'
  BY DEF TypeOK, AddressesApart
<1>3. SlotsInUse'
  BY DEF TypeOK, SlotsInUse
<1>4. SessionsHad'
  BY DEF TypeOK, SessionsHad, Has, Resolving
<1>5. WorkersInside'
  BY DEF TypeOK, Workers, WorkersInside
<1>6. DdlMarked'
  <2>1. ASSUME NEW d \in Clients
        PROVE  /\ stage'[d] \in {"active", "commit"} =>
                      ran_ddl'[d] = (begun'[transaction'[d]] # None /\ begun'[transaction'[d]].altered)
               /\ stage'[d] \in {"resolve", "settle"} => ran_ddl'[d] = (released'[d] \in settling')
    <3>1. CASE d = c
      BY <3>1, <1>n
    <3>2. CASE d # c
      BY <3>2, <1>s DEF DdlMarked
    <3>3. QED
      BY <3>1, <3>2
  <2>2. ASSUME NEW y \in Transactions, begun'[y] # None, begun'[y].altered
        PROVE  begun'[y].session # None
    BY <2>2 DEF DdlMarked
  <2>3. \A s \in settling' : \E d \in Clients : released'[d] = s /\ stage'[d] \in {"resolve", "settle"}
    BY <1>s DEF DdlMarked
  <2>4. QED
    BY <2>1, <2>2, <2>3 DEF DdlMarked
<1>7. SettlesItsOwn'
  BY DEF TypeOK, SettlesItsOwn
<1>8. QED
  BY <1>1, <1>2, <1>3, <1>4, <1>5, <1>6, <1>7

\* Forget frees the address of a transaction whose slot was released.
LEMMA ForgetInv ==
    ASSUME SessionsAssumption, Inv, NEW c \in Clients, Forget(c)
    PROVE  Inv'
<1> USE SessionsAssumption DEF Inv, Forget, clientVars, workerVars, ddlVars, SessionsAssumption
<1>1. TypeOK'
  BY DEF TypeOK, Stages
<1>2. AddressesApart'
  BY DEF TypeOK, AddressesApart
<1>3. SlotsInUse'
  BY DEF TypeOK, SlotsInUse
<1>4. SessionsHad'
  BY DEF TypeOK, SessionsHad, Has, Resolving
<1>5. WorkersInside'
  BY DEF TypeOK, Workers, WorkersInside
<1>6. DdlMarked'
  BY DEF TypeOK, DdlMarked
<1>7. SettlesItsOwn'
  BY DEF TypeOK, SettlesItsOwn
<1>8. QED
  BY <1>1, <1>2, <1>3, <1>4, <1>5, <1>6, <1>7

\* No client is connected: nothing is begun.
LEMMA InitInv ==
    ASSUME SessionsAssumption, Init
    PROVE  Inv
<1> USE SessionsAssumption DEF Init, SessionsAssumption
<1>1. TypeOK
  BY DEF TypeOK, Workers, Slots, Stages
<1>2. AddressesApart /\ SlotsInUse
  BY DEF AddressesApart, SlotsInUse
<1>3. SessionsHad
  BY DEF SessionsHad, Has, Resolving
<1>4. WorkersInside
  BY DEF WorkersInside, Workers
<1>5. DdlMarked /\ SettlesItsOwn
  BY DEF DdlMarked, SettlesItsOwn
<1>6. QED
  BY <1>1, <1>2, <1>3, <1>4, <1>5 DEF Inv

\* Every step keeps Inv, by the lemma of its action.
LEMMA NextInv ==
    ASSUME SessionsAssumption, Inv, [Next]_vars
    PROVE  Inv'
<1>1. CASE UNCHANGED vars
  BY <1>1 DEF vars, clientVars, workerVars, ddlVars, Inv, TypeOK, AddressesApart, SlotsInUse,
              SessionsHad, Has, WorkersInside, DdlMarked, SettlesItsOwn
<1>2. ASSUME NEW c \in Clients, NEW t \in Threads, AskSession(c, t) \/ Works(c, t)
      PROVE  Inv'
  BY <1>2, SessionsAssumption, AskSessionInv, EnterSlotInv, BeginThrowsInv, BeginInv, UseSessionInv DEF Works
<1>3. ASSUME NEW c \in Clients, StartTransaction(c) \/ EndTransaction(c) \/ Ends(c)
      PROVE  Inv'
  BY <1>3, SessionsAssumption, StartTransactionInv, EndTransactionInv, ReleaseInv, ResolveInv,
     SettledInv, DestroyInv, ForgetInv DEF Ends
<1>4. QED
  BY <1>1, <1>2, <1>3 DEF Next

\* The inductive invariant holds of every behaviour.
THEOREM SpecInv == Spec => []Inv
<1>1. Init => Inv
  BY SessionsAssumption, InitInv
<1>2. Inv /\ [Next]_vars => Inv'
  BY SessionsAssumption, NextInv
<1>3. QED
  BY <1>1, <1>2, PTL DEF Spec

\* What a worker uses is its own transaction's session, begun and not yet destroyed,
\* however the addresses of transactions and sessions are reused.
THEOREM SpecOwnSession == Spec => []OwnSession
<1>1. ASSUME Inv
      PROVE  OwnSession
  <2>1. SUFFICES ASSUME NEW c \in Clients, NEW t \in Threads, using[<<c, t>>] # None
                 PROVE  using[<<c, t>>] \in alive /\ opener[using[<<c, t>>]] = c
    BY DEF OwnSession
  <2>2. using[<<c, t>>] \in Sessions
    BY <1>1, <2>1 DEF Inv, TypeOK, Workers
  <2>3. Has(c, using[<<c, t>>])
    BY <1>1, <2>1 DEF Inv, WorkersInside, Has
  <2>4. QED
    BY <1>1, <2>2, <2>3 DEF Inv, SessionsHad
<1>2. QED
  BY <1>1, SpecInv, PTL

\* Two threads that ask at once begin one session, and every session begun is still
\* in its slot or was handed to the commit that resolves it.
THEOREM SpecNoSessionLost == Spec => []NoSessionLost
<1>1. ASSUME Inv
      PROVE  NoSessionLost
  <2>1. SUFFICES ASSUME NEW s \in alive
                 PROVE  \/ \E c \in Clients : released[c] = s
                        \/ \E x \in live : begun[x] # None /\ begun[x].session = s
    BY DEF NoSessionLost
  <2>2. PICK c \in Clients : opener[s] = c
    BY <1>1 DEF Inv, TypeOK, SessionsHad
  <2>3. Has(c, s)
    BY <1>1, <2>2 DEF Inv, TypeOK, SessionsHad
  <2>4. CASE released[c] = s
    BY <2>4
  <2>5. CASE released[c] # s
    BY <1>1, <2>3, <2>5 DEF Has, Inv, AddressesApart
  <2>6. QED
    BY <2>4, <2>5
<1>2. QED
  BY <1>1, SpecInv, PTL

\* A commit refreshes schemas exactly when its own transaction ran DDL.
THEOREM SpecSettlesItsOwn == Spec => []SettlesItsOwn
<1>1. Inv => SettlesItsOwn
  BY DEF Inv
<1>2. QED
  BY <1>1, SpecInv, PTL
-----------------------------------------------------------------------------
\* A worker that uses a session uses its own client's, so the refinement mapping
\* shows each worker at none or at its own client.
LEMMA UsesOwn ==
    Inv => \A c \in Clients, t \in Threads :
               /\ using[<<c, t>>] = None => Uses[<<c, t>>] = None
               /\ using[<<c, t>>] # None => Uses[<<c, t>>] = c
<1> SUFFICES ASSUME Inv, NEW c \in Clients, NEW t \in Threads
             PROVE  /\ using[<<c, t>>] = None => Uses[<<c, t>>] = None
                    /\ using[<<c, t>>] # None => Uses[<<c, t>>] = c
  OBVIOUS
<1>1. <<c, t>> \in Workers
  BY DEF Workers
<1>2. CASE using[<<c, t>>] = None
  BY <1>1, <1>2 DEF Uses
<1>3. CASE using[<<c, t>>] # None
  <2>1. using[<<c, t>>] \in Sessions
    BY <1>1, <1>3 DEF Inv, TypeOK
  <2>2. Has(c, using[<<c, t>>])
    BY <1>3 DEF Inv, WorkersInside, Has
  <2>3. opener[using[<<c, t>>]] = c
    BY <2>1, <2>2 DEF Inv, SessionsHad
  <2>4. QED
    BY <1>1, <1>3, <2>3 DEF Uses
<1>4. QED
  BY <1>2, <1>3

\* Who uses whose session after a step that begins and destroys none: it changes
\* for the workers whose own call of Session entered or left.
LEMMA UsesKept ==
    ASSUME UNCHANGED <<using, opener>>
    PROVE  Uses' = Uses
BY DEF Uses

\* The sessions of the clients change only when one is begun or destroyed.
LEMMA SessionsKept ==
    ASSUME UNCHANGED <<alive, opener>>
    PROVE  SessionsOf' = SessionsOf
BY DEF SessionsOf

\* A step of one client's stage moves that client's phase alone.
LEMMA PhaseMoves ==
    ASSUME TypeOK, NEW c \in Clients, NEW st, stage' = [stage EXCEPT ![c] = st]
    PROVE  Phases' = [Phases EXCEPT ![c] = PhaseOf(st)]
<1>1. \A d \in Clients : stage'[d] = IF d = c THEN st ELSE stage[d]
  BY DEF TypeOK
<1>2. Phases' = [d \in Clients |-> PhaseOf(stage'[d])]
  BY DEF Phases
<1>3. [Phases EXCEPT ![c] = PhaseOf(st)] = [d \in Clients |-> IF d = c THEN PhaseOf(st) ELSE PhaseOf(stage[d])]
  BY DEF Phases
<1>4. \A d \in Clients : PhaseOf(stage'[d]) = IF d = c THEN PhaseOf(st) ELSE PhaseOf(stage[d])
  BY <1>1
<1>5. QED
  BY <1>2, <1>3, <1>4

\* A transaction without a session left is no transaction to the source.
LEMMA PhaseForgotten ==
    PhaseOf("forget") = "none"
BY DEF PhaseOf

\* A step that keeps a client's phase keeps the phases.
LEMMA PhaseStays ==
    ASSUME TypeOK, NEW c \in Clients, NEW st, stage' = [stage EXCEPT ![c] = st], PhaseOf(st) = PhaseOf(stage[c])
    PROVE  Phases' = Phases
<1>1. Phases' = [Phases EXCEPT ![c] = PhaseOf(st)]
  BY PhaseMoves
<1>2. QED
  BY <1>1 DEF Phases

\* A worker's step of using changes that worker alone.
LEMMA UsesMoves ==
    ASSUME SessionsAssumption, Inv, NEW c \in Clients, NEW t \in Threads, NEW s \in Sessions \cup {None},
           using' = [using EXCEPT ![<<c, t>>] = s], UNCHANGED opener
    PROVE  Uses' = [Uses EXCEPT ![<<c, t>>] = IF s = None THEN None ELSE opener[s]]
<1>1. <<c, t>> \in Workers /\ DOMAIN using = Workers
  BY DEF Workers, Inv, TypeOK
<1>2. QED
  BY <1>1 DEF Uses

-----------------------------------------------------------------------------
\* Each action of the attach is a step of what the source is promised, or none.
\* A transaction starts at whatever address is free.
LEMMA StartTransactionPromised ==
    ASSUME SessionsAssumption, Inv, NEW c \in Clients, StartTransaction(c)
    PROVE  Promise!Start(c)
<1> USE DEF StartTransaction, workerVars
<1>1. Phases[c] = "none" /\ Phases' = [Phases EXCEPT ![c] = "active"]
  BY PhaseMoves DEF Inv, Phases, PhaseOf
<1>2. Uses' = Uses /\ SessionsOf' = SessionsOf
  BY UsesKept, SessionsKept
<1>3. QED
  BY <1>1, <1>2 DEF Promise!Start

\* A worker enters a slot that has a session, which is its client's; one without
\* is about to be given one.
LEMMA EnterSlotPromised ==
    ASSUME SessionsAssumption, Inv, NEW c \in Clients, NEW t \in Threads, EnterSlot(c, t)
    PROVE  Promise!Enter(c, t) \/ UNCHANGED Promise!vars
<1> USE DEF EnterSlot, clientVars, ddlVars
<1>x. DEFINE x == transaction[c]
<1>0. Phases' = Phases /\ SessionsOf' = SessionsOf
  BY SessionsKept DEF Phases
<1>1. CASE begun[x].session # None
  <2>1. stage[c] = "active" /\ begun[x] # None /\ x \in Transactions /\ using[<<c, t>>] = None
    BY DEF Inv, WorkersInside, AddressesApart, TypeOK
  <2>2. begun[x].session \in Sessions
    BY <1>1, <2>1 DEF Inv, TypeOK, Slots
  <2>3. Has(c, begun[x].session)
    BY <1>1, <2>1 DEF Has
  <2>4. begun[x].session \in alive /\ opener[begun[x].session] = c
    BY <2>2, <2>3 DEF Inv, SessionsHad
  <2>5. SessionsOf[c] # {}
    BY <2>4 DEF SessionsOf
  <2>6. Uses' = [Uses EXCEPT ![<<c, t>>] = c]
    BY <1>1, <2>2, <2>4, UsesMoves
  <2>7. Phases[c] = "active" /\ Uses[<<c, t>>] = None
    BY <2>1, UsesOwn DEF Phases, PhaseOf
  <2>8. QED
    BY <1>0, <2>5, <2>6, <2>7 DEF Promise!Enter
<1>2. CASE begun[x].session = None
  BY <1>0, <1>2, UsesKept DEF Promise!vars
<1>3. QED
  BY <1>1, <1>2

\* The source's Begin fills the only slot of a transaction that had no session.
LEMMA BeginPromised ==
    ASSUME SessionsAssumption, Inv, NEW c \in Clients, NEW t \in Threads, NEW s \in Sessions, Begin(c, t, s)
    PROVE  Promise!Begin(c, t, s)
<1> USE DEF Begin, clientVars, ddlVars
<1>1. /\ stage[c] = "active" /\ begun[transaction[c]].session = None
      /\ released[c] = None /\ using[<<c, t>>] = None
  BY DEF Inv, WorkersInside, SessionsHad, Resolving
<1>2. Phases[c] = "active" /\ Phases' = Phases /\ Uses[<<c, t>>] = None
  BY <1>1, UsesOwn DEF Phases, PhaseOf
<1>3. SessionsOf[c] = {}
  <2>1. \A r \in Sessions : ~ Has(c, r)
    BY <1>1, SessionsAssumption DEF Has, SessionsAssumption
  <2>2. QED
    BY <2>1 DEF Inv, TypeOK, SessionsHad, SessionsOf
<1>4. \A d \in Clients : s \notin SessionsOf[d]
  BY DEF SessionsOf
<1>5. SessionsOf' = [SessionsOf EXCEPT ![c] = {s}]
  <2>1. \A d \in Clients : {r \in alive' : opener'[r] = d} = IF d = c THEN {s} ELSE {r \in alive : opener[r] = d}
    <3>1. SUFFICES ASSUME NEW d \in Clients, NEW r
                   PROVE  r \in alive' /\ opener'[r] = d
                            <=> r \in (IF d = c THEN {s} ELSE {q \in alive : opener[q] = d})
      OBVIOUS
    <3>2. CASE r = s
      BY <3>2 DEF Inv, TypeOK
    <3>3. CASE r # s
      <4>1. opener'[r] = opener[r] /\ (r \in alive' <=> r \in alive)
        BY <3>3 DEF Inv, TypeOK
      <4>2. ~ (r \in alive /\ opener[r] = c)
        BY <1>3 DEF SessionsOf
      <4>3. QED
        BY <3>3, <4>1, <4>2
    <3>4. QED
      BY <3>2, <3>3
  <2>2. QED
    BY <2>1 DEF SessionsOf
<1>6. Uses' = [Uses EXCEPT ![<<c, t>>] = c]
  <2>1. <<c, t>> \in Workers /\ DOMAIN using = Workers /\ s # None
    BY SessionsAssumption DEF Workers, Inv, TypeOK, SessionsAssumption
  <2>2. using'[<<c, t>>] = s /\ opener'[s] = c
    BY <2>1 DEF Inv, TypeOK
  <2>3. ASSUME NEW v \in Workers, v # <<c, t>>
        PROVE  /\ using'[v] = using[v]
               /\ using[v] # None => opener'[using[v]] = opener[using[v]]
    <3>1. using'[v] = using[v]
      BY <2>1, <2>3
    <3>2. using[v] # None => using[v] # s
      <4>1. PICK d \in Clients, u \in Threads : v = <<d, u>>
        BY DEF Workers
      <4>2. using[v] # None => using[v] \in Sessions /\ Has(d, using[v])
        BY <4>1 DEF Inv, WorkersInside, Has, TypeOK
      <4>3. QED
        BY <4>2 DEF Inv, SessionsHad
    <3>3. using[v] # None => using[v] \in Sessions
      BY DEF Inv, TypeOK
    <3>4. QED
      BY <3>1, <3>2, <3>3 DEF Inv, TypeOK
  <2>4. \A v \in Workers : (IF using'[v] = None THEN None ELSE opener'[using'[v]])
                             = IF v = <<c, t>> THEN c ELSE IF using[v] = None THEN None ELSE opener[using[v]]
    BY <2>1, <2>2, <2>3
  <2>5. QED
    BY <2>1, <2>4 DEF Uses
<1>7. QED
  BY <1>2, <1>3, <1>4, <1>5, <1>6 DEF Promise!Begin

\* A use that is over leaves the session, and marks its own transaction at most.
LEMMA UseSessionPromised ==
    ASSUME SessionsAssumption, Inv, NEW c \in Clients, NEW t \in Threads, UseSession(c, t)
    PROVE  Promise!Leave(c, t)
<1> USE DEF UseSession, clientVars
<1>1. Uses[<<c, t>>] = c
  BY UsesOwn DEF Inv, WorkersInside
<1>2. Uses' = [Uses EXCEPT ![<<c, t>>] = None]
  BY UsesMoves
<1>3. Phases' = Phases /\ SessionsOf' = SessionsOf
  BY SessionsKept DEF Phases
<1>4. QED
  BY <1>1, <1>2, <1>3 DEF Promise!Leave

\* A transaction ends when its statement's workers are idle, and so use no session.
LEMMA EndTransactionPromised ==
    ASSUME SessionsAssumption, Inv, NEW c \in Clients, EndTransaction(c)
    PROVE  Promise!End(c)
<1> USE DEF EndTransaction, workerVars, ddlVars
<1>1. Phases[c] = "active" /\ Phases' = [Phases EXCEPT ![c] = "ending"]
  BY PhaseMoves DEF Inv, Phases, PhaseOf
<1>2. \A t \in Threads : Uses[<<c, t>>] = None
  BY UsesOwn DEF Inv, WorkersInside
<1>3. Uses' = Uses /\ SessionsOf' = SessionsOf
  BY UsesKept, SessionsKept
<1>4. QED
  BY <1>1, <1>2, <1>3 DEF Promise!End

\* Release keeps the session; a transaction without one is over.
LEMMA ReleasePromised ==
    ASSUME SessionsAssumption, Inv, NEW c \in Clients, Release(c)
    PROVE  Promise!Close(c) \/ UNCHANGED Promise!vars
<1> USE DEF Release, workerVars, ddlVars
<1>x. DEFINE slot == begun[transaction[c]]
<1>0. Uses' = Uses /\ SessionsOf' = SessionsOf /\ Phases[c] = "ending"
  BY UsesKept, SessionsKept DEF Phases, PhaseOf
<1>1. CASE slot = None \/ slot.session = None
  <2>1. Phases' = [Phases EXCEPT ![c] = "none"]
    <3>1. stage' = [stage EXCEPT ![c] = "forget"]
      BY <1>1
    <3>2. TypeOK
      BY DEF Inv
    <3>3. Phases' = [Phases EXCEPT ![c] = PhaseOf("forget")]
      <4> HIDE DEF Release
      <4> QED
        BY <3>1, <3>2, PhaseMoves
    <3>4. QED
      BY <3>3, PhaseForgotten
  <2>2. \A r \in Sessions : ~ Has(c, r)
    BY <1>1, SessionsAssumption DEF Has, Inv, SessionsHad, Resolving, SessionsAssumption
  <2>3. SessionsOf[c] = {}
    BY <2>2 DEF Inv, TypeOK, SessionsHad, SessionsOf
  <2>4. SessionsOf' = [SessionsOf EXCEPT ![c] = {}]
    BY <1>0, <2>3 DEF SessionsOf
  <2>5. QED
    BY <1>0, <2>1, <2>3, <2>4 DEF Promise!Close
<1>2. CASE ~ (slot = None \/ slot.session = None)
  <2>1. Phases' = Phases
    BY <1>2, PhaseStays DEF Inv, PhaseOf
  <2>2. QED
    BY <1>0, <2>1 DEF Promise!vars
<1>3. QED
  BY <1>1, <1>2

\* The source's Commit or Rollback comes once, for a transaction with a session.
LEMMA ResolvePromised ==
    ASSUME SessionsAssumption, Inv, NEW c \in Clients, Resolve(c)
    PROVE  Promise!Resolve(c)
<1> USE DEF Resolve, workerVars, ddlVars
<1>1. Phases[c] = "ending" /\ Phases' = [Phases EXCEPT ![c] = "resolved"]
  BY PhaseMoves DEF Inv, Phases, PhaseOf
<1>2. SessionsOf[c] # {}
  <2>1. released[c] \in Sessions /\ Has(c, released[c])
    BY DEF Inv, TypeOK, SessionsHad, Resolving, Has
  <2>2. QED
    BY <2>1 DEF Inv, SessionsHad, SessionsOf
<1>3. Uses' = Uses /\ SessionsOf' = SessionsOf
  BY UsesKept, SessionsKept
<1>4. QED
  BY <1>1, <1>2, <1>3 DEF Promise!Resolve

\* What waits under the session's address is there exactly if the transaction ran DDL.
LEMMA SettledPromised ==
    ASSUME SessionsAssumption, Inv, NEW c \in Clients, Settled(c)
    PROVE  Promise!Settle(c)
<1> USE DEF Settled, workerVars
<1>1. Phases[c] = "resolved" /\ Phases' = [Phases EXCEPT ![c] = "settled"]
  BY PhaseMoves DEF Inv, Phases, PhaseOf
<1>2. settled' = [settled EXCEPT ![c] = ran_ddl[c]]
  BY DEF Inv, DdlMarked
<1>3. Uses' = Uses /\ SessionsOf' = SessionsOf
  BY UsesKept, SessionsKept
<1>4. QED
  BY <1>1, <1>2, <1>3 DEF Promise!Settle

\* The session destroyed is the transaction's one session, and nobody uses it.
LEMMA DestroyPromised ==
    ASSUME SessionsAssumption, Inv, NEW c \in Clients, Destroy(c)
    PROVE  Promise!Close(c)
<1> USE DEF Destroy, workerVars, ddlVars
<1>x. DEFINE s == released[c]
<1>1. Phases[c] = "settled" /\ Phases' = [Phases EXCEPT ![c] = "none"]
  <2>1. Phases[c] = "settled"
    BY DEF Phases, PhaseOf
  <2>2. Phases' = [Phases EXCEPT ![c] = "none"]
    BY PhaseMoves, PhaseForgotten DEF Inv
  <2>3. QED
    BY <2>1, <2>2
<1>2. s \in Sessions /\ s \in alive /\ opener[s] = c
  <2>1. s \in Sessions /\ Has(c, s)
    BY DEF Inv, TypeOK, SessionsHad, Resolving, Has
  <2>2. QED
    BY <2>1 DEF Inv, SessionsHad
<1>3. \A r \in alive : opener[r] = c => r = s
  BY DEF Inv, TypeOK, SessionsHad, Has
<1>4. SessionsOf' = [SessionsOf EXCEPT ![c] = {}]
  <2>1. \A d \in Clients : {r \in alive' : opener'[r] = d} = IF d = c THEN {} ELSE {r \in alive : opener[r] = d}
    <3>1. SUFFICES ASSUME NEW d \in Clients, NEW r
                   PROVE  r \in alive' /\ opener'[r] = d
                            <=> r \in (IF d = c THEN {} ELSE {q \in alive : opener[q] = d})
      OBVIOUS
    <3>2. CASE r = s
      BY <3>2, <1>2
    <3>3. CASE r # s
      <4>1. opener'[r] = opener[r] /\ (r \in alive' <=> r \in alive)
        BY <3>3 DEF Inv, TypeOK
      <4>2. QED
        BY <3>3, <4>1, <1>3
    <3>4. QED
      BY <3>2, <3>3
  <2>2. QED
    BY <2>1 DEF SessionsOf
<1>5. Uses' = Uses
  <2>1. ASSUME NEW v \in Workers, using[v] # None
        PROVE  opener'[using[v]] = opener[using[v]]
    <3>1. PICK d \in Clients, u \in Threads : v = <<d, u>>
      BY DEF Workers
    <3>2. using[v] \in Sessions /\ Has(d, using[v]) /\ stage[d] = "active"
      BY <2>1, <3>1 DEF Inv, WorkersInside, Has, TypeOK
    <3>3. opener[using[v]] = d /\ d # c
      BY <3>2 DEF Inv, SessionsHad
    <3>4. using[v] # s
      BY <1>2, <3>3
    <3>5. QED
      BY <3>2, <3>4 DEF Inv, TypeOK
  <2>2. QED
    BY <2>1 DEF Uses
<1>6. QED
  BY <1>1, <1>4, <1>5 DEF Promise!Close

\* Asking for a slot, a Begin that throws and freeing the transaction are not the
\* source's business.
LEMMA UnseenPromised ==
    ASSUME SessionsAssumption, Inv, NEW c \in Clients,
           \/ \E t \in Threads : AskSession(c, t) \/ BeginThrows(c, t)
           \/ Forget(c)
    PROVE  UNCHANGED Promise!vars
<1>1. Uses' = Uses /\ SessionsOf' = SessionsOf
  BY UsesKept, SessionsKept DEF AskSession, BeginThrows, Forget, workerVars
<1>2. Phases' = Phases
  <2>1. CASE \E t \in Threads : AskSession(c, t) \/ BeginThrows(c, t)
    BY <2>1 DEF AskSession, BeginThrows, clientVars, Phases
  <2>2. CASE Forget(c)
    BY <2>2, PhaseStays DEF Forget, Inv, PhaseOf
  <2>3. QED
    BY <2>1, <2>2
<1>3. ran_ddl' = ran_ddl /\ settled' = settled
  BY DEF AskSession, BeginThrows, Forget, ddlVars
<1>4. QED
  BY <1>1, <1>2, <1>3 DEF Promise!vars

\* Nobody is connected, in the attach as in the promise.
LEMMA InitPromised ==
    ASSUME SessionsAssumption, Init
    PROVE  Promise!Init
<1>1. Phases = [c \in Clients |-> "none"]
  BY DEF Init, Phases, PhaseOf
<1>2. SessionsOf = [c \in Clients |-> {}]
  BY DEF Init, SessionsOf
<1>3. Uses = [w \in Clients \X Threads |-> None]
  BY DEF Init, Uses, Workers
<1>4. QED
  BY <1>1, <1>2, <1>3 DEF Init, Promise!Init

\* Every step is a promised one or leaves what is promised as it was.
LEMMA NextPromised ==
    ASSUME SessionsAssumption, Inv, [Next]_vars
    PROVE  [Promise!Next]_(Promise!vars)
<1>1. CASE UNCHANGED vars
  BY <1>1 DEF vars, clientVars, workerVars, ddlVars, Promise!vars, Phases, SessionsOf, Uses
<1>2. ASSUME NEW c \in Clients, NEW t \in Threads, AskSession(c, t) \/ Works(c, t)
      PROVE  [Promise!Next]_(Promise!vars)
  BY <1>2, SessionsAssumption, UnseenPromised, EnterSlotPromised, BeginPromised, UseSessionPromised
     DEF Works, Promise!Next
<1>3. ASSUME NEW c \in Clients, StartTransaction(c) \/ EndTransaction(c) \/ Ends(c)
      PROVE  [Promise!Next]_(Promise!vars)
  BY <1>3, SessionsAssumption, UnseenPromised, StartTransactionPromised, EndTransactionPromised, ReleasePromised,
     ResolvePromised, SettledPromised, DestroyPromised
     DEF Ends, Promise!Next
<1>4. QED
  BY <1>1, <1>2, <1>3 DEF Next

\* The attach's slots, locks and reused addresses implement what a source is
\* promised of transactions: one Begin, every use through its session, one Commit
\* or Rollback, the refresh of its own DDL, and then its destruction.
THEOREM SessionsImplementTransactions == Spec => ImplementsTransactions
<1>1. Init => Promise!Init
  BY SessionsAssumption, InitPromised
<1>2. Inv /\ [Next]_vars => [Promise!Next]_(Promise!vars)
  BY SessionsAssumption, NextPromised
<1>3. QED
  BY <1>1, <1>2, SpecInv, PTL DEF Spec, ImplementsTransactions, Promise!Spec
=============================================================================
