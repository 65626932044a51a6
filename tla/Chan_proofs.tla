----------------------------- MODULE Chan_proofs -----------------------------
(***************************************************************************)
(* The channel of Chan.jg, for any number of coroutines and any limit: its *)
(* lists name exactly those who wait, no wakeup is lost, and an unbuffered *)
(* channel hands over.                                                     *)
(*                                                                         *)
(* Nobody who waits is resumed by an operation unless it can go on at      *)
(* once, and nobody else goes on before it: while an item and a waiting    *)
(* reader, or a place and a waiting writer, are there together, the one    *)
(* that was woken up has the processor.                                    *)
(***************************************************************************)
EXTENDS Chan, Lists

USE StackAssumption, TasksAssumption, MaxLimitAssumption

-----------------------------------------------------------------------------
(* The switches: the stacks below the one at the top are distinct and run; *)
(* only the coroutine at the top runs inside await() or put().             *)
Types ==
    /\ life \in [Coro -> {"ready", "running", "dead"}]
    /\ under \in [Coro -> Stacks \cup {Nil}] /\ top \in Stacks
    /\ pc \in [Coro -> {"run", "await", "put"}]

Switching ==
    /\ top # Main => life[top] = "running"
    /\ \A c \in Coro :
        /\ IF life[c] = "running" 
           THEN under[c] = Main \/ (under[c] \in Coro /\ life[under[c]] = "running")
           ELSE under[c] = Nil
        /\ under[c] # top
    /\ \A c, d \in Coro : under[c] = under[d] /\ under[c] # Nil => c = d
    /\ \A c \in Coro : pc[c] # "run" => c = top \/ life[c] = "ready"

(* The processor goes down to a stack that is in no operation.             *)
LEMMA LeaveSwitches ==
  ASSUME Types, Switching, NEW c \in Coro, NEW l \in {"ready", "dead"}, Leave(c, l),
         NEW p \in {"run", "await", "put"}, pc' = [pc EXCEPT ![c] = p],
         p # "run" => l = "ready"
  PROVE  /\ Types' /\ Switching'
         /\ top' # c
         /\ top' # Main => pc'[top'] = "run"
         /\ life' = [life EXCEPT ![c] = l]
<1> USE DEF Types
<1>1. /\ top = c /\ life' = [life EXCEPT ![c] = l] /\ top' = under[c]
      /\ under' = [under EXCEPT ![c] = Nil]
  BY DEF Leave
<1>2. life[c] = "running" /\ under[c] # c /\ under[c] \in Stacks
  BY <1>1 DEF Switching, Stacks
<1>3. Types'
  BY <1>1, <1>2
<1>4. top' # Main => top' \in Coro /\ top' # c /\ life[top'] = "running"
  BY <1>1, <1>2 DEF Switching, Stacks
<1>5. \A d \in Coro : pc[d] # "run" /\ d # c => life[d] = "ready"
  BY <1>1 DEF Switching
<1>6. top' # Main => pc'[top'] = "run"
  BY <1>1, <1>4, <1>5
<1>7. Switching'
  <2>1. top' # Main => life'[top'] = "running"
    BY <1>1, <1>4
  <2>2. ASSUME NEW d \in Coro
        PROVE  /\ IF life'[d] = "running" 
                  THEN under'[d] = Main \/ (under'[d] \in Coro /\ life'[under'[d]] = "running")
                  ELSE under'[d] = Nil
               /\ under'[d] # top'
    <3>1. CASE d = c
      BY <1>1, <1>2, <3>1 DEF Stacks
    <3>2. CASE d # c
      <4>1. /\ life'[d] = life[d] /\ under'[d] = under[d] /\ under[d] # c
        BY <1>1, <3>2 DEF Switching
      <4>2. under[d] # under[c] \/ under[d] = Nil
        BY <3>2 DEF Switching
      <4>3. IF life[d] = "running" 
           THEN under[d] = Main \/ (under[d] \in Coro /\ life[under[d]] = "running")
           ELSE under[d] = Nil
        BY DEF Switching
      <4>4. under[d] \in Coro => life'[under[d]] = life[under[d]]
        BY <1>1, <4>1
      <4> QED
        BY <1>1, <1>2, <4>1, <4>2, <4>3, <4>4 DEF Stacks
    <3> QED
      BY <3>1, <3>2
  <2>3. \A d, e \in Coro : under'[d] = under'[e] /\ under'[d] # Nil => d = e
    BY <1>1 DEF Switching
  <2>4. \A d \in Coro : pc'[d] # "run" => d = top' \/ life'[d] = "ready"
    BY <1>1, <1>5
  <2> QED
    BY <2>1, <2>2, <2>3, <2>4 DEF Switching
<1> QED
  BY <1>1, <1>2, <1>3, <1>6, <1>7

(* The stack at the top, in no operation, resumes a coroutine.             *)
LEMMA CallSwitches ==
  ASSUME Types, Switching, NEW d \in Coro, Call(d), pc' \in [Coro -> {"run", "await", "put"}],
         \A c \in Coro : IF c = top THEN pc'[c] = "run" ELSE pc'[c] = pc[c]
  PROVE  Types' /\ Switching' /\ life' = [life EXCEPT ![d] = "running"] /\ top' = d
<1> USE DEF Types
<1>1. /\ life[d] = "ready" /\ life' = [life EXCEPT ![d] = "running"] /\ top' = d
      /\ under' = [under EXCEPT ![d] = top]
  BY DEF Call, Enter
<1>2. Types'
  BY <1>1 DEF Stacks
<1>3. d # top /\ \A c \in Coro : under[c] # d
  BY <1>1 DEF Switching, Stacks
<1>4. Switching'
  <2>1. top' # Main => life'[top'] = "running"
    BY <1>1
  <2>2. ASSUME NEW c \in Coro
        PROVE  /\ IF life'[c] = "running"
                  THEN under'[c] = Main \/ (under'[c] \in Coro /\ life'[under'[c]] = "running")
                  ELSE under'[c] = Nil
               /\ under'[c] # top'
    <3>1. CASE c = d
      <4>1. top = Main \/ (top \in Coro /\ life'[top] = "running")
        BY <1>1, <1>3 DEF Switching, Stacks
      <4> QED
        BY <1>1, <1>3, <3>1, <4>1
    <3>2. CASE c # d
      BY <1>1, <1>3, <3>2 DEF Switching
    <3> QED
      BY <3>1, <3>2
  <2>3. \A c, e \in Coro : under'[c] = under'[e] /\ under'[c] # Nil => c = e
    BY <1>1 DEF Switching
  <2>4. \A c \in Coro : pc'[c] # "run" => c = top' \/ life'[c] = "ready"
    BY <1>1 DEF Switching
  <2> QED
    BY <2>1, <2>2, <2>3, <2>4 DEF Switching
<1> QED
  BY <1>1, <1>2, <1>4

(* The stack at the top, in no operation, wakes up the first of a list.    *)
LEMMA WakeSwitches ==
  ASSUME Types, Switching, NEW list \in Seq(Coro), Wake(list), NEW c \in Coro, top = c,
         pc' = [pc EXCEPT ![c] = "run"]
  PROVE  /\ Types' /\ Switching' /\ pc'[c] = "run"
         /\ Woken(list) \in Seq(Coro)
         /\ Members(Woken(list)) \subseteq Members(list)
         /\ \/ top' = c /\ UNCHANGED life
            \/ /\ list # << >> /\ top' = Head(list) /\ life[Head(list)] = "ready"
               /\ life' = [life EXCEPT ![Head(list)] = "running"]
         /\ list # << >> /\ life[Head(list)] = "ready" => top' = Head(list)
<1> USE DEF Types
<1>1. /\ Woken(list) \in Seq(Coro) /\ Members(Woken(list)) \subseteq Members(list)
      /\ list # << >> => Head(list) \in Coro
  BY TailMembers DEF Woken
<1>2. pc' \in [Coro -> {"run", "await", "put"}] /\ pc'[c] = "run"
  OBVIOUS
<1>3. CASE list # << >> /\ life[Head(list)] = "ready"
  <2>1. Call(Head(list))
    BY <1>3 DEF Wake, Resume
  <2> QED
    BY <1>1, <1>2, <1>3, <2>1, CallSwitches
<1>4. CASE list = << >> \/ life[Head(list)] # "ready"
  <2>1. UNCHANGED stackVars
    BY <1>4 DEF Wake, Resume
  <2>2. Types' /\ Switching'
    BY <1>2, <2>1 DEF Switching, stackVars
  <2> QED
    BY <1>1, <1>2, <1>4, <2>1, <2>2 DEF stackVars
<1> QED
  BY <1>3, <1>4

-----------------------------------------------------------------------------
(* The inductive invariant.  The list names who waits at p, and is named   *)
(* for it; OnTop(p) says that the processor is where it was woken up.      *)
Listed(list, p) ==
    /\ Simple(list)
    /\ \A c \in Coro : /\ c \in Members(list) => pc[c] = p
                       /\ pc[c] = p /\ life[c] = "ready" => c \in Members(list)

OnTop(p) == top \in Coro /\ pc[top] = p

Fields ==
    /\ limit \in 0 .. MaxLimit
    /\ queue \in Seq(Coro) /\ reader \in Seq(Coro) /\ writer \in Seq(Coro)
    /\ state \in {"OPEN", "CLOSED"}

(* A reader goes on exactly when it was taken off the list; an item that a *)
(* reader waits for is the only one, and that reader has the processor.    *)
Readers ==
    state = "OPEN" =>
        /\ Listed(reader, "await")
        /\ OnTop("await") => (top \in Members(reader) <=> queue = << >>)
        /\ queue # << >> => /\ \A c \in Coro : pc[c] = "await" => OnTop("await")
                            /\ OnTop("await") => Len(queue) = 1
                            /\ limit = 0 => OnTop("await")

(* The same of writers and places, also in a closed channel.               *)
Writers ==
    limit > 0 =>
        /\ Len(queue) <= limit
        /\ Listed(writer, "put")
        /\ OnTop("put") => (top \in Members(writer) <=> Len(queue) = limit)
        /\ Len(queue) < limit => /\ \A c \in Coro : pc[c] = "put" => OnTop("put")
                                 /\ OnTop("put") => Len(queue) = limit - 1

(* No entry of the readers' list, stale or not, is a writer that waits.    *)
Apart == \A c \in Members(reader) : pc[c] # "put"

ChanInv == Types /\ Fields /\ Switching /\ Readers /\ Writers /\ Apart

-----------------------------------------------------------------------------
(* One step of each operation.                                             *)
LEMMA AwaitStep ==
  ASSUME ChanInv, NEW c \in Coro, Await(c)
  PROVE  ChanInv'
<1> USE DEF Types, Fields
<1>1. /\ top = c /\ pc[c] = "run" /\ queue = << >> /\ state = "OPEN"
      /\ reader' = Append(reader, c) /\ pc' = [pc EXCEPT ![c] = "await"]
      /\ UNCHANGED <<limit, queue, state, writer>> /\ Leave(c, "ready")
  BY DEF Await, At, ReadBlocks, YieldAt
<1>2. /\ Types' /\ Switching' /\ top' # c
      /\ top' # Main => pc'[top'] = "run"
      /\ life' = [life EXCEPT ![c] = "ready"]
  BY <1>1, LeaveSwitches DEF ChanInv
<1>3. Fields' /\ Members(reader') = Members(reader) \cup {c}
  BY <1>1, AppendMembers DEF ChanInv
<1>4. ~ OnTop("await")' /\ ~ OnTop("put")'
  BY <1>2 DEF OnTop
<1>5. Readers'
  <2>1. Simple(reader')
    BY <1>1, AppendMembers DEF ChanInv, Readers, Listed
  <2>2. Listed(reader, "await")'
    BY <1>1, <1>2, <1>3, <2>1 DEF ChanInv, Readers, Listed
  <2> QED
    BY <1>1, <1>4, <2>2 DEF Readers
<1>6. Writers'
  <2>1. limit > 0 => Listed(writer, "put")'
    BY <1>1, <1>2 DEF ChanInv, Writers, Listed
  <2>2. limit > 0 /\ Len(queue) < limit => \A d \in Coro : pc'[d] # "put"
    BY <1>1 DEF ChanInv, Writers, OnTop
  <2> QED
    BY <1>1, <1>4, <2>1, <2>2 DEF ChanInv, Writers
<1>7. Apart'
  BY <1>1, <1>3 DEF ChanInv, Apart, Members
<1> HIDE DEF Types, Fields
<1> QED
  BY <1>2, <1>3, <1>5, <1>6, <1>7 DEF ChanInv

LEMMA PutWaitStep ==
  ASSUME ChanInv, NEW c \in Coro, PutWait(c)
  PROVE  ChanInv'
<1> USE DEF Types, Fields
<1>1. /\ top = c /\ pc[c] = "run" /\ PutBlocks /\ state = "OPEN"
      /\ writer' = Append(writer, c) /\ pc' = [pc EXCEPT ![c] = "put"]
      /\ UNCHANGED <<limit, queue, state, reader>> /\ Leave(c, "ready")
  BY DEF PutWait, At, YieldAt
<1>2. /\ Types' /\ Switching' /\ top' # c
      /\ top' # Main => pc'[top'] = "run"
      /\ life' = [life EXCEPT ![c] = "ready"]
  BY <1>1, LeaveSwitches DEF ChanInv
<1>3. Fields' /\ Members(writer') = Members(writer) \cup {c}
  BY <1>1, AppendMembers DEF ChanInv
<1>4. ~ OnTop("await")' /\ ~ OnTop("put")'
  BY <1>2 DEF OnTop
<1>5. Readers'
  <2>1. Listed(reader, "await")'
    BY <1>1, <1>2 DEF ChanInv, Readers, Listed
  <2>2. queue # << >> => limit # 0 /\ \A d \in Coro : pc'[d] # "await"
    BY <1>1 DEF ChanInv, Readers, OnTop
  <2> QED
    BY <1>1, <1>4, <2>1, <2>2 DEF Readers
<1>6. Writers'
  <2>1. limit > 0 => Simple(writer')
    BY <1>1, AppendMembers DEF ChanInv, Writers, Listed
  <2>2. limit > 0 => Listed(writer, "put")'
    BY <1>1, <1>2, <1>3, <2>1 DEF ChanInv, Writers, Listed
  <2>3. limit > 0 => Len(queue) = limit
    BY <1>1 DEF ChanInv, Writers, PutBlocks
  <2> QED
    BY <1>1, <1>4, <2>2, <2>3 DEF ChanInv, Writers
<1>7. Apart'
  <2>1. c \notin Members(reader)
    BY <1>1 DEF ChanInv, Readers, Listed
  <2> QED
    BY <1>1, <2>1 DEF ChanInv, Apart, Members
<1> HIDE DEF Types, Fields
<1> QED
  BY <1>2, <1>3, <1>5, <1>6, <1>7 DEF ChanInv

(* The loops, a yield and the end of a coroutine: the processor goes down. *)
LEMMA LeaveStep ==
  ASSUME ChanInv, NEW c \in Coro, AwaitAgain(c) \/ PutAgain(c) \/ Yield(c) \/ Exit(c)
  PROVE  ChanInv'
<1> USE DEF Types, Fields
<1>1. PICK l \in {"ready", "dead"} :
        /\ top = c /\ Leave(c, l) /\ pc' = pc /\ UNCHANGED chan
        /\ pc[c] # "run" => l = "ready"
  BY DEF AwaitAgain, PutAgain, Yield, Exit, At, YieldAt, ChanInv
<1>2. /\ pc[c] = "await" => queue = << >> /\ state = "OPEN"
      /\ pc[c] = "put" => PutBlocks
  BY DEF AwaitAgain, PutAgain, Yield, Exit, At, ReadBlocks
<1>3. /\ Types' /\ Switching' /\ top' # c
      /\ top' # Main => pc'[top'] = "run"
      /\ life' = [life EXCEPT ![c] = l]
  <2>1. PICK p \in {"run", "await", "put"} :
            pc' = [pc EXCEPT ![c] = p] /\ (p # "run" => l = "ready")
    BY <1>1 DEF ChanInv
  <2>2. Types /\ Switching /\ Leave(c, l) /\ l \in {"ready", "dead"}
    BY <1>1 DEF ChanInv
  <2> HIDE DEF Types, Fields
  <2> QED
    BY <1>1, <2>1, <2>2, LeaveSwitches
<1>4. Fields' /\ UNCHANGED <<limit, queue, state, reader, writer, pc>>
  BY <1>1 DEF ChanInv, chan
<1>5. ~ OnTop("await")' /\ ~ OnTop("put")'
  BY <1>3 DEF OnTop
<1>6. Readers'
  <2>1. state = "OPEN" => Listed(reader, "await")'
    BY <1>1, <1>2, <1>3, <1>4 DEF ChanInv, Readers, Listed, OnTop
  <2>2. state = "OPEN" /\ queue # << >> => limit # 0 /\ \A d \in Coro : pc[d] # "await"
    BY <1>1, <1>2 DEF ChanInv, Readers, OnTop
  <2> QED
    BY <1>4, <1>5, <2>1, <2>2 DEF Readers
<1>7. Writers'
  <2>1. limit > 0 /\ pc[c] = "put" => Len(queue) = limit
    BY <1>2 DEF ChanInv, Writers, PutBlocks
  <2>2. limit > 0 => Listed(writer, "put")'
    BY <1>1, <1>3, <1>4, <2>1 DEF ChanInv, Writers, Listed, OnTop
  <2>3. limit > 0 /\ Len(queue) < limit => \A d \in Coro : pc[d] # "put"
    BY <1>1, <2>1 DEF ChanInv, Writers, OnTop
  <2> QED
    BY <1>4, <1>5, <2>2, <2>3 DEF ChanInv, Writers
<1>8. Apart'
  BY <1>4 DEF ChanInv, Apart
<1> HIDE DEF Types, Fields
<1> QED
  BY <1>3, <1>4, <1>6, <1>7, <1>8 DEF ChanInv

(* The event loop, or a coroutine in no operation, resumes a coroutine.    *)
LEMMA StartStep ==
  ASSUME ChanInv, NEW c \in Coro, Start(c)
  PROVE  ChanInv'
<1> USE DEF Types, Fields
<1>1. /\ Call(c) /\ life[c] = "ready" /\ UNCHANGED <<limit, queue, state, reader, writer, pc>>
      /\ top # Main => pc[top] = "run"
  BY DEF Start, Call, chan
<1>2. Types' /\ Switching' /\ life' = [life EXCEPT ![c] = "running"] /\ top' = c
  BY <1>1, CallSwitches, StackAssumption DEF ChanInv
<1>3. Fields'
  BY <1>1 DEF ChanInv
<1>4. ~ OnTop("await") /\ ~ OnTop("put")
  BY <1>1, StackAssumption DEF OnTop
<1>5. Readers'
  <2>1. state = "OPEN" => Listed(reader, "await")'
    BY <1>1, <1>2 DEF ChanInv, Readers, Listed
  <2>2. state = "OPEN" /\ queue # << >> => limit # 0 /\ \A d \in Coro : pc[d] # "await"
    BY <1>4 DEF ChanInv, Readers
  <2>3. state = "OPEN" /\ pc[c] = "await" => c \in Members(reader)
    BY <1>1 DEF ChanInv, Readers, Listed
  <2> QED
    BY <1>1, <1>2, <2>1, <2>2, <2>3 DEF Readers, OnTop
<1>6. Writers'
  <2>1. limit > 0 => Listed(writer, "put")'
    BY <1>1, <1>2 DEF ChanInv, Writers, Listed
  <2>2. limit > 0 /\ Len(queue) < limit => \A d \in Coro : pc[d] # "put"
    BY <1>4 DEF ChanInv, Writers
  <2>3. limit > 0 /\ pc[c] = "put" => c \in Members(writer) /\ Len(queue) = limit
    BY <1>1, <2>2 DEF ChanInv, Writers, Listed
  <2> QED
    BY <1>1, <1>2, <2>1, <2>2, <2>3 DEF ChanInv, Writers, OnTop
<1>7. Apart'
  BY <1>1 DEF ChanInv, Apart
<1> HIDE DEF Types, Fields
<1> QED
  BY <1>2, <1>3, <1>5, <1>6, <1>7 DEF ChanInv

(* A list of the waiting is emptied from its head, who can run.            *)
LEMMA WokenListed ==
  ASSUME Types, Switching, NEW list \in Seq(Coro), NEW c \in Coro, top = c,
         NEW p \in {"await", "put"}, Listed(list, p), pc[c] # p
  PROVE  /\ Simple(Woken(list))
         /\ list # << >> => /\ Head(list) \in Coro /\ pc[Head(list)] = p
                            /\ life[Head(list)] = "ready"
                            /\ Head(list) \notin Members(Woken(list))
                            /\ Members(list) \ {Head(list)} \subseteq Members(Woken(list))
         /\ list = << >> => \A d \in Coro : pc[d] # p
<1>1. CASE list = << >>
  <2>1. Members(list) = {} /\ Woken(list) = list
    BY <1>1, EmptyMembers DEF Woken
  <2>2. \A d \in Coro : pc[d] = p => life[d] = "ready"
    BY DEF Switching
  <2> QED
    BY <1>1, <2>1, <2>2 DEF Listed
<1>2. CASE list # << >>
  <2>1. /\ Head(list) \in Coro /\ Head(list) \in Members(list)
        /\ Members(list) \ {Head(list)} \subseteq Members(Tail(list))
        /\ Simple(Tail(list)) /\ Head(list) \notin Members(Tail(list))
    BY <1>2, TailMembers DEF Listed
  <2>2. pc[Head(list)] = p /\ life[Head(list)] = "ready"
    BY <2>1 DEF Listed, Switching
  <2> QED
    BY <1>2, <2>1, <2>2 DEF Woken
<1> QED
  BY <1>1, <1>2

LEMMA NextStep ==
  ASSUME ChanInv, NEW c \in Coro, Next(c)
  PROVE  ChanInv'
<1>1. /\ top = c /\ pc[c] \in {"run", "await"} /\ queue # << >> /\ queue' = Tail(queue)
      /\ pc' = [pc EXCEPT ![c] = "run"] /\ writer' = Woken(writer) /\ Wake(writer)
      /\ UNCHANGED <<limit, state, reader>>
  BY DEF Next, At
<1>2. /\ pc \in [Coro -> {"run", "await", "put"}] /\ life \in [Coro -> {"ready", "running", "dead"}]
      /\ writer \in Seq(Coro) /\ queue \in Seq(Coro) /\ limit \in Nat
  BY DEF ChanInv, Types, Fields
<1>3. /\ Types' /\ Switching' /\ pc'[c] = "run" /\ writer' \in Seq(Coro)
      /\ Members(writer') \subseteq Members(writer)
      /\ \/ top' = c /\ UNCHANGED life
         \/ /\ writer # << >> /\ top' = Head(writer) /\ life[Head(writer)] = "ready"
            /\ life' = [life EXCEPT ![Head(writer)] = "running"]
      /\ writer # << >> /\ life[Head(writer)] = "ready" => top' = Head(writer)
  BY <1>1, <1>2, WakeSwitches DEF ChanInv
<1>4. Len(queue') = Len(queue) - 1 /\ Len(queue) \in Nat \ {0} /\ queue' \in Seq(Coro)
  BY <1>1, <1>2, EmptySeq, HeadTailProperties
<1>5. Fields'
  BY <1>1, <1>3, <1>4 DEF ChanInv, Fields
<1>6. /\ \A d \in Coro \ {c} : pc'[d] = pc[d]
      /\ \A d \in Coro : life'[d] = "ready" => life[d] = "ready"
  BY <1>1, <1>2, <1>3
<1>7. Readers'
  <2>1. state = "OPEN" => Listed(reader, "await")'
    BY <1>1, <1>3, <1>6 DEF ChanInv, Readers, Listed, OnTop
  <2>2. state = "OPEN" /\ queue' # << >> => limit # 0 /\ \A d \in Coro : pc'[d] # "await"
    <3>1. state = "OPEN" /\ pc[c] = "await" => Len(queue) = 1
      BY <1>1 DEF ChanInv, Readers, OnTop
    <3>2. ASSUME state = "OPEN", pc[c] = "await" PROVE queue' = << >>
      <4>1. Len(queue) = 1
        BY <3>1, <3>2
      <4>2. Len(queue') = 0
        BY <1>4, <4>1
      <4> QED
        BY <1>4, <4>2, EmptySeq
    <3> QED
      BY <1>1, <1>3, <1>6, <3>2 DEF ChanInv, Readers, OnTop
  <2>3. state = "OPEN" /\ OnTop("await")' => top' \in Members(reader)
    BY <1>1, <1>3, <1>6 DEF ChanInv, Readers, Listed, OnTop
  <2> QED
    BY <1>1, <2>1, <2>2, <2>3 DEF Readers, OnTop
<1>8. Writers'
  <2>1. SUFFICES ASSUME limit > 0 PROVE Writers'
    BY <1>1 DEF Writers
  <2>2. /\ Len(queue) <= limit /\ Listed(writer, "put") /\ ~ OnTop("put")
        /\ Len(queue) < limit => \A d \in Coro : pc[d] # "put"
    BY <1>1, <2>1 DEF ChanInv, Writers, OnTop
  <2>3. /\ Simple(writer')
        /\ writer # << >> => /\ Head(writer) \in Coro /\ pc[Head(writer)] = "put"
                             /\ life[Head(writer)] = "ready"
                             /\ Head(writer) \notin Members(writer')
                             /\ Members(writer) \ {Head(writer)} \subseteq Members(writer')
        /\ writer = << >> => \A d \in Coro : pc[d] # "put"
    BY <1>1, <1>2, <2>2, WokenListed DEF ChanInv
  <2>4. CASE writer = << >>
    <3>1. Members(writer') = {} /\ \A d \in Coro : pc'[d] # "put"
      BY <1>1, <1>2, <1>3, <1>6, <2>3, <2>4, EmptyMembers
    <3> QED
      <4>1. Len(queue') <= limit /\ ~ OnTop("put")'
        BY <1>2, <1>3, <1>4, <2>2, <2>4 DEF OnTop
      <4> QED
        BY <1>1, <2>3, <3>1, <4>1 DEF Writers, Listed
  <2>5. CASE writer # << >>
    <3>1. /\ top' = Head(writer) /\ Head(writer) # c /\ pc'[Head(writer)] = "put"
          /\ life'[Head(writer)] = "running"
      BY <1>1, <1>2, <1>3, <1>6, <2>3, <2>5
    <3>2. Listed(writer, "put")'
      BY <1>1, <1>3, <1>6, <2>2, <2>3, <2>5, <3>1 DEF Listed
    <3>3. Len(queue) = limit
      BY <1>2, <1>4, <2>2, <2>3, <2>5
    <3>4. Len(queue') = limit - 1 /\ ~ (Len(queue') = limit) /\ Len(queue') <= limit
      BY <1>2, <1>4, <3>3
    <3> QED
      BY <1>1, <2>3, <2>5, <3>1, <3>2, <3>4 DEF Writers, OnTop
  <2> QED
    BY <2>4, <2>5
<1>9. Apart'
  BY <1>1, <1>6 DEF ChanInv, Apart, Members
<1> QED
  BY <1>3, <1>5, <1>7, <1>8, <1>9 DEF ChanInv

LEMMA PostStep ==
  ASSUME ChanInv, NEW c \in Coro, Post(c)
  PROVE  ChanInv'
<1>1. /\ top = c /\ pc[c] \in {"run", "put"} /\ ~ PutBlocks /\ queue' = Append(queue, c)
      /\ pc' = [pc EXCEPT ![c] = "run"] /\ reader' = Woken(reader) /\ Wake(reader)
      /\ UNCHANGED <<limit, state, writer>>
  BY DEF Post, At
<1>2. /\ pc \in [Coro -> {"run", "await", "put"}] /\ life \in [Coro -> {"ready", "running", "dead"}]
      /\ reader \in Seq(Coro) /\ queue \in Seq(Coro) /\ limit \in Nat
  BY DEF ChanInv, Types, Fields
<1>3. /\ Types' /\ Switching' /\ pc'[c] = "run" /\ reader' \in Seq(Coro)
      /\ Members(reader') \subseteq Members(reader)
      /\ \/ top' = c /\ UNCHANGED life
         \/ /\ reader # << >> /\ top' = Head(reader) /\ life[Head(reader)] = "ready"
            /\ life' = [life EXCEPT ![Head(reader)] = "running"]
      /\ reader # << >> /\ life[Head(reader)] = "ready" => top' = Head(reader)
  BY <1>1, <1>2, WakeSwitches DEF ChanInv
<1>4. /\ Len(queue') = Len(queue) + 1 /\ Len(queue) \in Nat /\ queue' \in Seq(Coro)
      /\ queue' # << >>
  BY <1>1, <1>2, AppendProperties
<1>5. Fields'
  BY <1>1, <1>3, <1>4 DEF ChanInv, Fields
<1>6. /\ \A d \in Coro \ {c} : pc'[d] = pc[d]
      /\ \A d \in Coro : life'[d] = "ready" => life[d] = "ready"
  BY <1>1, <1>2, <1>3
<1>7. Readers'
  <2>1. SUFFICES ASSUME state = "OPEN" PROVE Readers'
    BY <1>1 DEF Readers
  <2>2. /\ Listed(reader, "await") /\ ~ OnTop("await")
        /\ queue # << >> => limit # 0 /\ \A d \in Coro : pc[d] # "await"
    BY <1>1, <2>1 DEF ChanInv, Readers, OnTop
  <2>3. /\ Simple(reader')
        /\ reader # << >> => /\ Head(reader) \in Coro /\ pc[Head(reader)] = "await"
                             /\ life[Head(reader)] = "ready"
                             /\ Head(reader) \notin Members(reader')
                             /\ Members(reader) \ {Head(reader)} \subseteq Members(reader')
        /\ reader = << >> => \A d \in Coro : pc[d] # "await"
    BY <1>1, <1>2, <2>2, WokenListed DEF ChanInv
  <2>4. CASE reader = << >>
    <3>1. Members(reader') = {} /\ \A d \in Coro : pc'[d] # "await"
      BY <1>1, <1>2, <1>3, <1>6, <2>3, <2>4, EmptyMembers
    <3>2. limit # 0
      BY <1>1, <2>4 DEF PutBlocks
    <3>3. ~ OnTop("await")'
      BY <3>1 DEF OnTop
    <3> QED
      BY <1>1, <2>3, <3>1, <3>2, <3>3 DEF Readers, Listed
  <2>5. CASE reader # << >>
    <3>1. /\ top' = Head(reader) /\ Head(reader) # c /\ pc'[Head(reader)] = "await"
          /\ life'[Head(reader)] = "running"
      BY <1>1, <1>2, <1>3, <1>6, <2>3, <2>5
    <3>2. Listed(reader, "await")'
      BY <1>1, <1>3, <1>6, <2>2, <2>3, <2>5, <3>1 DEF Listed
    <3>3. queue = << >>
      BY <2>2, <2>3, <2>5
    <3>4. Len(queue') = 1 /\ OnTop("await")'
      BY <1>4, <2>3, <2>5, <3>1, <3>3, EmptySeq DEF OnTop
    <3> QED
      BY <1>4, <2>3, <2>5, <3>1, <3>2, <3>4 DEF Readers
  <2> QED
    BY <2>4, <2>5
<1>8. top' # c => top' \in Coro /\ pc'[top'] # "put"
  <2>1. top' # c => top' \in Members(reader) /\ top' \in Coro
    BY <1>2, <1>3, TailMembers
  <2> QED
    BY <1>6, <2>1 DEF ChanInv, Apart
<1>9. Writers'
  <2>1. SUFFICES ASSUME limit > 0 PROVE Writers'
    BY <1>1 DEF Writers
  <2>2. Len(queue) < limit
    BY <1>1, <1>2, <1>4, <2>1 DEF PutBlocks
  <2>3. ~ OnTop("put")'
    BY <1>3, <1>8 DEF OnTop
  <2>4. /\ Listed(writer, "put")
        /\ pc[c] = "put" => c \notin Members(writer) /\ Len(queue) = limit - 1
        /\ pc[c] # "put" => \A d \in Coro : pc[d] # "put"
    <3>1. ~ (Len(queue) = limit)
      BY <1>2, <1>4, <2>2
    <3> QED
      BY <1>1, <2>1, <2>2, <3>1 DEF ChanInv, Writers, OnTop
  <2>5. Listed(writer, "put")'
    BY <1>1, <1>3, <1>6, <2>4 DEF Listed
  <2>6. Len(queue') <= limit
    BY <1>2, <1>4, <2>2
  <2>7. Len(queue') < limit => \A d \in Coro : pc'[d] # "put"
    <3>1. Len(queue') < limit => Len(queue) # limit - 1
      BY <1>2, <1>4
    <3> QED
      BY <1>3, <1>6, <2>4, <3>1
  <2> QED
    BY <1>1, <2>3, <2>5, <2>6, <2>7 DEF Writers
<1>10. Apart'
  BY <1>3, <1>6 DEF ChanInv, Apart, Members
<1> QED
  BY <1>3, <1>5, <1>7, <1>9, <1>10 DEF ChanInv

(* A closed channel wakes up a reader or a writer that finds nothing.      *)
LEMMA CloseStep ==
  ASSUME ChanInv, NEW c \in Coro, Close(c)
  PROVE  ChanInv'
<1>1. /\ top = c /\ pc[c] = "run" /\ pc' = pc /\ state' = "CLOSED"
      /\ reader' = Woken(reader) /\ Wake(reader) /\ UNCHANGED <<limit, queue, writer>>
  BY DEF Close, At
<1>2. /\ pc \in [Coro -> {"run", "await", "put"}] /\ life \in [Coro -> {"ready", "running", "dead"}]
      /\ reader \in Seq(Coro)
  BY DEF ChanInv, Types, Fields
<1>3. /\ Types' /\ Switching' /\ reader' \in Seq(Coro)
      /\ Members(reader') \subseteq Members(reader)
      /\ \/ top' = c /\ UNCHANGED life
         \/ /\ reader # << >> /\ top' = Head(reader) /\ life[Head(reader)] = "ready"
            /\ life' = [life EXCEPT ![Head(reader)] = "running"]
  <2>1. pc' = [pc EXCEPT ![c] = "run"]
    BY <1>1, <1>2
  <2> QED
    BY <1>1, <1>2, <2>1, WakeSwitches DEF ChanInv
<1>4. Fields' /\ Readers'
  BY <1>1, <1>3 DEF ChanInv, Fields, Readers
<1>5. ~ OnTop("put")' /\ ~ OnTop("put")
  <2>1. top' # c => top' \in Members(reader)
    BY <1>2, <1>3, TailMembers
  <2> QED
    BY <1>1, <2>1 DEF ChanInv, Apart, OnTop
<1>6. \A d \in Coro : life'[d] = "ready" => life[d] = "ready"
  BY <1>2, <1>3
<1>7. Writers'
  BY <1>1, <1>5, <1>6 DEF ChanInv, Writers, Listed
<1>8. Apart'
  BY <1>1, <1>3 DEF ChanInv, Apart
<1> QED
  BY <1>3, <1>4, <1>7, <1>8 DEF ChanInv

LEMMA NoMoreStep ==
  ASSUME ChanInv, NEW c \in Coro, NoMore(c)
  PROVE  ChanInv'
<1>1. /\ top = c /\ pc[c] \in {"run", "await"} /\ queue = << >> /\ state = "CLOSED"
      /\ pc' = [pc EXCEPT ![c] = "run"] /\ UNCHANGED <<limit, queue, state, reader>>
  BY DEF NoMore, At, ReadBlocks, ChanInv, Fields
<1>2. /\ pc \in [Coro -> {"run", "await", "put"}] /\ life \in [Coro -> {"ready", "running", "dead"}]
      /\ writer \in Seq(Coro) /\ limit \in Nat
  BY DEF ChanInv, Types, Fields
<1>3. PICK list \in {writer, << >>} :
        /\ Wake(list)
        /\ writer' = IF list = << >> THEN writer ELSE Woken(writer)
  BY DEF NoMore, Wake, Woken
<1>4. /\ Types' /\ Switching' /\ pc'[c] = "run"
      /\ \/ top' = c /\ UNCHANGED life
         \/ /\ list # << >> /\ top' = Head(list) /\ life[Head(list)] = "ready"
            /\ life' = [life EXCEPT ![Head(list)] = "running"]
  <2>1. list \in Seq(Coro)
    BY <1>2, <1>3, EmptySeq
  <2> QED
    BY <1>1, <1>3, <2>1, WakeSwitches DEF ChanInv
<1>5. writer' \in Seq(Coro) /\ Members(writer') \subseteq Members(writer)
  BY <1>2, <1>3, TailMembers DEF Woken
<1>6. Fields' /\ Readers'
  BY <1>1, <1>5 DEF ChanInv, Fields, Readers
<1>7. Writers'
  <2>1. SUFFICES ASSUME limit > 0 PROVE Writers'
    BY <1>1 DEF Writers
  <2>2. Len(queue) = 0 /\ Len(queue) < limit
    BY <1>1, <1>2, <2>1, EmptySeq
  <2>3. \A d \in Coro : pc[d] # "put"
    BY <1>1, <2>1, <2>2 DEF ChanInv, Writers, OnTop
  <2>4. Members(writer) = {}
    <3>1. Members(writer) \subseteq Coro
      BY <1>2 DEF Members
    <3> QED
      BY <2>1, <2>3, <3>1 DEF ChanInv, Writers, Listed
  <2>5. \A d \in Coro : pc'[d] # "put"
    BY <1>1, <1>2, <2>3
  <2>6. Members(writer') = {} /\ writer' = << >>
    BY <1>5, <2>4, EmptyMembers
  <2>7. Listed(writer, "put")' /\ ~ OnTop("put")'
    BY <2>5, <2>6 DEF Listed, Simple, OnTop
  <2> QED
    BY <1>1, <1>2, <2>1, <2>2, <2>5, <2>7 DEF Writers
<1>8. Apart'
  BY <1>1, <1>2 DEF ChanInv, Apart, Members
<1> QED
  BY <1>4, <1>6, <1>7, <1>8 DEF ChanInv

-----------------------------------------------------------------------------
LEMMA InitInv ==
  ASSUME ChanInit
  PROVE  ChanInv
<1>1. Types /\ Switching
  BY DEF ChanInit, Types, Switching, Stacks
<1>2. Fields
  BY EmptySeq DEF ChanInit, Fields
<1>3. Members(<< >>) = {} /\ Simple(<< >>)
  BY DEF Members, Simple
<1>4. Readers /\ Writers /\ Apart
  BY <1>2, <1>3, EmptySeq DEF ChanInit, Fields, Readers, Writers, Apart, Listed, OnTop
<1> QED
  BY <1>1, <1>2, <1>4 DEF ChanInv

LEMMA StepInv ==
  ASSUME ChanInv, [ChanNext]_chanVars
  PROVE  ChanInv'
<1>1. CASE ChanNext
  BY <1>1, AwaitStep, PutWaitStep, LeaveStep, StartStep, NextStep, PostStep, CloseStep,
     NoMoreStep DEF ChanNext, Op
<1>2. CASE UNCHANGED chanVars
  BY <1>2 DEF chanVars, stackVars, chan, ChanInv, Types, Fields, Switching, Readers,
     Writers, Apart, Listed, OnTop
<1> QED
  BY <1>1, <1>2

LEMMA Invariant == ChanSpec => []ChanInv
<1>1. ChanInit => ChanInv
  BY InitInv
<1>2. ChanInv /\ [ChanNext]_chanVars => ChanInv'
  BY StepInv
<1> QED
  BY <1>1, <1>2, PTL DEF ChanSpec

(* The lists of a channel name exactly the coroutines that wait, each      *)
(* once, and its buffer keeps to the limit, whoever resumes whom.          *)
THEOREM WaitersSoundHolds == ChanSpec => []WaitersSound
<1>1. ASSUME ChanInv PROVE WaitersSound
  <2>1. ChanTypeOK
    <3>1. CASE limit > 0
      BY <1>1, <3>1 DEF ChanInv, Types, Fields, Writers, ChanTypeOK
    <3>2. CASE limit = 0
      <4>1. queue = << >> => Len(queue) = 0
        BY EmptySeq
      <4>2. state = "OPEN" /\ queue # << >> => Len(queue) = 1
        BY <1>1, <3>2 DEF ChanInv, Readers
      <4>3. state = "OPEN" => Len(queue) \in {0, 1}
        BY <4>1, <4>2, Zenon
      <4>4. ASSUME NEW n \in {0, 1} PROVE n <= IF limit = 0 THEN 1 ELSE limit
        BY <3>2
      <4>5. state = "OPEN" => Len(queue) <= IF limit = 0 THEN 1 ELSE limit
        BY <4>3, <4>4, Zenon
      <4> QED
        BY <1>1, <3>2, <4>5 DEF ChanInv, Types, Fields, ChanTypeOK
    <3> QED
      BY <1>1, <3>1, <3>2 DEF ChanInv, Fields
  <2>2. ASSUME NEW list \in Seq(Coro), NEW p, Listed(list, p)
        PROVE  Lists(list, {c \in Coro : pc[c] = p})
    <3>1. Members(list) \subseteq Coro
      BY <2>2 DEF Members
    <3> QED
      BY <2>2, <3>1 DEF Listed, Lists, Members, Simple
  <2>3. WaitersListed
    BY <1>1, <2>2 DEF ChanInv, Fields, Readers, Writers, WaitersListed, InAwait, InPut
  <2> QED
    BY <2>1, <2>3 DEF WaitersSound
<1> QED
  BY <1>1, Invariant, PTL

(* No wakeup is lost: when every coroutine has stopped, no reader waits    *)
(* beside an item, and no writer beside a free place.                      *)
THEOREM NoLostWakeupHolds == ChanSpec => []NoLostWakeup
<1>1. ASSUME ChanInv PROVE NoLostWakeup
  <2>1. ASSUME top = Main PROVE ~ OnTop("await") /\ ~ OnTop("put")
    BY <2>1 DEF OnTop
  <2>2. limit \in Nat /\ Len(queue) \in Nat
    BY <1>1, LenProperties DEF ChanInv, Fields
  <2>3. top = Main /\ InAwait # {} /\ state = "OPEN" => queue = << >>
    BY <1>1, <2>1 DEF ChanInv, Readers, InAwait
  <2>4. top = Main /\ InPut # {} /\ limit > 0 => ~ (Len(queue) < limit)
    BY <1>1, <2>1 DEF ChanInv, Writers, InPut
  <2> QED
    BY <2>2, <2>3, <2>4 DEF NoLostWakeup
<1> QED
  BY <1>1, Invariant, PTL

(* An unbuffered channel hands over: while an item is in it, the reader    *)
(* that put() resumed for it has the processor.                            *)
THEOREM HandedOverHolds == ChanSpec => []HandedOver
<1>1. ASSUME ChanInv PROVE HandedOver
  BY <1>1 DEF ChanInv, Readers, OnTop, HandedOver, InAwait
<1> QED
  BY <1>1, Invariant, PTL
=============================================================================
