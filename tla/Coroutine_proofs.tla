-------------------------- MODULE Coroutine_proofs --------------------------
(***************************************************************************)
(* What holds of the coroutines of Coroutine for any number of them.       *)
(***************************************************************************)
EXTENDS Coroutine, SequenceTheorems, FiniteSetTheorems, TLAPS

USE CoroAssumption, NilAssumption

(* Who calls the runtime has the processor; where its calls return to.     *)
LEMMA DoesAt ==
  ASSUME NEW x, NEW op, Does(x, op)
  PROVE  panic = "none" /\ current = x /\ pc[x] \in {"run", "closure"}
  BY DEF Does, At

LEMMA BaseAt ==
  ASSUME NEW x
  PROVE  /\ Base(x) \in {"run", "closure"}
         /\ Base(x) = "closure" => saved[x] # << >>
  BY DEF Base

(* A stack inside a call of the runtime knows the coroutine of that call.  *)
TypeInv ==
    /\ TypeOK
    /\ \A x \in Stacks : /\ pc[x] \in {"resume", "ioresume"} => callee[x] \in Coro
                         /\ pc[x] \in {"destroy", "free"} => reaping[x] \in Coro

LEMMA InitTypeInv == Init => TypeInv
<1> SUFFICES ASSUME Init PROVE TypeInv
  OBVIOUS
<1> USE DEF Init, Stacks
<1>1. unwinding \in [Stacks -> BOOLEAN]
  BY Zenon
<1>8. saved \in [Stacks -> Seq(BOOLEAN)]
  BY EmptySeq
<1>2. exception \in BOOLEAN
  BY Zenon
<1>6. registry \in Seq(Coro)
  BY EmptySeq
<1>7. /\ status \in [Stacks -> {"FREE", "NEW", "RUNNING", "SUSPENDED", "DEAD", "IO"}]
      /\ pc \in [Stacks -> {"run", "resume", "ioresume", "yield", "iowait",
                            "destroy", "free", "closure", "exit"}]
  OBVIOUS
<1>3. /\ callee \in [Stacks -> Coro \cup {Nil}] /\ caller \in [Stacks -> Stacks \cup {Nil}]
      /\ reaping \in [Stacks -> Coro \cup {Nil}]
      /\ refcount \in [Coro -> Int] /\ index \in [Coro -> Nat] /\ held \in [Coro -> Nat]
      /\ waiting \in Int /\ current \in Stacks
  OBVIOUS
<1>4. \A x \in Stacks : pc[x] = "run"
  OBVIOUS
<1>5. panic \in {"none", "inUse", "referenced"}
  OBVIOUS
<1> HIDE DEF Init
<1> QED
  BY <1>1, <1>2, <1>3, <1>4, <1>5, <1>6, <1>7, <1>8 DEF TypeInv, TypeOK, SavedTypeOK

(* The flag to restore is there whenever a destructor ends: a stack that   *)
(* destroys a coroutine has saved the flag, but at the very start.         *)
Reaping ==
    \A x \in Stacks :
        /\ pc[x] = "closure" => saved[x] # << >>
        /\ reaping[x] # Nil =>
            \/ pc[x] = "destroy"
            \/ /\ pc[x] \in {"resume", "free"} /\ saved[x] # << >>
               /\ pc[x] = "resume" => callee[x] = reaping[x]

(* Saving the flag, and restoring it, keep the types.                      *)
LEMMA RaiseFlagType ==
  ASSUME TypeOK, NEW x \in Stacks, RaiseFlag(x)
  PROVE  /\ SavedTypeOK' /\ exception' \in BOOLEAN
         /\ saved'[x] # << >> /\ \A y \in Stacks : y # x => saved'[y] = saved[y]
<1>1. saved[x] \in Seq(BOOLEAN) /\ exception \in BOOLEAN
  BY DEF TypeOK, SavedTypeOK
<1>2. Append(saved[x], exception) \in Seq(BOOLEAN) /\ Append(saved[x], exception) # << >>
  BY <1>1, AppendProperties
<1> QED
  BY <1>1, <1>2 DEF RaiseFlag, TypeOK, SavedTypeOK

LEMMA LastSavedType ==
  ASSUME TypeOK, NEW x \in Stacks, saved[x] # << >>
  PROVE  LastSaved(x) \in BOOLEAN /\ SubSeq(saved[x], 1, Len(saved[x]) - 1) \in Seq(BOOLEAN)
<1>1. saved[x] \in Seq(BOOLEAN)
  BY DEF TypeOK, SavedTypeOK
<1> DEFINE s == saved[x]
<1> HIDE DEF s
<1>2. s \in Seq(BOOLEAN) /\ s # << >> => s[Len(s)] \in BOOLEAN
  BY LenProperties, EmptySeq
<1>3. s \in Seq(BOOLEAN) /\ s # << >> => SubSeq(s, 1, Len(s) - 1) \in Seq(BOOLEAN)
  BY SubSeqProperties, LenProperties, EmptySeq
<1> QED
  BY <1>1, <1>2, <1>3 DEF s, LastSaved

(* Removing an entry leaves an array of coroutines with their indices.     *)
LEMMA UnlistType ==
  ASSUME NEW c \in Coro, index \in [Coro -> Nat], registry \in Seq(Coro), Unlist(c)
  PROVE  registry' \in Seq(Coro) /\ index' \in [Coro -> Nat]
<1> DEFINE n == Len(registry)
           r == [registry EXCEPT ![index[c] + 1] = registry[n]]
<1>1. n \in Nat /\ index[c] \in Nat
  OBVIOUS
<1>2. index' = [index EXCEPT ![registry[n]] = index[c]]
  BY DEF Unlist
<1>3. registry \in [1 .. n -> Coro]
  OBVIOUS
<1>4. \A i \in 1 .. n - 1 : r[i] \in Coro
  BY <1>1, <1>3
<1>5. SubSeq(r, 1, n - 1) \in Seq(Coro)
  <2> HIDE DEF r, n
  <2> QED
    BY <1>1, <1>4, SubSeqProperties
<1>6. index' \in [Coro -> Nat]
  BY <1>1, <1>2
<1> QED
  BY <1>5, <1>6 DEF Unlist

(* Every step keeps the types.                                             *)
LEMMA NextTypeInv == TypeInv /\ Reaping /\ [Next]_vars => TypeInv'
<1> SUFFICES ASSUME TypeInv, Reaping, [Next]_vars PROVE TypeInv'
  OBVIOUS
<1>0. UNCHANGED saved => SavedTypeOK'
  BY Zenon DEF TypeInv, TypeOK, SavedTypeOK
<1> USE <1>0 DEF TypeInv, TypeOK, Stacks, At
<1>1. ASSUME NEW x \in Stacks, NEW c \in Coro, NEW st \in {"NEW", "DEAD"},
             Create(x, c, st)
      PROVE  TypeInv'
  BY <1>1 DEF Create
<1>2. ASSUME NEW x \in Stacks, NEW c \in Coro, Retain(x, c) PROVE TypeInv'
  <2>1. refcount' \in [Coro -> Int] /\ held' \in [Coro -> Nat]
    BY <1>2 DEF Retain
  <2>2. UNCHANGED <<status, caller, current, exception, waiting, pc, callee,
                    reaping, heapVars, panic>>
    BY <1>2 DEF Retain
  <2> QED
    BY <2>1, <2>2 DEF heapVars
<1>3. ASSUME NEW x \in Stacks, NEW c \in Coro, Release(x, c) PROVE TypeInv'
  <2>1. refcount' \in [Coro -> Int] /\ held' \in [Coro -> Nat]
    BY <1>3 DEF Release, Decref
  <2>2. PICK v \in {"run", "closure", "destroy"} : pc' = [pc EXCEPT ![x] = v]
    BY <1>3, BaseAt DEF Release, Decref
  <2>3. reaping' = IF refcount[c] = 1 THEN [reaping EXCEPT ![x] = c] ELSE reaping
    BY <1>3 DEF Release, Decref
  <2>4. pc'[x] = "destroy" => reaping'[x] \in Coro
    <3>1. refcount[c] # 1 => pc'[x] \in {"run", "closure"}
      BY <1>3, BaseAt DEF Release, Decref
    <3> QED
      BY <2>3, <3>1
  <2>5. UNCHANGED <<status, caller, current, exception, waiting, callee, heapVars,
                    panic>>
    BY <1>3 DEF Release
  <2> QED
    BY <2>1, <2>2, <2>3, <2>4, <2>5 DEF heapVars
<1>4. ASSUME NEW x \in Stacks, NEW c \in Coro, Resume(x, c) PROVE TypeInv'
  BY <1>4 DEF Resume, SwapInto, heapVars
<1>5. ASSUME NEW x \in Stacks, ResumeReturn(x) PROVE TypeInv'
  <2>1. callee[x] \in Coro
    BY <1>5 DEF ResumeReturn
  <2>2. caller' \in [Stacks -> Stacks \cup {Nil}]
    BY <1>5 DEF ResumeReturn, CallersAfter
  <2>3. callee' \in [Stacks -> Coro \cup {Nil}]
    BY <1>5 DEF ResumeReturn
  <2>4. refcount' \in [Coro -> Int]
    BY <1>5, <2>1, BaseAt DEF ResumeReturn, Decref
  <2>5. /\ pc' \in [Stacks -> {"run", "resume", "ioresume", "yield",
                              "iowait", "destroy", "free", "closure", "exit"}]
        /\ pc'[x] \notin {"resume", "ioresume"}
        /\ \A y \in Stacks : y # x => pc'[y] = pc[y]
    <3>1. CASE reaping[x] = callee[x]
      BY <1>5, <3>1 DEF ResumeReturn
    <3>2. CASE reaping[x] # callee[x]
      <4>1. PICK v \in {"run", "closure", "destroy"} : pc' = [pc EXCEPT ![x] = v]
        BY <1>5, <3>2, BaseAt DEF ResumeReturn, Decref
      <4> QED
        BY <4>1
    <3> QED
      BY <3>1, <3>2
  <2>6. /\ reaping' \in [Stacks -> Coro \cup {Nil}]
        /\ \A y \in Stacks : y # x => reaping'[y] = reaping[y]
        /\ pc'[x] \in {"destroy", "free"} => reaping'[x] \in Coro
    <3>1. CASE reaping[x] = callee[x]
      BY <1>5, <2>1, <3>1 DEF ResumeReturn
    <3>2. CASE reaping[x] # callee[x]
      <4>1. reaping' = IF refcount[callee[x]] = 1
                       THEN [reaping EXCEPT ![x] = callee[x]] ELSE reaping
        BY <1>5, <3>2 DEF ResumeReturn, Decref
      <4>2. pc'[x] = IF refcount[callee[x]] = 1 THEN "destroy" ELSE Base(x)
        BY <1>5, <3>2 DEF ResumeReturn, Decref
      <4> QED
        BY <2>1, <4>1, <4>2, BaseAt
    <3> QED
      BY <3>1, <3>2
  <2> QED
    BY <1>5, <2>2, <2>3, <2>4, <2>5, <2>6 DEF ResumeReturn, heapVars
<1>6. ASSUME NEW c \in Coro, Yield(c) PROVE TypeInv'
  BY <1>6 DEF Yield, SwapOut, Target, heapVars
<1>7. ASSUME NEW c \in Coro, YieldReturn(c) PROVE TypeInv'
  BY <1>7, BaseAt DEF YieldReturn
<1>8. ASSUME NEW c \in Coro, Catch(c) PROVE TypeInv'
  BY <1>8 DEF Catch
<1>9. ASSUME NEW c \in Coro, Exit(c) PROVE TypeInv'
  BY <1>9 DEF Exit, SwapOut, Target, heapVars
<1>10. ASSUME NEW c \in Coro, IoWait(c) PROVE TypeInv'
  BY <1>10, SMTT(20) DEF IoWait, SwapOut, Target, heapVars
<1>11. ASSUME NEW c \in Coro, IoWaitReturn(c) PROVE TypeInv'
  BY <1>11, BaseAt DEF IoWaitReturn, Decref, heapVars
<1>12. ASSUME NEW c \in Coro, IoResume(c) PROVE TypeInv'
  BY <1>12 DEF IoResume, heapVars
<1>13. CASE IoResumeReturn
  BY <1>13, BaseAt, SMTT(20) DEF IoResumeReturn, Decref, heapVars
<1>14. ASSUME NEW x \in Stacks, DestroySuspended(x) PROVE TypeInv'
  <2>1. RaiseFlag(x) /\ TypeOK
    BY <1>14 DEF DestroySuspended
  <2>2. SavedTypeOK' /\ exception' \in BOOLEAN
    BY <2>1, RaiseFlagType
  <2> QED
    BY <1>14, <2>2, SMTT(20) DEF DestroySuspended, SwapInto
<1>15. ASSUME NEW x \in Stacks, NEW c \in Coro, Free(x, c)
       PROVE  /\ registry' \in Seq(Coro)
              /\ index' \in [Coro -> Nat]
              /\ status' \in [Stacks -> {"FREE", "NEW", "RUNNING", "SUSPENDED",
                                         "DEAD", "IO"}]
              /\ refcount' \in [Coro -> Int]
              /\ reaping' \in [Stacks -> Coro \cup {Nil}]
              /\ pc' \in [Stacks -> {"run", "resume", "ioresume", "yield",
                                     "iowait", "destroy", "free", "closure", "exit"}]
              /\ pc'[x] = "closure" /\ \A y \in Stacks : y # x =>
                     pc'[y] = pc[y] /\ reaping'[y] = reaping[y]
  <2>1. registry' \in Seq(Coro) /\ index' \in [Coro -> Nat]
    BY <1>15, UnlistType DEF Free
  <2>2. status' \in [Stacks -> {"FREE", "NEW", "RUNNING", "SUSPENDED",
                                "DEAD", "IO"}]
    BY <1>15 DEF Free
  <2>4. refcount' \in [Coro -> Int]
    <3>1. refcount \in [Coro -> Int] /\ refcount' = [refcount EXCEPT ![c] = 0]
      BY <1>15 DEF Free
    <3> HIDE DEF TypeInv
    <3> QED
      BY <3>1
  <2>5. reaping' \in [Stacks -> Coro \cup {Nil}]
    BY <1>15 DEF Free
  <2>3. /\ pc' \in [Stacks -> {"run", "resume", "ioresume", "yield",
                               "iowait", "destroy", "free", "closure", "exit"}]
        /\ pc'[x] = "closure" /\ \A y \in Stacks : y # x =>
               pc'[y] = pc[y] /\ reaping'[y] = reaping[y]
    BY <1>15 DEF Free
  <2> QED
    BY <2>1, <2>2, <2>3, <2>4, <2>5
<1>16. ASSUME NEW x \in Stacks, DestroyIdle(x) PROVE TypeInv'
  <2>1. RaiseFlag(x) /\ TypeOK
    BY <1>16 DEF DestroyIdle
  <2>2. SavedTypeOK' /\ exception' \in BOOLEAN
    BY <2>1, RaiseFlagType
  <2> QED
    BY <1>15, <1>16, <2>2 DEF DestroyIdle
<1>17. ASSUME NEW x \in Stacks, DestroyUnwound(x) PROVE TypeInv'
  BY <1>15, <1>17 DEF DestroyUnwound
<1>19. ASSUME NEW x \in Stacks, DestroyEnd(x) PROVE TypeInv'
  <2>1. saved[x] # << >> /\ TypeOK
    BY <1>19 DEF DestroyEnd, Reaping
  <2>2. LastSaved(x) \in BOOLEAN /\ SubSeq(saved[x], 1, Len(saved[x]) - 1) \in Seq(BOOLEAN)
    BY <2>1, LastSavedType
  <2>3. SavedTypeOK' /\ exception' \in BOOLEAN
    BY <1>19, <2>2 DEF DestroyEnd, SavedTypeOK
  <2>4. pc' \in [Stacks -> {"run", "resume", "ioresume", "yield", "iowait",
                            "destroy", "free", "closure", "exit"}]
    BY <1>19 DEF DestroyEnd
  <2>5. /\ pc'[x] \in {"run", "closure"}
        /\ \A y \in Stacks : y # x => pc'[y] = pc[y]
    BY <1>19 DEF DestroyEnd
  <2>6. UNCHANGED <<status, caller, refcount, index, registry, current, waiting,
                    callee, reaping, unwinding, held, panic>>
    BY <1>19 DEF DestroyEnd
  <2> QED
    BY <2>3, <2>4, <2>5, <2>6
<1>18. CASE UNCHANGED vars
  BY <1>18 DEF vars
<1> HIDE DEF TypeInv, TypeOK, Stacks, At
<1> QED
  BY <1>1, <1>2, <1>3, <1>4, <1>5, <1>6, <1>7, <1>8, <1>9, <1>10, <1>11, <1>12,
     <1>13, <1>14, <1>16, <1>17, <1>18, <1>19 DEF Next, Program, Destroy

-----------------------------------------------------------------------------
(* Where every stack stands.  The running coroutines are those that were   *)
(* resumed and have not swapped back: each is in the call of the stack it  *)
(* would swap to, and only the current stack can be in a call that has     *)
(* ended.                                                                  *)
CurrentRuns == current \in Coro => status[current] = "RUNNING"

OthersInCalls ==
    \A x \in Stacks : /\ x # current /\ (x = Main \/ status[x] = "RUNNING")
                           => pc[x] \in {"resume", "ioresume"}
                      /\ pc[x] = "ioresume" => x = Main
                      /\ pc[x] \in {"destroy", "free", "closure"} => x = current

CallsMatch ==
    \A x \in Stacks : pc[x] \in {"resume", "ioresume"} =>
        IF x = current
        THEN status[callee[x]] \in {"SUSPENDED", "DEAD", "IO"}
        ELSE status[callee[x]] = "RUNNING" /\ Target(callee[x]) = x

RunnersCalled ==
    \A c \in Coro : status[c] = "RUNNING" => InCallOf(Target(c), c)

CallersMatch ==
    \A c \in Coro : caller[c] # Nil => pc[caller[c]] = "resume" /\ callee[caller[c]] = c

PlaceMatches ==
    \A c \in Coro :
        /\ status[c] = "FREE" => pc[c] \in {"run", "exit", "yield", "iowait"}
        /\ status[c] = "NEW" => pc[c] = "run"
        /\ status[c] = "DEAD" => pc[c] \in {"run", "exit"}
        /\ status[c] = "SUSPENDED" => pc[c] = "yield"
        /\ status[c] = "IO" => pc[c] = "iowait"
        /\ status[c] = "RUNNING" => pc[c] # "exit"

FreedEnded ==
    \A x \in Stacks : pc[x] = "free" =>
        status[reaping[x]] \in {"SUSPENDED", "DEAD", "IO"}

(* The types of the variables that Control speaks of.                      *)
StackTypes ==
    /\ status \in [Stacks -> {"FREE", "NEW", "RUNNING", "SUSPENDED", "DEAD", "IO"}]
    /\ caller \in [Stacks -> Stacks \cup {Nil}]
    /\ current \in Stacks
    /\ pc \in [Stacks -> {"run", "resume", "ioresume", "yield", "iowait",
                          "destroy", "free", "closure", "exit"}]
    /\ callee \in [Stacks -> Coro \cup {Nil}]
    /\ reaping \in [Stacks -> Coro \cup {Nil}]
    /\ \A x \in Stacks : /\ pc[x] \in {"resume", "ioresume"} => callee[x] \in Coro
                         /\ pc[x] \in {"destroy", "free"} => reaping[x] \in Coro

Control ==
    /\ StackTypes
    /\ CurrentRuns /\ OthersInCalls /\ CallsMatch /\ RunnersCalled
    /\ CallersMatch /\ PlaceMatches /\ FreedEnded

LEMMA InitControl == Init => Control
  BY InitTypeInv DEF Init, Control, StackTypes, TypeInv, TypeOK, CurrentRuns, OthersInCalls, CallsMatch, RunnersCalled,
         CallersMatch, PlaceMatches, FreedEnded, Stacks

(* A coroutine that swaps out leaves the call it was in as the current one. *)
LEMMA SwapOutControl ==
  ASSUME Control, StackTypes', NEW c \in Coro,
         current = c, pc[c] \in {"run", "closure"}, NEW st, NEW at, <<st, at>> \in {<<"SUSPENDED", "yield">>, <<"DEAD", "exit">>,
                                        <<"IO", "iowait">>},
         SwapOut(c, st, at), UNCHANGED <<caller, callee, reaping>>
  PROVE  Control'
<1> USE DEF StackTypes, Stacks, At
<1> DEFINE t == Target(c)
<1>1. /\ status[c] = "RUNNING" /\ c \in Stacks /\ Main \notin Coro
      /\ st \in {"SUSPENDED", "DEAD", "IO"} /\ at \in {"yield", "exit", "iowait"}
  BY DEF Control, CurrentRuns
<1>2. /\ status' = [status EXCEPT ![c] = st] /\ pc' = [pc EXCEPT ![c] = at]
      /\ current' = t /\ caller' = caller /\ callee' = callee /\ reaping' = reaping
  BY DEF SwapOut
<1>3. t \in Stacks /\ pc[t] \in {"resume", "ioresume"} /\ callee[t] = c /\ t # c
  BY <1>1 DEF Control, RunnersCalled, InCallOf, Target
<1>4. \A x \in Stacks : x # c /\ x # t /\ pc[x] \in {"resume", "ioresume"} => callee[x] # c
  BY <1>1, <1>3 DEF Control, CallsMatch
<1>5. \A d \in Coro : Target(d)' = Target(d)
  BY <1>2 DEF Target
<1> HIDE DEF t
<1>6. CurrentRuns'
  BY <1>1, <1>2, <1>3 DEF Control, PlaceMatches, CurrentRuns
<1>7. OthersInCalls'
  BY <1>1, <1>2, <1>3 DEF Control, OthersInCalls
<1>8. CallsMatch'
  BY <1>1, <1>2, <1>3, <1>4, <1>5 DEF Control, CallsMatch
<1>9. RunnersCalled'
  BY <1>1, <1>2, <1>3, <1>5 DEF Control, RunnersCalled, InCallOf, Target
<1>10. CallersMatch'
  BY <1>1, <1>2 DEF Control, CallersMatch
<1>11. PlaceMatches'
  BY <1>1, <1>2 DEF Control, PlaceMatches
<1>12. FreedEnded'
  BY <1>1, <1>2 DEF Control, FreedEnded, OthersInCalls
<1> QED
  BY <1>6, <1>7, <1>8, <1>9, <1>10, <1>11, <1>12 DEF Control

(* Control speaks of six variables only.                                   *)
LEMMA SameControl ==
  ASSUME Control, UNCHANGED <<status, caller, current, pc, callee, reaping>>
  PROVE  Control'
<1> SUFFICES /\ StackTypes' /\ CurrentRuns' /\ OthersInCalls' /\ CallsMatch'
             /\ RunnersCalled' /\ CallersMatch' /\ PlaceMatches' /\ FreedEnded'
  BY DEF Control
<1>1. StackTypes' /\ CurrentRuns' /\ OthersInCalls'
  BY Zenon DEF Control, StackTypes, CurrentRuns, OthersInCalls
<1>2. CallsMatch' /\ RunnersCalled' /\ CallersMatch'
  BY Zenon DEF Control, CallsMatch, RunnersCalled, CallersMatch, InCallOf, Target
<1>3. PlaceMatches' /\ FreedEnded'
  BY Zenon DEF Control, PlaceMatches, FreedEnded
<1> QED
  BY <1>1, <1>2, <1>3

(* A coroutine that is resumed runs in the call of the stack that was      *)
(* current.                                                                *)
LEMMA SwapIntoControl ==
  ASSUME Control, StackTypes', NEW x \in Stacks, NEW c \in Coro, current = x,
         pc[x] \in {"run", "closure", "destroy"}, status[c] \in {"NEW", "SUSPENDED"},
         SwapInto(x, c), UNCHANGED reaping
  PROVE  Control'
<1> USE DEF StackTypes, Stacks
<1>1. /\ status' = [status EXCEPT ![c] = "RUNNING"]
      /\ caller' = [caller EXCEPT ![c] = x] /\ callee' = [callee EXCEPT ![x] = c]
      /\ pc' = [pc EXCEPT ![x] = "resume"] /\ current' = c /\ reaping' = reaping
  BY DEF SwapInto
<1>2. x # c /\ Nil \notin Stacks
  BY DEF Control, CurrentRuns
<1>3. \A y \in Stacks : pc[y] \in {"resume", "ioresume"} =>
         y # x /\ callee[y] \in Coro /\ callee[y] # c
  BY DEF Control, CallsMatch
<1>4. \A d \in Coro : Target(d) \in Stacks
  BY DEF Target, Control
<1>13. \A d \in Coro : d # c => Target(d)' = Target(d)
  BY <1>1 DEF Target
<1>5. Target(c)' = x
  BY <1>1, <1>2 DEF Target
<1>6. CurrentRuns'
  BY <1>1 DEF CurrentRuns
<1>7. OthersInCalls'
  BY <1>1, <1>2 DEF Control, OthersInCalls, PlaceMatches
<1>8. CallsMatch'
  <2> DEFINE T(d) == IF caller'[d] # Nil THEN caller'[d] ELSE Main
  <2>0. T(c) = x /\ \A d \in Coro : d # c => T(d) = Target(d)
    BY <1>1, <1>2 DEF Target
  <2> SUFFICES ASSUME NEW y \in Stacks, pc'[y] \in {"resume", "ioresume"}
      PROVE  IF y = current' THEN status'[callee'[y]] \in {"SUSPENDED", "DEAD", "IO"}
             ELSE status'[callee'[y]] = "RUNNING" /\ T(callee'[y]) = y
    BY DEF CallsMatch, Target
  <2> HIDE DEF T
  <2>1. CASE y = x
    BY <1>1, <1>2, <2>0, <2>1 DEF Control
  <2>2. CASE y # x
    <3>1. /\ pc[y] \in {"resume", "ioresume"} /\ callee'[y] = callee[y]
          /\ callee[y] \in Coro /\ callee[y] # c
      BY <1>1, <1>3, <2>2 DEF Control
    <3>2. status[callee[y]] = "RUNNING" /\ Target(callee[y]) = y
      BY <3>1, <2>2 DEF Control, CallsMatch
    <3>3. y # c
      BY <3>1, <1>1 DEF Control, PlaceMatches
    <3> QED
      BY <1>1, <2>0, <3>1, <3>2, <3>3 DEF Control
  <2> QED
    BY <2>1, <2>2
<1>9. RunnersCalled'
  BY <1>1, <1>2, <1>3, <1>4, <1>13, <1>5 DEF Control, RunnersCalled, InCallOf
<1>10. CallersMatch'
  BY <1>1, <1>2, <1>3 DEF Control, CallersMatch
<1>11. PlaceMatches'
  <2>1. pc[c] \in {"run", "yield"} /\ (x \in Coro => status[x] = "RUNNING")
    BY DEF Control, PlaceMatches, CurrentRuns
  <2> QED
    BY <1>1, <1>2, <2>1 DEF Control, PlaceMatches
<1>12. FreedEnded'
  BY <1>1, <1>2, <1>3 DEF Control, FreedEnded, OthersInCalls
<1> QED
  BY <1>6, <1>7, <1>8, <1>9, <1>10, <1>11, <1>12 DEF Control

(* Freeing a coroutine that does not run disturbs no stack.                *)
LEMMA FreeControl ==
  ASSUME Control, StackTypes', NEW x \in Stacks, NEW c \in Coro, current = x,
         pc[x] \in {"destroy", "free"}, status[c] # "RUNNING",
         Free(x, c), UNCHANGED <<caller, callee, current>>
  PROVE  Control'
<1> USE DEF StackTypes, Stacks
<1>1. /\ status' = [status EXCEPT ![c] = "FREE"] /\ pc' = [pc EXCEPT ![x] = "closure"]
      /\ reaping' = [reaping EXCEPT ![x] = Nil]
      /\ current' = current /\ caller' = caller /\ callee' = callee
  BY DEF Free
<1>2. \A d \in Coro : Target(d)' = Target(d)
  BY <1>1 DEF Target
<1>3. x # c
  BY DEF Control, CurrentRuns
<1>11. \A y \in Stacks : pc[y] \in {"resume", "ioresume"} =>
         y # x /\ callee[y] \in Coro /\ callee[y] # c
  BY DEF Control, CallsMatch
<1>12. \A d \in Coro : Target(d) \in Stacks
  BY DEF Target
<1>4. CurrentRuns'
  BY <1>1, <1>3 DEF Control, CurrentRuns
<1>5. OthersInCalls'
  BY <1>1, <1>3 DEF Control, OthersInCalls
<1>6. CallsMatch'
  BY <1>1, <1>2, <1>11 DEF Control, CallsMatch
<1>7. RunnersCalled'
  BY <1>1, <1>2, <1>12 DEF Control, RunnersCalled, InCallOf
<1>8. CallersMatch'
  <2> SUFFICES ASSUME NEW d \in Coro, caller[d] # Nil
      PROVE  pc'[caller[d]] = "resume" /\ callee[caller[d]] = d
    BY <1>1 DEF CallersMatch
  <2>1. caller[d] \in Stacks /\ pc[caller[d]] = "resume" /\ callee[caller[d]] = d
    BY DEF Control, CallersMatch
  <2> QED
    BY <1>1, <2>1
<1>9. PlaceMatches'
  BY <1>1, <1>3 DEF Control, PlaceMatches
<1>10. FreedEnded'
  BY <1>1 DEF Control, FreedEnded, OthersInCalls
<1> QED
  BY <1>4, <1>5, <1>6, <1>7, <1>8, <1>9, <1>10 DEF Control

(* Every step keeps the control invariant.                                 *)
LEMMA NextControl == TypeInv /\ Reaping /\ Control /\ [Next]_vars => Control'
<1> SUFFICES ASSUME TypeInv, Reaping, Control, [Next]_vars PROVE Control'
  OBVIOUS
<1>0. StackTypes'
  BY NextTypeInv DEF TypeInv, TypeOK, StackTypes
<1> USE <1>0, DoesAt, BaseAt DEF StackTypes, Stacks, At, InCallOf, Target, Control, CurrentRuns,
            OthersInCalls, CallsMatch, RunnersCalled, CallersMatch,
            PlaceMatches, FreedEnded
<1>1. ASSUME NEW x \in Stacks, NEW c \in Coro, NEW st \in {"NEW", "DEAD"},
             Create(x, c, st)
      PROVE  Control'
  <2>1. /\ x # c /\ current = x /\ pc[x] \in {"run", "closure"} /\ status[c] = "FREE"
        /\ status' = [status EXCEPT ![c] = st] /\ pc' = [pc EXCEPT ![c] = "run"]
        /\ UNCHANGED <<caller, current, callee, reaping>>
    BY <1>1 DEF Create
  <2>2. \A y \in Stacks : pc[y] \in {"resume", "ioresume"} => y # c /\ callee[y] # c
    BY <2>1
  <2>3. CurrentRuns' /\ OthersInCalls' /\ PlaceMatches' /\ FreedEnded'
    BY <2>1
  <2>4. CallsMatch'
    BY <2>1, <2>2
  <2>5. RunnersCalled' /\ CallersMatch'
    BY <2>1, <2>2
  <2> QED
    BY <2>3, <2>4, <2>5
<1>2. ASSUME NEW x \in Stacks, NEW c \in Coro, Retain(x, c) PROVE Control'
  BY <1>2 DEF Retain, heapVars
<1>3. ASSUME NEW x \in Stacks, NEW c \in Coro, Release(x, c) PROVE Control'
  <2>1. CurrentRuns'
    BY <1>3 DEF Release, Decref, heapVars
  <2>2. OthersInCalls'
    BY <1>3 DEF Release, Decref, heapVars
  <2>3. CallsMatch'
    BY <1>3 DEF Release, Decref, heapVars
  <2>4. RunnersCalled'
    BY <1>3 DEF Release, Decref, heapVars
  <2>5. CallersMatch'
    BY <1>3 DEF Release, Decref, heapVars
  <2>6. PlaceMatches'
    BY <1>3 DEF Release, Decref, heapVars
  <2>7. FreedEnded'
    BY <1>3 DEF Release, Decref, heapVars
  <2> QED
    BY <2>1, <2>2, <2>3, <2>4, <2>5, <2>6, <2>7
<1>4. ASSUME NEW x \in Stacks, NEW c \in Coro, Resume(x, c) PROVE Control'
  <2>1. /\ x # c /\ current = x /\ pc[x] \in {"run", "closure"}
        /\ status[c] \in {"NEW", "SUSPENDED"}
        /\ SwapInto(x, c) /\ reaping' = reaping
    BY <1>4 DEF Resume
  <2> QED
    BY <2>1, SwapIntoControl
<1>5. ASSUME NEW x \in Stacks, ResumeReturn(x) PROVE Control'
  <2> DEFINE c == callee[x]
  <2>1. /\ c \in Coro /\ current = x /\ pc[x] = "resume"
        /\ status[c] \in {"SUSPENDED", "DEAD", "IO"}
        /\ caller' = [caller EXCEPT ![c] = Nil] /\ callee' = [callee EXCEPT ![x] = Nil]
        /\ UNCHANGED <<status, current>>
    BY <1>5 DEF ResumeReturn, CallersAfter
  <2>2. /\ pc'[x] \in {"run", "closure", "destroy", "free"}
        /\ pc'[x] = "free" => reaping'[x] = c
        /\ pc' = [pc EXCEPT ![x] = pc'[x]]
        /\ \A y \in Stacks : y # x => reaping'[y] = reaping[y]
    BY <1>5 DEF ResumeReturn, Decref
  <2>3. \A y \in Stacks : y # x /\ pc[y] \in {"resume", "ioresume"} =>
           callee[y] # c /\ callee[y] \in Coro
    BY <2>1
  <2> HIDE DEF c
  <2>4. CurrentRuns' /\ OthersInCalls' /\ PlaceMatches'
    BY <2>1, <2>2
  <2>5. CallsMatch'
    BY <2>1, <2>2, <2>3
  <2>6. RunnersCalled'
    BY <2>1, <2>2 DEF c
  <2>7. CallersMatch'
    BY <2>1, <2>2 DEF c
  <2>8. FreedEnded'
    BY <2>1, <2>2
  <2> QED
    BY <2>4, <2>5, <2>6, <2>7, <2>8
<1>6. ASSUME NEW c \in Coro, Yield(c) PROVE Control'
  BY <1>6, SwapOutControl DEF Yield
<1>7. ASSUME NEW c \in Coro, YieldReturn(c) PROVE Control'
  BY <1>7 DEF YieldReturn
<1>8. ASSUME NEW c \in Coro, Catch(c) PROVE Control'
  BY <1>8 DEF Catch
<1>9. ASSUME NEW c \in Coro, Exit(c) PROVE Control'
  BY <1>9, SwapOutControl DEF Exit
<1>10. ASSUME NEW c \in Coro, IoWait(c) PROVE Control'
  BY <1>10, SwapOutControl DEF IoWait
<1>11. ASSUME NEW c \in Coro, IoWaitReturn(c) PROVE Control'
  BY <1>11 DEF IoWaitReturn, Decref, heapVars
<1>12. ASSUME NEW c \in Coro, IoResume(c) PROVE Control'
  BY <1>12, SMTT(20) DEF IoResume, heapVars
<1>13. CASE IoResumeReturn
  BY <1>13, SMTT(20) DEF IoResumeReturn, Decref, heapVars
<1>14. ASSUME NEW x \in Stacks, DestroySuspended(x) PROVE Control'
  <2>1. /\ x # reaping[x] /\ current = x /\ status[reaping[x]] = "SUSPENDED"
        /\ reaping[x] \in Coro /\ pc[x] = "destroy"
        /\ SwapInto(x, reaping[x]) /\ reaping' = reaping
    BY <1>14 DEF DestroySuspended
  <2> QED
    BY <2>1, SwapIntoControl DEF SwapInto
<1>15. ASSUME NEW x \in Stacks, DestroyIdle(x) PROVE Control'
  <2> DEFINE c == reaping[x]
  <2>1. c \in Coro /\ current = x /\ pc[x] = "destroy"
    BY <1>15 DEF DestroyIdle
  <2>2. CASE status[c] \in {"RUNNING", "IO"}
    <3>1. UNCHANGED <<status, caller, current, pc, callee, reaping>>
      BY <1>15, <2>2 DEF DestroyIdle
    <3> QED
      BY <3>1, SameControl
  <2>3. CASE status[c] \notin {"RUNNING", "IO"}
    <3>1. Free(x, c) /\ UNCHANGED <<caller, callee, current>>
      BY <1>15, <2>3 DEF DestroyIdle
    <3> QED
      BY <2>1, <2>3, <3>1, FreeControl
  <2> QED
    BY <2>2, <2>3
<1>16. ASSUME NEW x \in Stacks, DestroyUnwound(x) PROVE Control'
  <2> DEFINE c == reaping[x]
  <2>1. c \in Coro /\ current = x /\ pc[x] = "free" /\ status[c] # "RUNNING"
    BY <1>16 DEF DestroyUnwound, Control, FreedEnded
  <2>2. CASE refcount[c] # 1
    <3>1. UNCHANGED <<status, caller, current, pc, callee, reaping>>
      BY <1>16, <2>2 DEF DestroyUnwound
    <3> QED
      BY <3>1, SameControl
  <2>3. CASE refcount[c] = 1
    <3>1. Free(x, c) /\ UNCHANGED <<caller, callee, current>>
      BY <1>16, <2>3 DEF DestroyUnwound
    <3> QED
      BY <2>1, <3>1, FreeControl
  <2> QED
    BY <2>2, <2>3
<1>18. ASSUME NEW x \in Stacks, DestroyEnd(x) PROVE Control'
  <2>1. /\ current = x /\ pc[x] = "closure" /\ pc'[x] \in {"run", "closure"}
        /\ pc' = [pc EXCEPT ![x] = pc'[x]]
        /\ UNCHANGED <<status, caller, current, callee, reaping>>
    BY <1>18 DEF DestroyEnd
  <2> QED
    BY <2>1
<1>17. CASE UNCHANGED vars
  BY <1>17, SameControl DEF vars
<1> HIDE DEF Stacks, At, Control
<1> QED
  BY <1>1, <1>2, <1>3, <1>4, <1>5, <1>6, <1>7, <1>8, <1>9, <1>10, <1>11, <1>12,
     <1>13, <1>14, <1>15, <1>16, <1>17, <1>18 DEF Next, Program, Destroy

(* A stack that swaps or calls leaves the others' destructors alone.       *)
LEMMA NextReaping == TypeInv /\ Control /\ Reaping /\ [Next]_vars => Reaping'
<1> SUFFICES ASSUME TypeInv, Control, Reaping, [Next]_vars PROVE Reaping'
  OBVIOUS
<1>0. /\ pc \in [Stacks -> {"run", "resume", "ioresume", "yield", "iowait",
                            "destroy", "free", "closure", "exit"}]
      /\ callee \in [Stacks -> Coro \cup {Nil}]
      /\ reaping \in [Stacks -> Coro \cup {Nil}]
      /\ saved \in [Stacks -> Seq(BOOLEAN)]
      /\ current \in Stacks /\ Coro \subseteq Stacks /\ Main \in Stacks /\ Nil \notin Stacks
  BY DEF TypeInv, TypeOK, SavedTypeOK, Stacks
<1> USE <1>0, DoesAt, BaseAt DEF Reaping, At
<1>1. ASSUME NEW x \in Stacks, NEW c \in Coro, NEW st \in {"NEW", "DEAD"},
             Create(x, c, st)
      PROVE  Reaping'
  <2>1. /\ status[c] = "FREE" /\ pc' = [pc EXCEPT ![c] = "run"]
        /\ UNCHANGED <<callee, reaping, saved>>
    BY <1>1 DEF Create
  <2>2. pc[c] \in {"run", "exit", "yield", "iowait"}
    BY <2>1 DEF Control, PlaceMatches
  <2> QED
    BY <2>1, <2>2
<1>2. ASSUME NEW x \in Stacks, NEW c \in Coro,
             Retain(x, c) \/ Release(x, c) \/ Resume(x, c)
      PROVE  Reaping'
  <2>1. CASE Retain(x, c)
    BY <2>1 DEF Retain, heapVars
  <2>2. CASE Release(x, c)
    BY <2>2 DEF Release, Decref, heapVars
  <2>3. CASE Resume(x, c)
    BY <2>3 DEF Resume, SwapInto, heapVars
  <2> QED
    BY <1>2, <2>1, <2>2, <2>3
<1>3. ASSUME NEW x \in Stacks, ResumeReturn(x) PROVE Reaping'
  <2>1. CASE reaping[x] = callee[x]
    BY <1>3, <2>1 DEF ResumeReturn, heapVars, TypeInv
  <2>2. CASE reaping[x] # callee[x]
    BY <1>3, <2>2 DEF ResumeReturn, Decref, heapVars
  <2> QED
    BY <2>1, <2>2
<1>4. ASSUME NEW c \in Coro, Yield(c) \/ Exit(c) \/ IoWait(c) PROVE Reaping'
  BY <1>4 DEF Yield, Exit, IoWait, SwapOut, heapVars
<1>5. ASSUME NEW c \in Coro, YieldReturn(c) PROVE Reaping'
  BY <1>5 DEF YieldReturn
<1>6. ASSUME NEW c \in Coro, Catch(c) PROVE Reaping'
  BY <1>6 DEF Catch
<1>7. ASSUME NEW c \in Coro, IoWaitReturn(c) PROVE Reaping'
  BY <1>7 DEF IoWaitReturn, Decref, heapVars
<1>8. ASSUME NEW c \in Coro, IoResume(c) PROVE Reaping'
  BY <1>8 DEF IoResume, heapVars
<1>9. CASE IoResumeReturn
  BY <1>9 DEF IoResumeReturn, Decref, heapVars
<1>10. ASSUME NEW x \in Stacks, RaiseFlag(x)
       PROVE  saved'[x] # << >> /\ \A y \in Stacks : y # x => saved'[y] = saved[y]
  BY <1>10, RaiseFlagType DEF TypeInv
<1>11. ASSUME NEW x \in Stacks, DestroySuspended(x) PROVE Reaping'
  <2>1. saved'[x] # << >> /\ \A y \in Stacks : y # x => saved'[y] = saved[y]
    BY <1>10, <1>11 DEF DestroySuspended
  <2> QED
    BY <1>11, <2>1 DEF DestroySuspended, SwapInto
<1>12. ASSUME NEW x \in Stacks, DestroyIdle(x) PROVE Reaping'
  <2>1. saved'[x] # << >> /\ \A y \in Stacks : y # x => saved'[y] = saved[y]
    BY <1>10, <1>12 DEF DestroyIdle
  <2> QED
    BY <1>12, <2>1 DEF DestroyIdle, Free
<1>13. ASSUME NEW x \in Stacks, DestroyUnwound(x) PROVE Reaping'
  <2>1. reaping[x] # Nil /\ saved[x] # << >>
    BY <1>13 DEF DestroyUnwound, TypeInv
  <2> QED
    BY <1>13, <2>1 DEF DestroyUnwound, Free
<1>14. ASSUME NEW x \in Stacks, DestroyEnd(x) PROVE Reaping'
  <2> DEFINE rest == SubSeq(saved[x], 1, Len(saved[x]) - 1)
  <2>1. /\ saved' = [saved EXCEPT ![x] = rest]
        /\ pc' = [pc EXCEPT ![x] = IF rest = << >> THEN "run" ELSE "closure"]
        /\ pc[x] = "closure" /\ UNCHANGED <<callee, reaping>>
    BY <1>14 DEF DestroyEnd
  <2> HIDE DEF rest
  <2> QED
    BY <2>1
<1>15. CASE UNCHANGED vars
  BY <1>15 DEF vars
<1> HIDE DEF Reaping, At
<1> QED
  BY <1>1, <1>2, <1>3, <1>4, <1>5, <1>6, <1>7, <1>8, <1>9, <1>11, <1>12, <1>13,
     <1>14, <1>15 DEF Next, Program, Destroy

LEMMA ControlInvariant == Spec => [](TypeInv /\ Control /\ Reaping)
<1>1. Init => TypeInv /\ Control /\ Reaping
  BY InitTypeInv, InitControl DEF Init, Reaping
<1>2. TypeInv /\ Control /\ Reaping /\ [Next]_vars => (TypeInv /\ Control /\ Reaping)'
  BY NextTypeInv, NextControl, NextReaping
<1> QED
  BY <1>1, <1>2, PTL DEF Spec

(* Every field of every coroutine keeps its type.                          *)
THEOREM TypeCorrect == Spec => []TypeOK
<1>1. TypeInv => TypeOK
  BY DEF TypeInv
<1> QED
  BY <1>1, ControlInvariant, PTL

(* Control returns to the resumer: the stack a running coroutine swaps to  *)
(* is, alone, inside the resume or ioresume of that coroutine.             *)
THEOREM ControlReturns == Spec => []ReturnsToResumer
<1>1. TypeInv /\ Control => ReturnsToResumer
  <2> SUFFICES ASSUME TypeInv, Control, NEW c \in Coro, status[c] = "RUNNING"
      PROVE  /\ InCallOf(Target(c), c)
             /\ \A x \in Stacks : InCallOf(x, c) => x = Target(c)
             /\ c # current => pc[c] = "resume"
    BY DEF ReturnsToResumer
  <2>1. InCallOf(Target(c), c)
    BY DEF Control, RunnersCalled
  <2>2. ASSUME NEW x \in Stacks, InCallOf(x, c) PROVE x = Target(c)
    BY <2>2 DEF Control, CallsMatch, InCallOf
  <2>3. c # current => pc[c] = "resume"
    BY DEF Control, OthersInCalls, Stacks
  <2> QED
    BY <2>1, <2>2, <2>3
<1> QED
  BY <1>1, ControlInvariant, PTL

-----------------------------------------------------------------------------
(* Coroutines nest like calls: Coroutine implements CallStack.             *)

LEMMA SameLives == ASSUME status' = status PROVE Lives' = Lives
<1>1. \A c \in Coro : Life(c)' = Life(c)
  BY DEF Life
<1> QED
  BY <1>1, Zenon DEF Lives

(* Steps that move no coroutine are stutters.                              *)
LEMMA StillStutters ==
  ASSUME UNCHANGED <<status, caller, current>>
  PROVE  UNCHANGED <<Lives, Under, current>>
<1>1. Lives' = Lives
  BY SameLives
<1>2. Under' = Under
  BY DEF Under, Target
<1> QED
  BY <1>1, <1>2

(* A coroutine that changes its status only.                               *)
LEMMA OneLifeChanges ==
  ASSUME StackTypes, NEW c \in Coro, NEW st, status' = [status EXCEPT ![c] = st],
         \A d \in Coro : d # c => caller'[d] = caller[d]
  PROVE  \A d \in Coro : d # c => Life(d)' = Life(d) /\ Under'[d] = Under[d]
<1> TAKE d \in Coro
<1> HAVE d # c
<1>1. status'[d] = status[d] /\ caller'[d] = caller[d]
  BY DEF StackTypes, Stacks
<1> QED
  BY <1>1 DEF Life, Under, Target

LEMMA InitCalls == Init => Calls!StackInit
  BY DEF Init, Calls!StackInit, Lives, Life, Under, Stacks

(* A resume pushes the coroutine on the stack that was current.            *)
LEMMA EnterCalls ==
  ASSUME Control, NEW x \in Stacks, NEW c \in Coro, current = x,
         status' = [status EXCEPT ![c] = "RUNNING"], current' = c,
         \A d \in Coro : d # c => caller'[d] = caller[d],
         Target(c)' = x
  PROVE  Calls!Enter(c)
<1>1. status \in [Stacks -> {"FREE", "NEW", "RUNNING", "SUSPENDED", "DEAD", "IO"}]
  BY DEF Control, StackTypes
<1>2. \A d \in Coro : d # c => Life(d)' = Life(d) /\ Under'[d] = Under[d]
  BY OneLifeChanges DEF Control
<1>3. Life(c)' = "running" /\ Under'[c] = x
  BY <1>1 DEF Life, Under, Stacks
<1>4. Lives' = [Lives EXCEPT ![c] = "running"]
  BY <1>2, <1>3 DEF Lives
<1>5. Under' = [Under EXCEPT ![c] = current]
  <2>1. Under = [d \in Coro |-> Under[d]] /\ Under' = [d \in Coro |-> Under'[d]]
    BY DEF Under
  <2> QED
    BY <1>2, <1>3, <2>1
<1> QED
  BY <1>4, <1>5 DEF Calls!Enter

(* A coroutine that stops hands control to the stack below it.             *)
LEMMA LeaveCalls ==
  ASSUME Control, NEW c \in Coro, current = c, NEW st, NEW at, NEW l,
         <<st, l>> \in {<<"SUSPENDED", "ready">>, <<"DEAD", "dead">>,
                        <<"IO", "waiting">>},
         SwapOut(c, st, at), UNCHANGED caller
  PROVE  Calls!Leave(c, l)
<1>1. /\ status \in [Stacks -> {"FREE", "NEW", "RUNNING", "SUSPENDED", "DEAD", "IO"}]
      /\ status' = [status EXCEPT ![c] = st] /\ current' = Target(c) /\ current = c
      /\ status[c] = "RUNNING"
  BY DEF Control, StackTypes, SwapOut, CurrentRuns
<1>2. \A d \in Coro : d # c => Life(d)' = Life(d) /\ Under'[d] = Under[d]
  BY <1>1, OneLifeChanges DEF Control
<1>3. Life(c)' = l /\ Under'[c] = Nil /\ Under[c] = Target(c)
  BY <1>1 DEF Life, Under, Stacks
<1>4. Lives' = [Lives EXCEPT ![c] = l]
  BY <1>2, <1>3 DEF Lives
<1>5. Under' = [Under EXCEPT ![c] = Nil]
  <2>1. Under = [d \in Coro |-> Under[d]] /\ Under' = [d \in Coro |-> Under'[d]]
    BY DEF Under
  <2> QED
    BY <1>2, <1>3, <2>1
<1> QED
  BY <1>1, <1>3, <1>4, <1>5 DEF Calls!Leave

(* Freeing a coroutine that does not run removes it.                       *)
LEMMA FreeCalls ==
  ASSUME Control, NEW x \in Stacks, NEW c \in Coro, Free(x, c),
         status[c] \notin {"FREE", "RUNNING"}, UNCHANGED <<caller, current>>
  PROVE  Calls!Remove(c)
<1>1. /\ status \in [Stacks -> {"FREE", "NEW", "RUNNING", "SUSPENDED", "DEAD", "IO"}]
      /\ status' = [status EXCEPT ![c] = "FREE"]
  BY DEF Control, StackTypes, Free
<1>2. \A d \in Coro : d # c => Life(d)' = Life(d) /\ Under'[d] = Under[d]
  BY <1>1, OneLifeChanges DEF Control
<1>3. /\ Life(c)' = "none" /\ Under'[c] = Nil /\ Under[c] = Nil
      /\ Life(c) \notin {"none", "running"}
  BY <1>1 DEF Life, Under, Stacks
<1>4. Lives' = [Lives EXCEPT ![c] = "none"] /\ Lives[c] = Life(c)
  BY <1>2, <1>3 DEF Lives
<1>5. Under' = Under
  <2>1. Under = [d \in Coro |-> Under[d]] /\ Under' = [d \in Coro |-> Under'[d]]
    BY DEF Under
  <2> QED
    BY <1>2, <1>3, <2>1
<1> QED
  BY <1>3, <1>4, <1>5 DEF Calls!Remove

(* Every step is a step of the call stack, or leaves it alone.             *)
LEMMA NextCalls ==
  TypeInv /\ Control /\ [Next]_vars => [Calls!StackNext]_(Calls!stackVars)
<1> SUFFICES ASSUME TypeInv, Control, [Next]_vars
    PROVE  Calls!StackNext \/ UNCHANGED <<Lives, Under, current>>
  BY DEF Calls!stackVars
<1> DEFINE Mapped == Calls!StackNext \/ UNCHANGED <<Lives, Under, current>>
<1> USE DoesAt DEF At
<1>0. /\ status \in [Stacks -> {"FREE", "NEW", "RUNNING", "SUSPENDED", "DEAD", "IO"}]
      /\ caller \in [Stacks -> Stacks \cup {Nil}]
  BY DEF Control, StackTypes
<1>1. ASSUME NEW x \in Stacks, NEW c \in Coro, NEW st \in {"NEW", "DEAD"},
             Create(x, c, st)
      PROVE  Mapped
  <2>1. /\ status[c] = "FREE" /\ status' = [status EXCEPT ![c] = st]
        /\ UNCHANGED <<caller, current>>
    BY <1>1 DEF Create
  <2>2. \A d \in Coro : d # c => Life(d)' = Life(d) /\ Under'[d] = Under[d]
    BY <2>1, OneLifeChanges DEF Control
  <2>3. /\ Life(c)' \in {"ready", "dead"} /\ Life(c) = "none"
        /\ Under'[c] = Nil /\ Under[c] = Nil
    BY <1>0, <2>1 DEF Life, Under, Stacks
  <2>4. Lives' = [Lives EXCEPT ![c] = Life(c)'] /\ Lives[c] = "none"
    BY <2>2, <2>3 DEF Lives
  <2>5. Under' = Under
    <3>1. Under = [d \in Coro |-> Under[d]] /\ Under' = [d \in Coro |-> Under'[d]]
      BY DEF Under
    <3> QED
      BY <2>2, <2>3, <3>1
  <2>6. Calls!Spawn(c)
    BY <2>1, <2>3, <2>4, <2>5 DEF Calls!Spawn
  <2> QED
    BY <2>6 DEF Calls!StackNext
<1>2. ASSUME NEW x \in Stacks, NEW c \in Coro, Retain(x, c) \/ Release(x, c)
      PROVE  Mapped
  <2>1. UNCHANGED <<status, caller, current>>
    BY <1>2 DEF Retain, Release
  <2> QED
    BY <2>1, StillStutters
<1>3. ASSUME NEW x \in Stacks, NEW c \in Coro, current = x,
             status[c] \in {"NEW", "SUSPENDED"}, SwapInto(x, c)
      PROVE  Mapped
  <2>1. /\ status' = [status EXCEPT ![c] = "RUNNING"] /\ current' = c
        /\ caller' = [caller EXCEPT ![c] = x]
    BY <1>3 DEF SwapInto
  <2>2. Target(c)' = x
    BY <1>0, <2>1 DEF Target, Stacks
  <2>3. \A d \in Coro : d # c => caller'[d] = caller[d]
    BY <1>0, <2>1 DEF Stacks
  <2>4. Calls!Enter(c)
    BY <1>3, <2>1, <2>2, <2>3, EnterCalls
  <2>5. Lives[c] = "ready"
    BY <1>3 DEF Lives, Life
  <2>6. Calls!Call(c)
    BY <2>4, <2>5 DEF Calls!Call
  <2> QED
    BY <2>6 DEF Calls!StackNext
<1>4. ASSUME NEW x \in Stacks, NEW c \in Coro, Resume(x, c) PROVE Mapped
  BY <1>3, <1>4 DEF Resume
<1>5. ASSUME NEW x \in Stacks, ResumeReturn(x) PROVE Mapped
  <2> DEFINE c == callee[x]
  <2>1. /\ c \in Coro /\ status[c] # "RUNNING"
        /\ caller' = [caller EXCEPT ![c] = Nil] /\ UNCHANGED <<status, current>>
    BY <1>5 DEF ResumeReturn, CallersAfter, Control, StackTypes, CallsMatch
  <2>2. Lives' = Lives
    BY <2>1, SameLives
  <2>3. ASSUME NEW d \in Coro
        PROVE  (IF status[d] = "RUNNING" THEN Target(d) ELSE Nil)'
               = IF status[d] = "RUNNING" THEN Target(d) ELSE Nil
    <3> HIDE DEF c
    <3> QED
      BY <1>0, <2>1 DEF Target, Stacks
  <2>4. Under' = Under
    BY <2>3 DEF Under
  <2> QED
    BY <2>1, <2>2, <2>4
<1>6. ASSUME NEW c \in Coro, Yield(c) \/ Exit(c) \/ IoWait(c) PROVE Mapped
  <2>1. \E l \in {"ready", "waiting", "dead"} : Calls!Leave(c, l)
    <3>1. CASE Yield(c)
      <4>1. Calls!Leave(c, "ready")
        BY <3>1, LeaveCalls DEF Yield
      <4> QED
        BY <4>1
    <3>2. CASE Exit(c)
      <4>1. Calls!Leave(c, "dead")
        BY <3>2, LeaveCalls DEF Exit
      <4> QED
        BY <4>1
    <3>3. CASE IoWait(c)
      <4>1. Calls!Leave(c, "waiting")
        BY <3>3, LeaveCalls DEF IoWait
      <4> QED
        BY <4>1
    <3> QED
      BY <1>6, <3>1, <3>2, <3>3
  <2> QED
    BY <2>1 DEF Calls!StackNext
<1>7. ASSUME NEW c \in Coro, YieldReturn(c) \/ Catch(c) \/ IoWaitReturn(c)
      PROVE  Mapped
  <2>1. UNCHANGED <<status, caller, current>>
    BY <1>7 DEF YieldReturn, Catch, IoWaitReturn
  <2> QED
    BY <2>1, StillStutters
<1>8. ASSUME NEW c \in Coro, IoResume(c) PROVE Mapped
  <2>1. /\ current = Main /\ pc[Main] = "run" /\ status[c] = "IO"
        /\ status' = [status EXCEPT ![c] = "RUNNING"] /\ current' = c /\ caller' = caller
    BY <1>8 DEF IoResume
  <2>2. caller[c] = Nil
    BY <1>0, <2>1 DEF Control, CallersMatch, CallsMatch, Stacks
  <2>3. Target(c)' = Main /\ Main \in Stacks
    BY <2>1, <2>2 DEF Target, Stacks
  <2>4. Calls!Enter(c)
    BY <2>1, <2>3, EnterCalls
  <2>5. Lives[c] = "waiting"
    BY <2>1 DEF Lives, Life
  <2>6. Calls!Complete(c)
    BY <2>1, <2>4, <2>5 DEF Calls!Complete
  <2> QED
    BY <2>6 DEF Calls!StackNext
<1>9. CASE IoResumeReturn
  <2>1. UNCHANGED <<status, caller, current>>
    BY <1>9 DEF IoResumeReturn
  <2> QED
    BY <2>1, StillStutters
<1>10. ASSUME NEW x \in Stacks, DestroySuspended(x) PROVE Mapped
  <2>1. reaping[x] \in Coro
    BY <1>10 DEF DestroySuspended, Control, StackTypes
  <2> QED
    BY <1>3, <1>10, <2>1 DEF DestroySuspended
<1>11. ASSUME NEW x \in Stacks, NEW c \in Coro, Free(x, c), status[c] # "RUNNING",
              UNCHANGED <<caller, current>>
       PROVE  Mapped
  <2>1. CASE status[c] = "FREE"
    <3>1. status' = status
      BY <1>0, <1>11, <2>1 DEF Free, Stacks
    <3> QED
      BY <1>11, <3>1, StillStutters
  <2>2. CASE status[c] # "FREE"
    <3>1. Calls!Remove(c)
      BY <1>11, <2>2, FreeCalls
    <3> QED
      BY <3>1 DEF Calls!StackNext
  <2> QED
    BY <2>1, <2>2
<1>12. ASSUME NEW x \in Stacks, DestroyIdle(x) \/ DestroyUnwound(x) PROVE Mapped
  <2> DEFINE c == reaping[x]
  <2>1. c \in Coro /\ UNCHANGED <<caller, current>>
    BY <1>12 DEF DestroyIdle, DestroyUnwound, Control, StackTypes
  <2>2. CASE Free(x, c) /\ status[c] # "RUNNING"
    BY <1>11, <2>1, <2>2
  <2>3. CASE ~(Free(x, c) /\ status[c] # "RUNNING")
    <3>1. status' = status
      BY <1>12, <2>3 DEF DestroyIdle, DestroyUnwound, Control, FreedEnded
    <3> QED
      BY <2>1, <3>1, StillStutters
  <2> QED
    BY <2>2, <2>3
<1>14. ASSUME NEW x \in Stacks, DestroyEnd(x) PROVE Mapped
  <2>1. UNCHANGED <<status, caller, current>>
    BY <1>14 DEF DestroyEnd
  <2> QED
    BY <2>1, StillStutters
<1>13. CASE UNCHANGED vars
  <2>1. UNCHANGED <<status, caller, current>>
    BY <1>13 DEF vars
  <2> QED
    BY <2>1, StillStutters
<1> HIDE DEF At
<1> QED
  BY <1>1, <1>2, <1>4, <1>5, <1>6, <1>7, <1>8, <1>9, <1>10, <1>12, <1>13, <1>14
     DEF Next, Program, Destroy

(* Coroutines nest like calls for any number of coroutines, whatever their *)
(* destructors do.                                                         *)
THEOREM ImplementsCallStack == Spec => CallStackSpec
<1>1. Init => Calls!StackInit
  BY InitCalls
<1>2. TypeInv /\ Control /\ [Next]_vars => [Calls!StackNext]_(Calls!stackVars)
  BY NextCalls
<1> QED
  BY <1>1, <1>2, ControlInvariant, PTL DEF Spec, CallStackSpec, Calls!StackSpec

-----------------------------------------------------------------------------
(***************************************************************************)
(* The reference counts, the list coroutines() and the count of waiting    *)
(* coroutines are exact, for any number of coroutines and whatever their   *)
(* destructors do.                                                         *)
(***************************************************************************)
Statuses == {"FREE", "NEW", "RUNNING", "SUSPENDED", "DEAD", "IO"}

(* What keeps a reference to c besides the program.                        *)
InCall(c) == \E x \in Stacks : InCallOf(x, c)
Reaped(c) == \E x \in Stacks : reaping[x] = c /\ pc[x] # "destroy"

(* RefsAccounted counts destructors that run; these three say that there   *)
(* is one, that it begins without references, and that a coroutine that is *)
(* gone has none.                                                          *)
ReapedOnce ==
    \A x, y \in Stacks : reaping[x] # Nil /\ reaping[x] = reaping[y] => x = y

Unreferenced ==
    \A x \in Stacks : pc[x] = "destroy" =>
        refcount[reaping[x]] = 0 /\ status[reaping[x]] # "FREE"

FreeUnreferenced == \A c \in Coro : status[c] = "FREE" => refcount[c] = 0

Counts == RefsAccounted /\ ReapedOnce /\ Unreferenced /\ FreeUnreferenced

(* A stack that executes something destroys nothing.                       *)
LEMMA NotReaping ==
  ASSUME TypeInv, Reaping, NEW x \in Stacks, pc[x] \notin {"destroy", "resume", "free"}
  PROVE  reaping[x] = Nil
  BY DEF Reaping

(* The counts in words: who holds references to c.                         *)
LEMMA CountsOf ==
  ASSUME RefsAccounted, NEW c \in Coro
  PROVE  refcount[c] = held[c] + One(InCall(c)) + One(pc[c] = "iowait") + One(Reaped(c))
  BY DEF RefsAccounted, InCall, Reaped

LEMMA CountTypes ==
  ASSUME TypeInv
  PROVE  /\ refcount \in [Coro -> Int] /\ held \in [Coro -> Nat]
         /\ status \in [Stacks -> Statuses]
         /\ callee \in [Stacks -> Coro \cup {Nil}] /\ reaping \in [Stacks -> Coro \cup {Nil}]
         /\ current \in Stacks /\ Main \in Stacks /\ Coro \subseteq Stacks /\ Nil \notin Stacks
         /\ pc \in [Stacks -> {"run", "resume", "ioresume", "yield", "iowait",
                               "destroy", "free", "closure", "exit"}]
         /\ \A x \in Stacks : /\ pc[x] \in {"resume", "ioresume"} => callee[x] \in Coro
                              /\ pc[x] \in {"destroy", "free"} => reaping[x] \in Coro
  BY DEF TypeInv, TypeOK, Stacks, Statuses

(* With no reference nobody calls, waits in or destroys c.                 *)
LEMMA NoReferences ==
  ASSUME TypeInv, RefsAccounted, NEW c \in Coro, refcount[c] = 0
  PROVE  held[c] = 0 /\ ~InCall(c) /\ pc[c] # "iowait" /\ ~Reaped(c)
  BY CountsOf, CountTypes DEF One

(* The last reference leaves no other.                                     *)
LEMMA LastReference ==
  ASSUME TypeInv, RefsAccounted, NEW c \in Coro, refcount[c] = 1
  PROVE  /\ held[c] > 0 => ~InCall(c) /\ pc[c] # "iowait" /\ ~Reaped(c)
         /\ InCall(c) => held[c] = 0 /\ pc[c] # "iowait" /\ ~Reaped(c)
         /\ pc[c] = "iowait" => held[c] = 0 /\ ~InCall(c) /\ ~Reaped(c)
         /\ Reaped(c) => held[c] = 0 /\ ~InCall(c) /\ pc[c] # "iowait"
  BY CountsOf, CountTypes DEF One

(* One stack at most is in a call of c.                                    *)
LEMMA OneCall ==
  ASSUME Control, NEW c \in Coro, NEW x \in Stacks, NEW y \in Stacks,
         InCallOf(x, c), InCallOf(y, c)
  PROVE  x = y
  BY DEF Control, CallsMatch, InCallOf

(* The counts after a step, from what the step does to each holder.        *)
LEMMA CountsAfter ==
  ASSUME RefsAccounted, TypeInv,
         \A d \in Coro : refcount'[d] - refcount[d] =
             (held'[d] - held[d]) + (One(InCall(d)') - One(InCall(d)))
             + (One(pc'[d] = "iowait") - One(pc[d] = "iowait"))
             + (One(Reaped(d)') - One(Reaped(d))),
         TypeInv'
  PROVE  RefsAccounted'
<1> SUFFICES ASSUME NEW d \in Coro
    PROVE  refcount'[d] = held'[d] + One(InCall(d)') + One(pc'[d] = "iowait") + One(Reaped(d)')
  BY DEF RefsAccounted, InCall, InCallOf, Reaped
<1>1. refcount[d] = held[d] + One(InCall(d)) + One(pc[d] = "iowait") + One(Reaped(d))
  BY CountsOf
<1>2. refcount[d] \in Int /\ held[d] \in Nat /\ refcount'[d] \in Int /\ held'[d] \in Nat
  BY DEF TypeInv, TypeOK
<1> DEFINE i == One(InCall(d)) w == One(pc[d] = "iowait") r == One(Reaped(d))
           ii == One(InCall(d)') ww == One(pc'[d] = "iowait") rr == One(Reaped(d)')
<1>3. i \in Nat /\ w \in Nat /\ r \in Nat /\ ii \in Nat /\ ww \in Nat /\ rr \in Nat
  BY DEF One
<1>4. /\ refcount[d] = held[d] + i + w + r
      /\ refcount'[d] - refcount[d]
            = (held'[d] - held[d]) + (ii - i) + (ww - w) + (rr - r)
  BY <1>1
<1>5. refcount'[d] = held'[d] + ii + ww + rr
  <2> HIDE DEF i, w, r, ii, ww, rr
  <2> QED
    BY <1>2, <1>3, <1>4
<1> QED
  BY <1>5

(* A stack that drops a reference is left with that many, and destroys the *)
(* coroutine if it was the last one.                                       *)
LEMMA DecrefCounts ==
  ASSUME TypeInv, TypeInv', Control, Reaping, Counts,
         NEW x \in Stacks, NEW c \in Coro, current = x, reaping[x] = Nil,
         pc[x] \in {"run", "closure", "resume", "ioresume", "iowait"},
         Decref(x, c), status' = status,
         \/ /\ pc[x] \in {"run", "closure"} /\ held[c] > 0
            /\ held' = [held EXCEPT ![c] = @ - 1] /\ callee' = callee
         \/ InCallOf(x, c) /\ callee' = [callee EXCEPT ![x] = Nil] /\ held' = held
         \/ x = c /\ pc[c] = "iowait" /\ callee' = callee /\ held' = held
  PROVE  Counts'
<1>0. /\ refcount' = [refcount EXCEPT ![c] = @ - 1]
      /\ \A y \in Stacks : y # x => pc'[y] = pc[y] /\ reaping'[y] = reaping[y]
      /\ IF refcount[c] = 1 THEN reaping'[x] = c /\ pc'[x] = "destroy"
                            ELSE reaping'[x] = Nil /\ pc'[x] \in {"run", "closure"}
  BY CountTypes, BaseAt DEF Decref
<1>1. \A d \in Coro : Reaped(d)' <=> Reaped(d)
  BY <1>0 DEF Reaped
<1>2. \A y \in Stacks : pc[y] = "destroy" => y = x
  BY DEF Control, OthersInCalls
<1>3. RefsAccounted'
  <2> DEFINE ByProgram == /\ pc[x] \in {"run", "closure"} /\ held[c] > 0
                          /\ held' = [held EXCEPT ![c] = @ - 1] /\ callee' = callee
             ByCall == /\ InCallOf(x, c) /\ held' = held
                       /\ callee' = [callee EXCEPT ![x] = Nil]
             ByWait == x = c /\ pc[c] = "iowait" /\ callee' = callee /\ held' = held
  <2>1. CASE ByProgram
    <3>1. \A d \in Coro : InCall(d)' <=> InCall(d)
      BY <1>0, <2>1, CountTypes DEF InCall, InCallOf
    <3>2. \A d \in Coro : pc'[d] = "iowait" <=> pc[d] = "iowait"
      BY <1>0, <2>1, CountTypes
    <3> QED
      BY <1>0, <1>1, <2>1, <3>1, <3>2, CountTypes, CountsAfter DEF One, Counts
  <2>2. CASE ByCall
    <3>1. \A d \in Coro : InCall(d)' <=> d # c /\ InCall(d)
      BY <1>0, <2>2, CountTypes, OneCall DEF InCall, InCallOf
    <3>2. \A d \in Coro : pc'[d] = "iowait" <=> pc[d] = "iowait"
      BY <1>0, <2>2, CountTypes DEF InCallOf
    <3>3. InCall(c)
      BY <2>2 DEF InCall
    <3> QED
      BY <1>0, <1>1, <2>2, <3>1, <3>2, <3>3, CountTypes, CountsAfter DEF One, Counts
  <2>3. CASE ByWait
    <3>1. \A d \in Coro : InCall(d)' <=> InCall(d)
      BY <1>0, <2>3, CountTypes DEF InCall, InCallOf
    <3>2. \A d \in Coro : pc'[d] = "iowait" <=> d # c /\ pc[d] = "iowait"
      BY <1>0, <2>3, CountTypes
    <3> QED
      BY <1>0, <1>1, <2>3, <3>1, <3>2, CountTypes, CountsAfter DEF One, Counts
  <2> QED
    BY <2>1, <2>2, <2>3
<1>4. refcount[c] > 0
  <2>1. held[c] > 0 \/ InCall(c) \/ pc[c] = "iowait"
    BY DEF InCall
  <2> QED
    BY <2>1, CountsOf, CountTypes DEF Counts, One
<1>5. ReapedOnce'
  <2>1. refcount[c] = 1 => \A y \in Stacks : reaping[y] # c
    <3>1. refcount[c] = 1 => ~Reaped(c)
      BY LastReference, CountTypes DEF Counts, InCall
    <3> QED
      BY <1>2, <3>1 DEF Reaped
  <2> QED
    BY <1>0, <2>1 DEF Counts, ReapedOnce
<1>6. Unreferenced'
  BY <1>0, <1>2, <1>4, CountTypes DEF Counts, Unreferenced, FreeUnreferenced
<1>7. FreeUnreferenced'
  BY <1>0, <1>4, CountTypes DEF Counts, FreeUnreferenced
<1> QED
  BY <1>3, <1>5, <1>6, <1>7 DEF Counts

(* A step that moves no stack in or out of a call, a wait or the start of  *)
(* a destructor changes no count.                                          *)
LEMMA SameCounts ==
  ASSUME TypeInv, TypeInv', Counts, UNCHANGED <<refcount, held, callee, reaping>>,
         \A y \in Stacks :
             /\ pc'[y] \in {"resume", "ioresume"} <=> pc[y] \in {"resume", "ioresume"}
             /\ pc'[y] = "iowait" <=> pc[y] = "iowait"
             /\ pc'[y] = "destroy" <=> pc[y] = "destroy",
         \A y \in Stacks : status'[y] = "FREE" <=> status[y] = "FREE"
  PROVE  Counts'
<1>1. \A d \in Coro : /\ InCall(d)' <=> InCall(d)
                      /\ Reaped(d)' <=> Reaped(d)
                      /\ pc'[d] = "iowait" <=> pc[d] = "iowait"
  BY CountTypes DEF InCall, InCallOf, Reaped
<1>2. RefsAccounted'
  BY <1>1, CountTypes, CountsAfter DEF One, Counts
<1>3. ReapedOnce' /\ Unreferenced' /\ FreeUnreferenced'
  BY CountTypes DEF Counts, ReapedOnce, Unreferenced, FreeUnreferenced
<1> QED
  BY <1>2, <1>3 DEF Counts

(* A stack that destroys a coroutine is the only one that does, and leaves *)
(* no reference behind.                                                    *)
LEMMA FreeCounts ==
  ASSUME TypeInv, TypeInv', Control, Counts, NEW x \in Stacks, current = x,
         pc[x] \in {"destroy", "free"}, pc[x] = "free" => refcount[reaping[x]] = 1,
         Free(x, reaping[x]), UNCHANGED <<held, callee>>
  PROVE  Counts'
<1> DEFINE c == reaping[x]
<1>1. /\ c \in Coro /\ status' = [status EXCEPT ![c] = "FREE"]
      /\ refcount' = [refcount EXCEPT ![c] = 0]
      /\ reaping' = [reaping EXCEPT ![x] = Nil] /\ pc' = [pc EXCEPT ![x] = "closure"]
  BY CountTypes DEF Free
<1>2. \A y \in Stacks : y # x => reaping[y] # c
  BY <1>1, CountTypes DEF Counts, ReapedOnce
<1>3. \A y \in Stacks : pc'[y] # "destroy"
  BY <1>1, CountTypes DEF Control, OthersInCalls
<1>4. \A d \in Coro : InCall(d)' <=> InCall(d)
  BY <1>1, CountTypes DEF InCall, InCallOf
<1>5. \A d \in Coro : pc'[d] = "iowait" <=> pc[d] = "iowait"
  BY <1>1, CountTypes
<1>6. \A d \in Coro : Reaped(d)' <=> d # c /\ Reaped(d)
  BY <1>1, <1>2, CountTypes DEF Reaped
<1>7. Reaped(c) <=> pc[x] = "free"
  BY <1>2 DEF Reaped
<1>8. pc[x] = "destroy" => refcount[c] = 0
  BY DEF Counts, Unreferenced
<1> HIDE DEF c
<1>9. RefsAccounted'
  <2>1. \A d \in Coro : refcount'[d] - refcount[d] = One(Reaped(d)') - One(Reaped(d))
    BY <1>1, <1>6, <1>7, <1>8, CountTypes DEF One, c
  <2> QED
    BY <1>4, <1>5, <2>1, CountTypes, CountsAfter DEF One, Counts
<1>10. ReapedOnce'
  BY <1>1, CountTypes DEF Counts, ReapedOnce
<1>11. Unreferenced' /\ FreeUnreferenced'
  BY <1>1, <1>3, CountTypes DEF Counts, Unreferenced, FreeUnreferenced
<1> QED
  BY <1>9, <1>10, <1>11 DEF Counts

(* Every step keeps the counts.                                            *)
LEMMA NextCounts ==
  TypeInv /\ Reaping /\ Control /\ Counts /\ [Next]_vars => Counts'
<1> SUFFICES ASSUME TypeInv, Reaping, Control, Counts, [Next]_vars PROVE Counts'
  OBVIOUS
<1>0. TypeInv' /\ Control'
  BY NextTypeInv, NextControl
<1>a. \A y \in Stacks : pc[y] = "destroy" => y = current
  BY DEF Control, OthersInCalls
<1>b. ASSUME NEW x \in Stacks, NEW c \in Coro, current = x,
             pc[x] \in {"run", "closure", "destroy"}, status[c] # "RUNNING",
             callee' = [callee EXCEPT ![x] = c],
             pc' = [pc EXCEPT ![x] = "resume"] \/ pc' = [pc EXCEPT ![x] = "ioresume"]
      PROVE  /\ ~InCall(c)
             /\ \A d \in Coro : /\ InCall(d)' <=> d = c \/ InCall(d)
                                /\ pc'[d] = "iowait" <=> pc[d] = "iowait"
             /\ \A y \in Stacks : pc'[y] # "destroy"
  <2>1. ~InCall(c)
    BY <1>b DEF InCall, InCallOf, Control, CallsMatch
  <2>2. \A d \in Coro : InCall(d)' <=> d = c \/ InCall(d)
    BY <1>b, CountTypes DEF InCall, InCallOf
  <2>3. \A d \in Coro : pc'[d] = "iowait" <=> pc[d] = "iowait"
    BY <1>b, CountTypes
  <2>4. \A y \in Stacks : pc'[y] # "destroy"
    BY <1>a, <1>b, CountTypes
  <2> QED
    BY <2>1, <2>2, <2>3, <2>4
<1>1. ASSUME NEW x \in Stacks, NEW c \in Coro, NEW st \in {"NEW", "DEAD"},
             Create(x, c, st)
      PROVE  Counts'
  <2>1. /\ current = x /\ pc[x] \in {"run", "closure"} /\ status[c] = "FREE"
        /\ status' = [status EXCEPT ![c] = st] /\ pc' = [pc EXCEPT ![c] = "run"]
        /\ refcount' = [refcount EXCEPT ![c] = 1] /\ held' = [held EXCEPT ![c] = 1]
        /\ callee' = callee /\ reaping' = reaping
    BY <1>1, DoesAt DEF Create
  <2>2. refcount[c] = 0 /\ held[c] = 0 /\ ~InCall(c) /\ pc[c] # "iowait" /\ ~Reaped(c)
    BY <2>1, NoReferences DEF Counts, FreeUnreferenced
  <2>3. pc[c] \in {"run", "exit", "yield"}
    BY <2>1, <2>2, CountTypes DEF Control, PlaceMatches
  <2>4. \A d \in Coro : /\ InCall(d)' <=> InCall(d)
                        /\ Reaped(d)' <=> Reaped(d)
                        /\ pc'[d] = "iowait" <=> pc[d] = "iowait"
    BY <2>1, <2>3, CountTypes DEF InCall, InCallOf, Reaped
  <2>5. RefsAccounted'
    <3>1. \A d \in Coro : refcount'[d] - refcount[d] = held'[d] - held[d]
      BY <2>1, <2>2, CountTypes
    <3>2. \A d \in Coro : /\ One(InCall(d)') = One(InCall(d)) /\ One(Reaped(d)') = One(Reaped(d))
                          /\ One(InCall(d)) \in Nat /\ One(Reaped(d)) \in Nat
                          /\ One(pc'[d] = "iowait") = One(pc[d] = "iowait")
                          /\ One(pc[d] = "iowait") \in Nat
      BY <2>4 DEF One
    <3>3. \A d \in Coro : refcount'[d] - refcount[d] =
             (held'[d] - held[d]) + (One(InCall(d)') - One(InCall(d)))
             + (One(pc'[d] = "iowait") - One(pc[d] = "iowait"))
             + (One(Reaped(d)') - One(Reaped(d)))
      BY <2>1, <3>1, <3>2, CountTypes
    <3> QED
      BY <1>0, <3>3, CountsAfter DEF Counts
  <2>6. ReapedOnce'
    BY <2>1 DEF Counts, ReapedOnce
  <2>7. Unreferenced' /\ FreeUnreferenced'
    BY <2>1, <2>3, CountTypes DEF Counts, Unreferenced, FreeUnreferenced
  <2> QED
    BY <2>5, <2>6, <2>7 DEF Counts
<1>2. ASSUME NEW x \in Stacks, NEW c \in Coro, Retain(x, c) PROVE Counts'
  <2>1. /\ current = x /\ pc[x] \in {"run", "closure"} /\ (c = x \/ held[c] > 0)
        /\ refcount' = [refcount EXCEPT ![c] = @ + 1] /\ held' = [held EXCEPT ![c] = @ + 1]
        /\ UNCHANGED <<status, pc, callee, reaping>>
    BY <1>2, DoesAt DEF Retain
  <2>2. status[c] # "FREE"
    BY <2>1, NoReferences, CountTypes DEF Counts, FreeUnreferenced, Control, CurrentRuns
  <2>3. \A d \in Coro : (InCall(d)' <=> InCall(d)) /\ (Reaped(d)' <=> Reaped(d))
    BY <2>1 DEF InCall, InCallOf, Reaped
  <2>4. RefsAccounted'
    <3>1. \A d \in Coro : refcount'[d] - refcount[d] = held'[d] - held[d]
      BY <2>1, CountTypes
    <3> QED
      BY <1>0, <2>1, <2>3, <3>1, CountTypes, CountsAfter DEF One, Counts
  <2>5. ReapedOnce' /\ Unreferenced' /\ FreeUnreferenced'
    BY <1>a, <2>1, <2>2, CountTypes DEF Counts, ReapedOnce, Unreferenced, FreeUnreferenced
  <2> QED
    BY <2>4, <2>5 DEF Counts
<1>3. ASSUME NEW x \in Stacks, NEW c \in Coro, Release(x, c) PROVE Counts'
  <2>1. /\ current = x /\ pc[x] \in {"run", "closure"} /\ held[c] > 0
        /\ held' = [held EXCEPT ![c] = @ - 1] /\ callee' = callee /\ status' = status
        /\ Decref(x, c)
    BY <1>3, DoesAt DEF Release
  <2>2. reaping[x] = Nil
    BY <2>1, NotReaping
  <2> QED
    BY <1>0, <2>1, <2>2, DecrefCounts
<1>4. ASSUME NEW x \in Stacks, NEW c \in Coro, Resume(x, c) PROVE Counts'
  <2>1. /\ current = x /\ pc[x] \in {"run", "closure"} /\ status[c] \in {"NEW", "SUSPENDED"}
        /\ status' = [status EXCEPT ![c] = "RUNNING"] /\ pc' = [pc EXCEPT ![x] = "resume"]
        /\ callee' = [callee EXCEPT ![x] = c] /\ refcount' = [refcount EXCEPT ![c] = @ + 1]
        /\ held' = held /\ reaping' = reaping
    BY <1>4, DoesAt DEF Resume, SwapInto
  <2>2. \A d \in Coro : Reaped(d)' <=> Reaped(d)
    BY <2>1, CountTypes DEF Reaped
  <2>9. /\ ~InCall(c)
        /\ \A d \in Coro : /\ InCall(d)' <=> d = c \/ InCall(d)
                           /\ pc'[d] = "iowait" <=> pc[d] = "iowait"
        /\ \A y \in Stacks : pc'[y] # "destroy"
    BY <1>b, <2>1, CountTypes
  <2>3. RefsAccounted'
    <3>1. \A d \in Coro : refcount'[d] - refcount[d] = One(d = c)
      BY <2>1, CountTypes DEF One
    <3> QED
      BY <1>0, <2>9, <2>1, <2>2, <3>1, CountTypes, CountsAfter DEF One, Counts
  <2>4. ReapedOnce' /\ Unreferenced' /\ FreeUnreferenced'
    BY <2>9, <2>1, CountTypes DEF Counts, ReapedOnce, Unreferenced, FreeUnreferenced
  <2> QED
    BY <2>3, <2>4 DEF Counts
<1>5. ASSUME NEW x \in Stacks, ResumeReturn(x) PROVE Counts'
  <2> DEFINE c == callee[x]
  <2>1. /\ c \in Coro /\ current = x /\ pc[x] = "resume" /\ InCallOf(x, c)
        /\ callee' = [callee EXCEPT ![x] = Nil] /\ held' = held /\ status' = status
    BY <1>5, CountTypes DEF ResumeReturn, At, InCallOf
  <2>2. CASE reaping[x] = c
    <3>1. /\ refcount' = [refcount EXCEPT ![c] = @ - 1] /\ reaping' = reaping
          /\ pc' = [pc EXCEPT ![x] = "free"]
      BY <1>5, <2>2 DEF ResumeReturn
    <3>2. InCall(c) /\ Reaped(c)
      BY <2>1, <2>2 DEF InCall, Reaped
    <3>3. \A d \in Coro : /\ InCall(d)' <=> d # c /\ InCall(d)
                          /\ Reaped(d)' <=> Reaped(d)
                          /\ pc'[d] = "iowait" <=> pc[d] = "iowait"
      BY <2>1, <3>1, CountTypes, OneCall DEF InCall, InCallOf, Reaped
    <3>4. RefsAccounted'
      <4>1. \A d \in Coro : refcount'[d] - refcount[d] = One(InCall(d)') - One(InCall(d))
        BY <2>1, <3>1, <3>2, <3>3, CountTypes DEF One
      <4> QED
        BY <1>0, <2>1, <3>3, <4>1, CountTypes, CountsAfter DEF One, Counts
    <3>5. status[c] # "FREE"
      BY <2>1 DEF Control, CallsMatch
    <3>6. ReapedOnce' /\ Unreferenced' /\ FreeUnreferenced'
      BY <1>a, <2>1, <3>1, <3>5, CountTypes DEF Counts, ReapedOnce, Unreferenced, FreeUnreferenced
    <3> QED
      BY <3>4, <3>6 DEF Counts
  <2>3. CASE reaping[x] # c
    <3>1. Decref(x, c)
      BY <1>5, <2>3 DEF ResumeReturn
    <3>2. reaping[x] = Nil
      BY <2>1, <2>3 DEF Reaping
    <3> QED
      BY <1>0, <2>1, <3>1, <3>2, DecrefCounts
  <2> QED
    BY <2>2, <2>3
<1>6. ASSUME NEW c \in Coro, NEW st \in {"SUSPENDED", "DEAD"}, NEW at \in {"yield", "exit"},
             pc[c] \in {"run", "closure"}, current = c, SwapOut(c, st, at),
             UNCHANGED <<refcount, held, callee, reaping>>
      PROVE  Counts'
  <2>1. status[c] = "RUNNING"
    BY <1>6 DEF Control, CurrentRuns
  <2> QED
    BY <1>0, <1>6, <2>1, CountTypes, SameCounts DEF SwapOut
<1>7. ASSUME NEW c \in Coro, Yield(c) \/ Exit(c) PROVE Counts'
  BY <1>6, <1>7, DoesAt DEF Yield, Exit, At
<1>8. ASSUME NEW c \in Coro, YieldReturn(c) \/ Catch(c) PROVE Counts'
  <2>1. \/ pc' = pc
        \/ pc[c] = "yield" /\ pc' = [pc EXCEPT ![c] = Base(c)]
    BY <1>8 DEF YieldReturn, Catch, At
  <2>2. UNCHANGED <<status, refcount, held, callee, reaping>>
    BY <1>8 DEF YieldReturn, Catch
  <2> QED
    BY <1>0, <2>1, <2>2, BaseAt, CountTypes, SameCounts
<1>10. ASSUME NEW c \in Coro, IoWait(c) PROVE Counts'
  <2>1. /\ current = c /\ pc[c] \in {"run", "closure"}
        /\ status' = [status EXCEPT ![c] = "IO"] /\ pc' = [pc EXCEPT ![c] = "iowait"]
        /\ refcount' = [refcount EXCEPT ![c] = @ + 1]
        /\ UNCHANGED <<held, callee, reaping>>
    BY <1>10, DoesAt DEF IoWait, SwapOut
  <2>2. reaping[c] = Nil
    BY <2>1, NotReaping, CountTypes
  <2>3. \A d \in Coro : /\ InCall(d)' <=> InCall(d)
                        /\ Reaped(d)' <=> Reaped(d)
                        /\ pc'[d] = "iowait" <=> d = c \/ pc[d] = "iowait"
    BY <2>1, <2>2, CountTypes DEF InCall, InCallOf, Reaped
  <2>4. RefsAccounted'
    <3>1. \A d \in Coro : refcount'[d] - refcount[d]
                          = One(pc'[d] = "iowait") - One(pc[d] = "iowait")
      BY <2>1, <2>3, CountTypes DEF One
    <3>2. \A d \in Coro : /\ One(InCall(d)') = One(InCall(d)) /\ One(Reaped(d)') = One(Reaped(d))
                          /\ One(InCall(d)) \in Nat /\ One(Reaped(d)) \in Nat
                          /\ One(pc'[d] = "iowait") \in Nat /\ One(pc[d] = "iowait") \in Nat
      BY <2>3 DEF One
    <3> QED
      BY <1>0, <2>1, <3>1, <3>2, CountTypes, CountsAfter DEF Counts
  <2>5. ReapedOnce' /\ Unreferenced' /\ FreeUnreferenced'
    BY <1>a, <2>1, CountTypes DEF Counts, ReapedOnce, Unreferenced, FreeUnreferenced
  <2> QED
    BY <2>4, <2>5 DEF Counts
<1>11. ASSUME NEW c \in Coro, IoWaitReturn(c) PROVE Counts'
  <2>1. /\ current = c /\ pc[c] = "iowait" /\ Decref(c, c)
        /\ UNCHANGED <<held, callee, status>>
    BY <1>11 DEF IoWaitReturn, At, heapVars
  <2>2. reaping[c] = Nil
    BY <2>1, NotReaping, CountTypes
  <2> QED
    BY <1>0, <2>1, <2>2, CountTypes, DecrefCounts
<1>12. ASSUME NEW c \in Coro, IoResume(c) PROVE Counts'
  <2>1. /\ current = Main /\ pc[Main] = "run" /\ status[c] = "IO"
        /\ status' = [status EXCEPT ![c] = "RUNNING"]
        /\ pc' = [pc EXCEPT ![Main] = "ioresume"]
        /\ callee' = [callee EXCEPT ![Main] = c]
        /\ refcount' = [refcount EXCEPT ![c] = @ + 1]
        /\ held' = held /\ reaping' = reaping
    BY <1>12 DEF IoResume, At
  <2>2. \A d \in Coro : Reaped(d)' <=> Reaped(d)
    BY <2>1, CountTypes DEF Reaped
  <2>9. /\ ~InCall(c)
        /\ \A d \in Coro : /\ InCall(d)' <=> d = c \/ InCall(d)
                           /\ pc'[d] = "iowait" <=> pc[d] = "iowait"
        /\ \A y \in Stacks : pc'[y] # "destroy"
    BY <1>b, <2>1, CountTypes
  <2>3. RefsAccounted'
    <3>1. \A d \in Coro : refcount'[d] - refcount[d] = One(d = c)
      BY <2>1, CountTypes DEF One
    <3> QED
      BY <1>0, <2>9, <2>1, <2>2, <3>1, CountTypes, CountsAfter DEF One, Counts
  <2>4. ReapedOnce' /\ Unreferenced' /\ FreeUnreferenced'
    BY <2>9, <2>1, CountTypes DEF Counts, ReapedOnce, Unreferenced, FreeUnreferenced
  <2> QED
    BY <2>3, <2>4 DEF Counts
<1>13. CASE IoResumeReturn
  <2> DEFINE c == callee[Main]
  <2>1. /\ c \in Coro /\ current = Main /\ pc[Main] = "ioresume" /\ InCallOf(Main, c)
        /\ callee' = [callee EXCEPT ![Main] = Nil] /\ held' = held /\ status' = status
        /\ Decref(Main, c)
    BY <1>13, CountTypes DEF IoResumeReturn, At, InCallOf, heapVars
  <2>2. reaping[Main] = Nil
    BY <2>1, NotReaping, CountTypes
  <2> QED
    BY <1>0, <2>1, <2>2, CountTypes, DecrefCounts
<1>14. ASSUME NEW x \in Stacks, DestroySuspended(x) PROVE Counts'
  <2> DEFINE c == reaping[x]
  <2>1. /\ c \in Coro /\ current = x /\ pc[x] = "destroy" /\ status[c] = "SUSPENDED"
        /\ status' = [status EXCEPT ![c] = "RUNNING"] /\ pc' = [pc EXCEPT ![x] = "resume"]
        /\ callee' = [callee EXCEPT ![x] = c] /\ refcount' = [refcount EXCEPT ![c] = @ + 2]
        /\ held' = held /\ reaping' = reaping
    BY <1>14, CountTypes DEF DestroySuspended, SwapInto, At
  <2>2. ~Reaped(c) /\ ~InCall(c)
    BY <2>1, NoReferences DEF Counts, Unreferenced
  <2>3. \A d \in Coro : Reaped(d)' <=> d = c \/ Reaped(d)
    BY <2>1, CountTypes DEF Reaped
  <2> HIDE DEF c
  <2>9. /\ ~InCall(c)
        /\ \A d \in Coro : /\ InCall(d)' <=> d = c \/ InCall(d)
                           /\ pc'[d] = "iowait" <=> pc[d] = "iowait"
        /\ \A y \in Stacks : pc'[y] # "destroy"
    BY <1>b, <2>1, CountTypes
  <2>4. RefsAccounted'
    <3>1. \A d \in Coro : refcount'[d] - refcount[d] = One(d = c) + One(d = c)
      BY <2>1, CountTypes DEF One
    <3> QED
      BY <1>0, <2>9, <2>1, <2>2, <2>3, <3>1, CountTypes, CountsAfter DEF One, Counts
  <2>5. ReapedOnce' /\ Unreferenced' /\ FreeUnreferenced'
    BY <2>9, <2>1, CountTypes DEF Counts, ReapedOnce, Unreferenced, FreeUnreferenced
  <2> QED
    BY <2>4, <2>5 DEF Counts
<1>15. ASSUME NEW x \in Stacks, DestroyIdle(x) PROVE Counts'
  <2>1. current = x /\ pc[x] = "destroy" /\ held' = held /\ callee' = callee
    BY <1>15 DEF DestroyIdle, At
  <2>2. CASE status[reaping[x]] \in {"RUNNING", "IO"}
    <3>1. UNCHANGED <<status, refcount, pc, reaping>>
      BY <1>15, <2>2 DEF DestroyIdle
    <3> QED
      BY <1>0, <2>1, <3>1, SameCounts
  <2>3. CASE status[reaping[x]] \notin {"RUNNING", "IO"}
    <3>1. Free(x, reaping[x])
      BY <1>15, <2>3 DEF DestroyIdle
    <3> QED
      BY <1>0, <2>1, <3>1, FreeCounts
  <2> QED
    BY <2>2, <2>3
<1>16. ASSUME NEW x \in Stacks, DestroyUnwound(x) PROVE Counts'
  <2>1. current = x /\ pc[x] = "free" /\ held' = held /\ callee' = callee
    BY <1>16 DEF DestroyUnwound, At
  <2>2. CASE refcount[reaping[x]] # 1
    <3>1. UNCHANGED <<status, refcount, pc, reaping>>
      BY <1>16, <2>2 DEF DestroyUnwound
    <3> QED
      BY <1>0, <2>1, <3>1, SameCounts
  <2>3. CASE refcount[reaping[x]] = 1
    <3>1. Free(x, reaping[x])
      BY <1>16, <2>3 DEF DestroyUnwound
    <3> QED
      BY <1>0, <2>1, <2>3, <3>1, FreeCounts
  <2> QED
    BY <2>2, <2>3
<1>17. ASSUME NEW x \in Stacks, DestroyEnd(x) PROVE Counts'
  <2>1. PICK v \in {"run", "closure"} : pc' = [pc EXCEPT ![x] = v]
    BY <1>17 DEF DestroyEnd
  <2>2. pc[x] = "closure" /\ UNCHANGED <<status, refcount, held, callee, reaping>>
    BY <1>17 DEF DestroyEnd, At
  <2> QED
    BY <1>0, <2>1, <2>2, CountTypes, SameCounts
<1>18. CASE UNCHANGED vars
  <2>1. UNCHANGED <<status, refcount, held, callee, reaping, pc>>
    BY <1>18 DEF vars
  <2> QED
    BY <1>0, <2>1, SameCounts
<1> QED
  BY <1>1, <1>2, <1>3, <1>4, <1>5, <1>7, <1>8, <1>10, <1>11, <1>12, <1>13, <1>14,
     <1>15, <1>16, <1>17, <1>18 DEF Next, Program, Destroy

LEMMA InitCounts == Init => Counts
<1> SUFFICES ASSUME Init PROVE Counts
  OBVIOUS
<1>1. /\ \A d \in Coro : /\ refcount[d] = 0 /\ held[d] = 0 /\ pc[d] = "run"
                         /\ ~InCall(d) /\ ~Reaped(d)
      /\ \A x \in Stacks : reaping[x] = Nil /\ pc[x] = "run"
  BY DEF Init, InCall, InCallOf, Reaped, Stacks
<1>2. RefsAccounted
  BY <1>1 DEF RefsAccounted, One, InCall, Reaped
<1>3. ReapedOnce /\ Unreferenced /\ FreeUnreferenced
  BY <1>1 DEF ReapedOnce, Unreferenced, FreeUnreferenced
<1> QED
  BY <1>2, <1>3 DEF Counts

-----------------------------------------------------------------------------
(* The list of coroutines changes only when one is created or freed.       *)
LEMMA SameRegistry ==
  ASSUME RegistryExact, UNCHANGED <<index, registry>>,
         \A d \in Coro : status'[d] = "FREE" <=> status[d] = "FREE"
  PROVE  RegistryExact'
<1>1. Allocated' = Allocated
  BY DEF Allocated
<1> QED
  BY <1>1 DEF RegistryExact

LEMMA AppendRegistry ==
  ASSUME TypeInv, RegistryExact, NEW c \in Coro, status[c] = "FREE", NEW st, st # "FREE",
         status' = [status EXCEPT ![c] = st],
         index' = [index EXCEPT ![c] = Len(registry)], registry' = Append(registry, c)
  PROVE  RegistryExact'
<1> DEFINE n == Len(registry)
<1>1. registry \in Seq(Coro) /\ index \in [Coro -> Nat] /\ status \in [Stacks -> Statuses]
  BY CountTypes DEF TypeInv, TypeOK
<1>2. /\ Len(registry') = n + 1 /\ registry'[n + 1] = c
      /\ \A i \in 1 .. n : registry'[i] = registry[i]
      /\ n \in Nat /\ \A i \in 1 .. n : registry[i] \in Coro
  BY <1>1, AppendProperties
<1>3. Allocated' = Allocated \cup {c} /\ c \notin Allocated /\ Allocated \subseteq Coro
  BY <1>1, CountTypes DEF Allocated
<1> HIDE DEF n
<1>4. ASSUME NEW d \in Allocated'
      PROVE  index'[d] < Len(registry)' /\ registry'[index'[d] + 1] = d
  <2>1. CASE d = c
    BY <1>1, <1>2, <2>1 DEF n
  <2>2. CASE d # c
    <3>1. /\ index'[d] = index[d] /\ index[d] < n /\ registry[index[d] + 1] = d
          /\ index[d] \in Nat
      BY <1>1, <1>3, <2>2 DEF RegistryExact, n
    <3> QED
      BY <1>2, <3>1
  <2> QED
    BY <2>1, <2>2
<1>5. ASSUME NEW i \in 1 .. Len(registry')
      PROVE  registry'[i] \in Allocated' /\ index'[registry'[i]] = i - 1
  <2>1. CASE i = n + 1
    BY <1>1, <1>2, <1>3, <2>1 DEF n
  <2>2. CASE i # n + 1
    <3>1. i \in 1 .. n
      BY <1>2, <2>2
    <3>2. registry'[i] = registry[i] /\ registry[i] \in Allocated /\ index[registry[i]] = i - 1
      BY <1>2, <3>1 DEF RegistryExact, n
    <3> QED
      BY <1>1, <1>3, <3>2
  <2> QED
    BY <2>1, <2>2
<1> QED
  BY <1>4, <1>5 DEF RegistryExact

(* The entry that moves into the gap is found at its new place.            *)
LEMMA UnlistRegistry ==
  ASSUME TypeInv, RegistryExact, NEW c \in Coro, status[c] # "FREE", Unlist(c),
         status' = [status EXCEPT ![c] = "FREE"]
  PROVE  RegistryExact'
<1> DEFINE n == Len(registry)
           l == registry[n]
           k == index[c] + 1
           r == [registry EXCEPT ![k] = l]
<1>1. registry \in Seq(Coro) /\ index \in [Coro -> Nat] /\ status \in [Stacks -> Statuses]
  BY CountTypes DEF TypeInv, TypeOK
<1>2. Allocated' = Allocated \ {c} /\ c \in Allocated /\ Allocated \subseteq Coro
  BY <1>1, CountTypes DEF Allocated
<1>3. n \in Nat /\ k \in 1 .. n /\ registry[k] = c
  BY <1>1, <1>2 DEF RegistryExact
<1>4. /\ n \in 1 .. n /\ l \in Allocated /\ index[l] = n - 1 /\ registry[n] = l
      /\ registry \in [1 .. n -> Coro]
  BY <1>1, <1>3 DEF RegistryExact
<1>5. /\ registry' = SubSeq(r, 1, n - 1)
      /\ index' = [index EXCEPT ![l] = index[c]]
  BY DEF Unlist
<1>6. /\ Len(registry') = n - 1
      /\ \A i \in 1 .. n - 1 : registry'[i] = IF i = k THEN l ELSE registry[i]
  <2>1. \A i \in 1 .. n : r[i] = IF i = k THEN l ELSE registry[i]
    BY <1>4
  <2> HIDE DEF l
  <2>2. r \in Seq(Coro) /\ Len(r) = n
    BY <1>1, <1>2, <1>3, <1>4
  <2> HIDE DEF r, n, k
  <2> QED
    BY <1>3, <1>5, <2>1, <2>2, SubSeqProperties
<1>7. index[c] \in Nat /\ index[c] + 1 = k /\ index[c] = k - 1
  BY <1>1
<1>8. \A d \in Allocated : index[d] \in 0 .. n - 1 /\ registry[index[d] + 1] = d
  BY <1>1, <1>2 DEF RegistryExact
<1>9. \A i \in 1 .. n : registry[i] \in Allocated /\ index[registry[i]] = i - 1
  BY DEF RegistryExact
<1> HIDE DEF n, l, k, r
<1>10. ASSUME NEW d \in Allocated'
       PROVE  index'[d] < Len(registry)' /\ registry'[index'[d] + 1] = d
  <2>1. CASE d = l
    <3>1. index'[d] = k - 1 /\ k # n
      BY <1>1, <1>2, <1>3, <1>4, <1>5, <1>7, <2>1
    <3> QED
      BY <1>3, <1>6, <2>1, <3>1
  <2>2. CASE d # l
    <3>1. index'[d] = index[d] /\ index[d] # n - 1 /\ index[d] # k - 1
      BY <1>1, <1>2, <1>3, <1>4, <1>5, <1>8, <2>2
    <3>2. index[d] \in 0 .. n - 1 /\ registry[index[d] + 1] = d
      BY <1>2, <1>8
    <3> QED
      BY <1>3, <1>6, <3>1, <3>2
  <2> QED
    BY <2>1, <2>2
<1>11. ASSUME NEW i \in 1 .. Len(registry')
       PROVE  registry'[i] \in Allocated' /\ index'[registry'[i]] = i - 1
  <2>0. i \in 1 .. n - 1 /\ i \in 1 .. n
    BY <1>3, <1>6
  <2>1. CASE i = k
    <3>1. registry'[i] = l /\ l # c
      BY <1>3, <1>4, <1>6, <1>7, <2>0, <2>1
    <3> QED
      BY <1>1, <1>2, <1>4, <1>5, <1>7, <2>1, <3>1
  <2>2. CASE i # k
    <3>1. /\ registry'[i] = registry[i] /\ registry[i] \in Allocated
          /\ index[registry[i]] = i - 1
      BY <1>6, <1>9, <2>0, <2>2
    <3>2. registry[i] # c /\ registry[i] # l
      BY <1>3, <1>4, <1>7, <2>0, <2>2, <3>1
    <3> QED
      BY <1>1, <1>2, <1>5, <3>1, <3>2
  <2> QED
    BY <2>1, <2>2
<1> QED
  BY <1>10, <1>11 DEF RegistryExact

(* Every step keeps the list exact.                                        *)
LEMMA NextRegistry ==
  TypeInv /\ Control /\ Counts /\ RegistryExact /\ [Next]_vars => RegistryExact'
<1> SUFFICES ASSUME TypeInv, Control, Counts, RegistryExact, [Next]_vars
    PROVE  RegistryExact'
  OBVIOUS
<1> USE CountTypes DEF At
<1>1. ASSUME NEW x \in Stacks, NEW c \in Coro, NEW st \in {"NEW", "DEAD"},
             Create(x, c, st)
      PROVE  RegistryExact'
  BY <1>1, AppendRegistry DEF Create
<1>2. ASSUME NEW x \in Stacks, NEW c \in Coro, Retain(x, c) \/ Release(x, c)
      PROVE  RegistryExact'
  BY <1>2, SameRegistry DEF Retain, Release, heapVars
<1>3. ASSUME NEW c \in Coro, NEW st \in Statuses, status[c] # "FREE", st # "FREE",
             status' = [status EXCEPT ![c] = st], UNCHANGED <<index, registry>>
      PROVE  RegistryExact'
  BY <1>3, SameRegistry
<1>4. ASSUME NEW x \in Stacks, NEW c \in Coro, Resume(x, c) PROVE RegistryExact'
  BY <1>3, <1>4 DEF Resume, SwapInto, heapVars, Statuses
<1>5. ASSUME NEW x \in Stacks, ResumeReturn(x) PROVE RegistryExact'
  BY <1>5, SameRegistry DEF ResumeReturn, heapVars
<1>6. ASSUME NEW c \in Coro, Yield(c) \/ Exit(c) \/ IoWait(c) PROVE RegistryExact'
  <2>1. current = c
    BY <1>6, DoesAt DEF Yield, Exit, IoWait
  <2>2. status[c] # "FREE"
    BY <2>1 DEF Control, CurrentRuns
  <2>3. PICK st \in {"SUSPENDED", "DEAD", "IO"} : status' = [status EXCEPT ![c] = st]
    BY <1>6 DEF Yield, Exit, IoWait, SwapOut
  <2> QED
    BY <1>3, <1>6, <2>2, <2>3 DEF Yield, Exit, IoWait, heapVars, Statuses
<1>7. ASSUME NEW c \in Coro, YieldReturn(c) \/ Catch(c) \/ IoWaitReturn(c)
      PROVE  RegistryExact'
  BY <1>7, SameRegistry DEF YieldReturn, Catch, IoWaitReturn, heapVars
<1>8. ASSUME NEW c \in Coro, IoResume(c) PROVE RegistryExact'
  BY <1>3, <1>8 DEF IoResume, heapVars, Statuses
<1>9. CASE IoResumeReturn
  BY <1>9, SameRegistry DEF IoResumeReturn, heapVars
<1>10. ASSUME NEW x \in Stacks, DestroySuspended(x) PROVE RegistryExact'
  BY <1>3, <1>10 DEF DestroySuspended, SwapInto, Statuses
<1>11. ASSUME NEW x \in Stacks, NEW c \in Coro, status[c] # "FREE", Free(x, c)
       PROVE  RegistryExact'
  BY <1>11, UnlistRegistry DEF Free
<1>12. ASSUME NEW x \in Stacks, DestroyIdle(x) PROVE RegistryExact'
  <2>1. reaping[x] \in Coro /\ status[reaping[x]] # "FREE"
    BY <1>12 DEF DestroyIdle, Counts, Unreferenced
  <2>2. Free(x, reaping[x]) \/ UNCHANGED <<status, index, registry>>
    BY <1>12 DEF DestroyIdle
  <2> QED
    BY <1>11, <2>1, <2>2, SameRegistry
<1>13. ASSUME NEW x \in Stacks, DestroyUnwound(x) PROVE RegistryExact'
  <2>1. reaping[x] \in Coro /\ status[reaping[x]] # "FREE"
    BY <1>13 DEF DestroyUnwound, Control, FreedEnded
  <2>2. Free(x, reaping[x]) \/ UNCHANGED <<status, index, registry>>
    BY <1>13 DEF DestroyUnwound
  <2> QED
    BY <1>11, <2>1, <2>2, SameRegistry
<1>14. ASSUME NEW x \in Stacks, DestroyEnd(x) PROVE RegistryExact'
  BY <1>14, SameRegistry DEF DestroyEnd
<1>15. CASE UNCHANGED vars
  BY <1>15, SameRegistry DEF vars
<1> HIDE DEF At
<1> QED
  BY <1>1, <1>2, <1>4, <1>5, <1>6, <1>7, <1>8, <1>9, <1>10, <1>12, <1>13, <1>14,
     <1>15 DEF Next, Program, Destroy

-----------------------------------------------------------------------------
(* The count of waiting coroutines changes with the coroutines that wait.  *)
Waiters == {c \in Coro : pc[c] = "iowait"}

LEMMA SameWaiting ==
  ASSUME WaitingExact, waiting' = waiting,
         \A d \in Coro : pc'[d] = "iowait" <=> pc[d] = "iowait"
  PROVE  WaitingExact'
<1>1. Waiters' = Waiters
  BY DEF Waiters
<1> QED
  BY <1>1 DEF WaitingExact, Waiters

(* So does a step that moves one stack, neither into nor out of a wait.    *)
LEMMA MovedWaiting ==
  ASSUME TypeInv, WaitingExact, waiting' = waiting, NEW x \in Stacks, NEW p,
         p # "iowait", pc[x] # "iowait", pc' = [pc EXCEPT ![x] = p]
  PROVE  WaitingExact'
  BY CountTypes, SameWaiting

(* Every step keeps the count of waiting coroutines exact.                 *)
LEMMA NextWaiting ==
  TypeInv /\ Control /\ Counts /\ WaitingExact /\ [Next]_vars => WaitingExact'
<1> SUFFICES ASSUME TypeInv, Control, Counts, WaitingExact, [Next]_vars
    PROVE  WaitingExact'
  OBVIOUS
<1> USE CountTypes DEF At
<1>0. IsFiniteSet(Waiters) /\ waiting = Cardinality(Waiters)
  BY FS_Subset DEF Waiters, WaitingExact
<1>1. ASSUME NEW x \in Stacks, NEW c \in Coro, NEW st \in {"NEW", "DEAD"},
             Create(x, c, st)
      PROVE  WaitingExact'
  <2>1. pc[c] # "iowait"
    BY <1>1, NoReferences DEF Create, Counts, FreeUnreferenced
  <2> QED
    BY <1>1, <2>1, MovedWaiting DEF Create
<1>2. ASSUME NEW x \in Stacks, NEW c \in Coro, Retain(x, c) PROVE WaitingExact'
  BY <1>2, SameWaiting DEF Retain
<1>3. ASSUME NEW x \in Stacks, NEW c \in Coro, Release(x, c) PROVE WaitingExact'
  BY <1>3, DoesAt, BaseAt, MovedWaiting DEF Release, Decref
<1>4. ASSUME NEW x \in Stacks, NEW c \in Coro, Resume(x, c) PROVE WaitingExact'
  BY <1>4, DoesAt, MovedWaiting DEF Resume, SwapInto
<1>5. ASSUME NEW x \in Stacks, ResumeReturn(x) PROVE WaitingExact'
  <2>1. PICK p \in {"free", "destroy", "run", "closure"} : pc' = [pc EXCEPT ![x] = p]
    BY <1>5, BaseAt DEF ResumeReturn, Decref
  <2> QED
    BY <1>5, <2>1, MovedWaiting DEF ResumeReturn
<1>6. ASSUME NEW c \in Coro, Yield(c) \/ Exit(c) PROVE WaitingExact'
  <2>1. PICK p \in {"yield", "exit"} : pc' = [pc EXCEPT ![c] = p]
    BY <1>6 DEF Yield, Exit, SwapOut
  <2> QED
    BY <1>6, <2>1, DoesAt, MovedWaiting DEF Yield, Exit
<1>7. ASSUME NEW c \in Coro, YieldReturn(c) PROVE WaitingExact'
  BY <1>7, BaseAt, MovedWaiting DEF YieldReturn
<1>8. ASSUME NEW c \in Coro, Catch(c) PROVE WaitingExact'
  BY <1>8, SameWaiting DEF Catch
<1>9. ASSUME NEW c \in Coro, IoWait(c) PROVE WaitingExact'
  <2>1. /\ pc[c] \in {"run", "closure"} /\ pc' = [pc EXCEPT ![c] = "iowait"]
        /\ waiting' = waiting + 1
    BY <1>9, DoesAt DEF IoWait, SwapOut
  <2>2. c \notin Waiters /\ Waiters' = Waiters \cup {c}
    BY <2>1 DEF Waiters
  <2>3. Cardinality(Waiters \cup {c}) = Cardinality(Waiters) + 1
    BY <1>0, <2>2, FS_AddElement
  <2>4. waiting' = Cardinality(Waiters')
    BY <1>0, <2>1, <2>2, <2>3
  <2> QED
    BY <2>4 DEF WaitingExact, Waiters
<1>10. ASSUME NEW c \in Coro, IoWaitReturn(c) PROVE WaitingExact'
  <2>1. /\ pc[c] = "iowait" /\ pc'[c] # "iowait" /\ \A y \in Stacks : y # c => pc'[y] = pc[y]
        /\ waiting' = waiting - 1
    BY <1>10, BaseAt DEF IoWaitReturn, Decref
  <2>2. c \in Waiters /\ Waiters' = Waiters \ {c}
    BY <2>1 DEF Waiters
  <2>3. Cardinality(Waiters \ {c}) = Cardinality(Waiters) - 1
    BY <1>0, <2>2, FS_RemoveElement
  <2>4. waiting' = Cardinality(Waiters')
    BY <1>0, <2>1, <2>2, <2>3
  <2> QED
    BY <2>4 DEF WaitingExact, Waiters
<1>11. ASSUME NEW c \in Coro, IoResume(c) PROVE WaitingExact'
  BY <1>11, MovedWaiting DEF IoResume
<1>12. CASE IoResumeReturn
  BY <1>12, BaseAt, MovedWaiting DEF IoResumeReturn, Decref
<1>13. ASSUME NEW x \in Stacks, DestroySuspended(x) PROVE WaitingExact'
  BY <1>13, MovedWaiting DEF DestroySuspended, SwapInto
<1>14. ASSUME NEW x \in Stacks, DestroyIdle(x) PROVE WaitingExact'
  <2>1. /\ pc[x] \in {"destroy", "free"} /\ waiting' = waiting
        /\ pc' = pc \/ pc' = [pc EXCEPT ![x] = "closure"]
    BY <1>14 DEF DestroyIdle, Free
  <2> QED
    BY <2>1, MovedWaiting, SameWaiting
<1>15. ASSUME NEW x \in Stacks, DestroyUnwound(x) PROVE WaitingExact'
  <2>1. /\ pc[x] \in {"destroy", "free"} /\ waiting' = waiting
        /\ pc' = pc \/ pc' = [pc EXCEPT ![x] = "closure"]
    BY <1>15 DEF DestroyUnwound, Free
  <2> QED
    BY <2>1, MovedWaiting, SameWaiting
<1>16. ASSUME NEW x \in Stacks, DestroyEnd(x) PROVE WaitingExact'
  <2>1. PICK p \in {"run", "closure"} : pc' = [pc EXCEPT ![x] = p]
    BY <1>16 DEF DestroyEnd
  <2> QED
    BY <1>16, <2>1, MovedWaiting DEF DestroyEnd
<1>17. CASE UNCHANGED vars
  BY <1>17, SameWaiting DEF vars
<1> HIDE DEF At
<1> QED
  BY <1>1, <1>2, <1>3, <1>4, <1>5, <1>6, <1>7, <1>8, <1>9, <1>10, <1>11, <1>12,
     <1>13, <1>14, <1>15, <1>16, <1>17 DEF Next, Program, Destroy

-----------------------------------------------------------------------------
LEMMA InitAccounted == Init => RegistryExact /\ WaitingExact
<1> SUFFICES ASSUME Init PROVE RegistryExact /\ WaitingExact
  OBVIOUS
<1>1. Allocated = {} /\ Len(registry) = 0
  BY EmptySeq DEF Init, Allocated, Stacks
<1>2. Waiters = {} /\ waiting = 0
  BY DEF Init, Waiters, Stacks
<1>3. RegistryExact
  BY <1>1 DEF RegistryExact
<1>4. WaitingExact
  <2>1. Cardinality(Waiters) = 0
    BY <1>2, FS_EmptySet
  <2> QED
    BY <1>2, <2>1 DEF WaitingExact, Waiters
<1> QED
  BY <1>3, <1>4

(* The invariant that makes the counts exact.                              *)
LEMMA CountsInvariant == Spec => [](TypeInv /\ Reaping /\ Control /\ Counts)
<1>1. TypeInv /\ Reaping /\ Control /\ Counts /\ [Next]_vars => Counts'
  BY NextCounts
<1> QED
  BY <1>1, InitCounts, ControlInvariant, PTL DEF Spec

(* No swap, destructor or wait for I/O loses or adds a reference, an entry *)
(* of coroutines() or a waiting coroutine, for any number of coroutines    *)
(* and whatever the destructors of their objects do.                       *)
THEOREM AccountedHolds == Spec => []Accounted
<1>1. TypeInv /\ Control /\ Counts /\ RegistryExact /\ WaitingExact /\ [Next]_vars
        => RegistryExact' /\ WaitingExact'
  BY NextRegistry, NextWaiting
<1>2. Counts => RefsAccounted
  BY DEF Counts
<1> QED
  BY <1>1, <1>2, InitAccounted, CountsInvariant, PTL DEF Spec, Accounted

-----------------------------------------------------------------------------
(***************************************************************************)
(* What holds when the destructors of objects resume coroutines, but never *)
(* swap out themselves: the exception flag is set exactly while a stack    *)
(* unwinds, a coroutine is freed only once its stack has ended, and no     *)
(* destructor aborts the process.  (With a destructor that waits for I/O   *)
(* none of the three holds.)                                               *)
(***************************************************************************)

(* The hypothesis of the theorems that follow.                             *)
DestructorsResume == DestructorOps \subseteq {"resume"}

(* A stack inside Coroutine__destroy runs its destructors and their calls. *)
SavedPlace ==
    \A x \in Stacks : saved[x] # << >> => pc[x] \in {"closure", "resume", "destroy", "free"}

(* What a destructor does not do, only the program does.                   *)
LEMMA DoesProgram ==
  ASSUME DestructorsResume, NEW x, NEW op, op \notin {"release", "resume"}, Does(x, op)
  PROVE  panic = "none" /\ current = x /\ pc[x] = "run" /\ ~unwinding[x]
  BY DEF DestructorsResume, Does, At

(* A step that leaves the saved flags alone and moves x.                   *)
LEMMA MovedSavedPlace ==
  ASSUME TypeInv, SavedPlace, saved' = saved, NEW x \in Stacks, NEW p,
         pc' = [pc EXCEPT ![x] = p],
         saved[x] # << >> => p \in {"closure", "resume", "destroy", "free"}
  PROVE  SavedPlace'
  BY CountTypes DEF SavedPlace

LEMMA NextSavedPlace ==
  ASSUME DestructorsResume, TypeInv, Control, Reaping, Counts, SavedPlace, [Next]_vars
  PROVE  SavedPlace'
<1> USE CountTypes DEF At, SavedPlace
<1>0. \A x \in Stacks : saved[x] # << >> => Base(x) = "closure"
  BY DEF Base
<1>1. ASSUME NEW x \in Stacks, NEW c \in Coro, NEW st \in {"NEW", "DEAD"},
             Create(x, c, st)
      PROVE  SavedPlace'
  <2>1. saved[c] = << >>
    BY <1>1 DEF Create, Control, PlaceMatches
  <2> QED
    BY <1>1, <2>1, MovedSavedPlace DEF Create
<1>2. ASSUME NEW x \in Stacks, NEW c \in Coro, Retain(x, c) PROVE SavedPlace'
  BY <1>2 DEF Retain, heapVars
<1>3. ASSUME NEW x \in Stacks, NEW c \in Coro, Release(x, c) PROVE SavedPlace'
  BY <1>0, <1>3, MovedSavedPlace DEF Release, Decref, heapVars
<1>4. ASSUME NEW x \in Stacks, NEW c \in Coro, Resume(x, c) PROVE SavedPlace'
  BY <1>4, MovedSavedPlace DEF Resume, SwapInto, heapVars
<1>5. ASSUME NEW x \in Stacks, ResumeReturn(x) PROVE SavedPlace'
  <2>1. PICK p \in {"free", "destroy", Base(x)} : pc' = [pc EXCEPT ![x] = p]
    BY <1>5 DEF ResumeReturn, Decref
  <2> QED
    BY <1>0, <1>5, <2>1, MovedSavedPlace DEF ResumeReturn, heapVars
<1>6. ASSUME NEW c \in Coro, Yield(c) \/ Exit(c) \/ IoWait(c) PROVE SavedPlace'
  <2>1. pc[c] = "run"
    BY <1>6, DoesProgram DEF Yield, Exit, IoWait
  <2>2. PICK p \in {"yield", "exit", "iowait"} : pc' = [pc EXCEPT ![c] = p]
    BY <1>6 DEF Yield, Exit, IoWait, SwapOut
  <2> QED
    BY <1>6, <2>1, <2>2, MovedSavedPlace DEF Yield, Exit, IoWait, heapVars
<1>7. ASSUME NEW c \in Coro, YieldReturn(c) PROVE SavedPlace'
  BY <1>0, <1>7, MovedSavedPlace DEF YieldReturn
<1>8. ASSUME NEW c \in Coro, Catch(c) PROVE SavedPlace'
  BY <1>8 DEF Catch
<1>9. ASSUME NEW c \in Coro, IoWaitReturn(c) PROVE SavedPlace'
  BY <1>0, <1>9, MovedSavedPlace DEF IoWaitReturn, Decref, heapVars
<1>10. ASSUME NEW c \in Coro, IoResume(c) PROVE SavedPlace'
  BY <1>10, MovedSavedPlace DEF IoResume, heapVars
<1>11. CASE IoResumeReturn
  BY <1>0, <1>11, MovedSavedPlace DEF IoResumeReturn, Decref, heapVars
<1>12. ASSUME NEW x \in Stacks, pc[x] = "destroy", RaiseFlag(x),
              NEW p \in {"destroy", "resume", "closure"}, pc' = [pc EXCEPT ![x] = p]
       PROVE  SavedPlace'
  <2>1. \A y \in Stacks : y # x => saved'[y] = saved[y]
    BY <1>12, RaiseFlagType DEF TypeInv
  <2> QED
    BY <1>12, <2>1
<1>13. ASSUME NEW x \in Stacks, DestroySuspended(x) PROVE SavedPlace'
  BY <1>12, <1>13 DEF DestroySuspended, SwapInto
<1>14. ASSUME NEW x \in Stacks, DestroyIdle(x) PROVE SavedPlace'
  <2>1. \/ pc' = [pc EXCEPT ![x] = "destroy"]
        \/ pc' = [pc EXCEPT ![x] = "closure"]
    BY <1>14 DEF DestroyIdle, Free
  <2> QED
    BY <1>12, <1>14, <2>1 DEF DestroyIdle
<1>15. ASSUME NEW x \in Stacks, DestroyUnwound(x) PROVE SavedPlace'
  BY <1>15, MovedSavedPlace DEF DestroyUnwound, Free
<1>16. ASSUME NEW x \in Stacks, DestroyEnd(x) PROVE SavedPlace'
  <2> DEFINE rest == SubSeq(saved[x], 1, Len(saved[x]) - 1)
  <2>1. /\ saved' = [saved EXCEPT ![x] = rest]
        /\ pc' = [pc EXCEPT ![x] = IF rest = << >> THEN "run" ELSE "closure"]
    BY <1>16 DEF DestroyEnd
  <2>2. saved \in [Stacks -> Seq(BOOLEAN)]
    BY DEF TypeInv, TypeOK, SavedTypeOK
  <2> HIDE DEF rest
  <2>3. saved'[x] = rest /\ \A y \in Stacks : y # x => saved'[y] = saved[y]
    BY <2>1, <2>2
  <2> QED
    BY <2>1, <2>3
<1>17. CASE UNCHANGED vars
  BY <1>17 DEF vars
<1> HIDE DEF At, SavedPlace
<1> QED
  BY <1>1, <1>2, <1>3, <1>4, <1>5, <1>6, <1>7, <1>8, <1>9, <1>10, <1>11, <1>13,
     <1>14, <1>15, <1>16, <1>17 DEF Next, Program, Destroy

-----------------------------------------------------------------------------
(* The stacks that are suspended in a call of a running coroutine, and the *)
(* current one, in the order in which they called each other: f is the     *)
(* depth of a stack.  The flag of the outermost destructor was clear, and  *)
(* every other saved one was set.                                          *)
Live(x) == x = Main \/ status[x] = "RUNNING"

Depth(f) ==
    /\ f[Main] = 0
    /\ \A c \in Coro : status[c] = "RUNNING" => f[c] = f[Target(c)] + 1
    /\ \A x, y \in Stacks : Live(x) /\ Live(y) /\ f[x] = f[y] => x = y
    /\ \A x \in Stacks : Live(x) => f[x] <= f[current]

FlagsOrdered(f) ==
    \A x \in Stacks : \A i \in 1 .. Len(saved[x]) : saved[x][i] = FALSE =>
        i = 1 /\ \A y \in Stacks : y # x /\ saved[y] # << >> => f[x] < f[y]

Nested == \E f \in [Stacks -> Nat] : Depth(f) /\ FlagsOrdered(f)

FirstSaved ==
    \A x \in Stacks : saved[x] # << >> =>
        \E y \in Stacks : saved[y] # << >> /\ saved[y][1] = FALSE

Flags == SavedPlace /\ Nested /\ FirstSaved /\ ExceptionScoped

(* A stack inside a destructor is current or called by a running one.      *)
LEMMA SavedLive ==
  ASSUME TypeInv, Control, SavedPlace, NEW x \in Stacks, saved[x] # << >>
  PROVE  Live(x)
  BY CountTypes DEF Control, SavedPlace, PlaceMatches, Live, Statuses, Stacks

LEMMA CurrentLive ==
  ASSUME Control
  PROVE  current \in Stacks /\ Live(current)
  BY DEF Control, StackTypes, CurrentRuns, Live, Stacks

(* The depth is the same while the same stacks run.                        *)
LEMMA SameDepth ==
  ASSUME TypeInv, TypeInv', Control, NEW f \in [Stacks -> Nat], Depth(f),
         current' = current,
         \A d \in Coro : status'[d] = "RUNNING" <=> status[d] = "RUNNING",
         \A d \in Coro : status[d] = "RUNNING" => caller'[d] = caller[d]
  PROVE  Depth(f)'
<1>1. \A x \in Stacks : Live(x)' <=> Live(x)
  BY CountTypes DEF Live, Stacks
<1>2. \A d \in Coro : status[d] = "RUNNING" => Target(d)' = Target(d)
  BY DEF Target
<1> QED
  BY <1>1, <1>2 DEF Depth

(* A coroutine that is resumed is one deeper than the stack that was       *)
(* current.                                                                *)
LEMMA EnterDepth ==
  ASSUME TypeInv, TypeInv', Control, NEW f \in [Stacks -> Nat], Depth(f),
         NEW x \in Stacks, NEW c \in Coro, current = x, status[c] # "RUNNING",
         pc[c] \notin {"resume", "ioresume"},
         status' = [status EXCEPT ![c] = "RUNNING"], current' = c, Target(c)' = x,
         \A d \in Coro : d # c => caller'[d] = caller[d]
  PROVE  [f EXCEPT ![c] = f[x] + 1] \in [Stacks -> Nat] /\ Depth([f EXCEPT ![c] = f[x] + 1])'
<1> DEFINE g == [f EXCEPT ![c] = f[x] + 1]
<1>1. /\ g \in [Stacks -> Nat] /\ g[c] = f[x] + 1
      /\ \A y \in Stacks : y # c => g[y] = f[y]
  BY CountTypes
<1>2. Live(x) /\ ~Live(c) /\ x # c
  BY CurrentLive, CountTypes DEF Live
<1>3. \A y \in Stacks : Live(y)' <=> y = c \/ Live(y)
  BY CountTypes DEF Live
<1>4. \A d \in Coro : d # c => Target(d)' = Target(d)
  BY DEF Target
<1>5. \A d \in Coro : status[d] = "RUNNING" => Target(d) \in Stacks /\ Target(d) # c
  BY CountTypes DEF Control, RunnersCalled, InCallOf, Target, StackTypes
<1>6. \A y \in Stacks : f[y] \in Nat /\ (Live(y) => f[y] <= f[x])
  BY DEF Depth
<1> HIDE DEF g
<1>7. ASSUME NEW d \in Coro, status'[d] = "RUNNING" PROVE g[d] = g[Target(d)'] + 1
  <2>1. CASE d = c
    BY <1>1, <1>2, <2>1
  <2>2. CASE d # c
    <3>1. status[d] = "RUNNING" /\ f[d] = f[Target(d)] + 1
      BY <1>7, <2>2, CountTypes DEF Depth
    <3> QED
      BY <1>1, <1>4, <1>5, <2>2, <3>1, CountTypes
  <2> QED
    BY <2>1, <2>2
<1>8. ASSUME NEW y \in Stacks, NEW z \in Stacks, Live(y)', Live(z)', g[y] = g[z]
      PROVE  y = z
  <2>1. CASE y = c /\ z # c
    BY <1>1, <1>3, <1>6, <1>8, <2>1
  <2>2. CASE y # c /\ z = c
    BY <1>1, <1>3, <1>6, <1>8, <2>2
  <2>3. CASE y # c /\ z # c
    BY <1>1, <1>3, <1>8, <2>3 DEF Depth
  <2> QED
    BY <2>1, <2>2, <2>3
<1>9. ASSUME NEW y \in Stacks, Live(y)' PROVE g[y] <= g[c]
  BY <1>1, <1>3, <1>6, <1>9
<1> QED
  BY <1>1, <1>7, <1>8, <1>9 DEF Depth, g

(* A coroutine that swaps out was the deepest; its caller is the next one. *)
LEMMA LeaveDepth ==
  ASSUME TypeInv, TypeInv', Control, NEW f \in [Stacks -> Nat], Depth(f),
         NEW c \in Coro, current = c, NEW st \in Statuses, st # "RUNNING",
         status' = [status EXCEPT ![c] = st], current' = Target(c), caller' = caller
  PROVE  Depth(f)'
<1>1. status[c] = "RUNNING" /\ f[c] = f[Target(c)] + 1
  BY DEF Control, CurrentRuns, Depth
<1>2. \A d \in Coro : Target(d)' = Target(d)
  BY DEF Target
<1>3. Target(c) \in Stacks
  BY CountTypes DEF TypeInv, TypeOK, Target, Stacks
<1>4. \A y \in Stacks : Live(y)' <=> y # c /\ Live(y)
  BY CountTypes, <1>1 DEF Live
<1>5. \A d \in Coro : status'[d] = "RUNNING" => status[d] = "RUNNING"
  BY CountTypes
<1>6. \A y \in Stacks : Live(y) /\ y # c => f[y] <= f[Target(c)]
  <2> SUFFICES ASSUME NEW y \in Stacks, Live(y), y # c PROVE f[y] <= f[Target(c)]
    OBVIOUS
  <2>1. f[y] <= f[c] /\ f[y] # f[c]
    BY <1>1, CountTypes DEF Depth, Live
  <2>2. f[y] \in Nat /\ f[c] \in Nat /\ f[Target(c)] \in Nat
    BY <1>3, CountTypes
  <2> QED
    BY <1>1, <2>1, <2>2
<1> QED
  BY <1>2, <1>4, <1>5, <1>6 DEF Depth

(* A coroutine without saved flags may get any depth.                      *)
LEMMA EnterFlags ==
  ASSUME NEW f \in [Stacks -> Nat], FlagsOrdered(f), NEW c \in Stacks, saved[c] = << >>,
         NEW n \in Nat
  PROVE  FlagsOrdered([f EXCEPT ![c] = n])
<1> DEFINE g == [f EXCEPT ![c] = n]
<1>1. \A y \in Stacks : saved[y] # << >> => g[y] = f[y]
  OBVIOUS
<1> HIDE DEF g
<1> SUFFICES ASSUME NEW x \in Stacks, NEW i \in 1 .. Len(saved[x]), saved[x][i] = FALSE
    PROVE  i = 1 /\ \A y \in Stacks : y # x /\ saved[y] # << >> => g[x] < g[y]
  BY DEF FlagsOrdered, g
<1>2. saved[x] # << >>
  BY EmptySeq
<1> QED
  BY <1>1, <1>2 DEF FlagsOrdered

(* A step that leaves the flags alone.                                     *)
LEMMA SameFlags ==
  ASSUME FirstSaved, ExceptionScoped, NEW f \in [Stacks -> Nat], FlagsOrdered(f),
         UNCHANGED <<saved, exception>>
  PROVE  FirstSaved' /\ ExceptionScoped' /\ FlagsOrdered(f)'
<1>1. FirstSaved' /\ FlagsOrdered(f)'
  BY DEF FirstSaved, FlagsOrdered
<1>2. ExceptionScoped'
  BY Zenon DEF ExceptionScoped
<1> QED
  BY <1>1, <1>2

(* The flag that a destructor saves is clear only for the first one.       *)
LEMMA RaiseFlags ==
  ASSUME TypeOK, FirstSaved, ExceptionScoped, NEW f \in [Stacks -> Nat], FlagsOrdered(f),
         NEW x \in Stacks, RaiseFlag(x),
         \A y \in Stacks : y # x /\ saved[y] # << >> => f[y] < f[x]
  PROVE  FirstSaved' /\ ExceptionScoped' /\ FlagsOrdered(f)'
<1> DEFINE s == saved[x]
           t == saved'[x]
<1>1. s \in Seq(BOOLEAN) /\ exception \in BOOLEAN /\ t = Append(s, exception)
  BY DEF TypeOK, SavedTypeOK, RaiseFlag
<1>2. /\ Len(t) = Len(s) + 1 /\ t # << >> /\ Len(s) \in Nat
      /\ \A i \in 1 .. Len(s) : t[i] = s[i]
      /\ t[Len(s) + 1] = exception
  <2> HIDE DEF s, t
  <2> QED
    BY <1>1, AppendProperties
<1>3. s = << >> \/ Len(s) > 0
  BY <1>1, EmptySeq
<1>4. \A y \in Stacks : y # x => saved'[y] = saved[y]
  BY RaiseFlagType
<1>5. exception = FALSE => s = << >> /\ \A y \in Stacks : saved[y] = << >>
  BY DEF ExceptionScoped
<1>6. exception' = TRUE
  BY DEF RaiseFlag
<1>7. ExceptionScoped'
  BY <1>2, <1>6 DEF ExceptionScoped
<1>8. FirstSaved'
  <2>1. CASE exception = FALSE
    <3>1. t[1] = FALSE
      BY <1>2, <1>5, <2>1, EmptySeq
    <3> QED
      BY <1>2, <3>1 DEF FirstSaved
  <2>2. CASE exception = TRUE
    <3>1. PICK y \in Stacks : saved[y] # << >> /\ saved[y][1] = FALSE
      BY <2>2 DEF FirstSaved, ExceptionScoped
    <3>2. saved'[y] # << >> /\ saved'[y][1] = FALSE
      <4>1. CASE y = x
        BY <1>2, <1>3, <3>1, <4>1
      <4>2. CASE y # x
        BY <1>4, <3>1, <4>2
      <4> QED
        BY <4>1, <4>2
    <3> QED
      BY <3>2 DEF FirstSaved
  <2> QED
    BY <1>1, <2>1, <2>2
<1>9. FlagsOrdered(f)'
  <2> SUFFICES ASSUME NEW z \in Stacks, NEW i \in 1 .. Len(saved'[z]), saved'[z][i] = FALSE
      PROVE  i = 1 /\ \A y \in Stacks : y # z /\ saved'[y] # << >> => f[z] < f[y]
    BY DEF FlagsOrdered
  <2>1. CASE z # x
    <3>1. i = 1 /\ \A y \in Stacks : y # z /\ saved[y] # << >> => f[z] < f[y]
      BY <1>4, <2>1 DEF FlagsOrdered
    <3>2. saved[z] # << >>
      BY <1>4, <2>1, EmptySeq
    <3> QED
      BY <1>4, <2>1, <3>1, <3>2
  <2>2. CASE z = x /\ i \in 1 .. Len(s)
    <3>1. i = 1 /\ \A y \in Stacks : y # x /\ saved[y] # << >> => f[x] < f[y]
      BY <1>2, <2>2 DEF FlagsOrdered
    <3> QED
      BY <1>4, <2>2, <3>1
  <2>3. CASE z = x /\ i = Len(s) + 1
    <3>1. exception = FALSE
      BY <1>2, <2>3
    <3> QED
      BY <1>4, <1>5, <2>3, <3>1, EmptySeq
  <2> QED
    BY <1>2, <2>1, <2>2, <2>3
<1> QED
  BY <1>7, <1>8, <1>9

(* The flag that is restored tells whether another destructor runs.        *)
LEMMA RestoreFlags ==
  ASSUME TypeOK, FirstSaved, ExceptionScoped, NEW f \in [Stacks -> Nat], FlagsOrdered(f),
         NEW x \in Stacks, saved[x] # << >>, exception' = LastSaved(x),
         saved' = [saved EXCEPT ![x] = SubSeq(saved[x], 1, Len(saved[x]) - 1)],
         \A y \in Stacks : y # x /\ saved[y] # << >> => f[y] < f[x]
  PROVE  FirstSaved' /\ ExceptionScoped' /\ FlagsOrdered(f)'
<1> DEFINE s == saved[x]
           t == saved'[x]
           n == Len(s)
<1>1. s \in Seq(BOOLEAN) /\ t = SubSeq(s, 1, n - 1) /\ exception' = s[n]
  BY DEF TypeOK, SavedTypeOK, LastSaved
<1>2. n \in Nat /\ n > 0 /\ s[n] \in BOOLEAN
  <2>1. s # << >>
    OBVIOUS
  <2> HIDE DEF s, t
  <2> QED
    BY <1>1, <2>1, EmptySeq
<1>3. /\ t \in Seq(BOOLEAN) /\ Len(t) = n - 1
      /\ \A i \in 1 .. n - 1 : t[i] = s[i]
      /\ t = << >> <=> n = 1
  <2> HIDE DEF s, t, n
  <2>1. n = Len(s) /\ \A i \in 1 .. n - 1 : s[i] \in BOOLEAN
    BY <1>1, <1>2 DEF n
  <2>2. t \in Seq(BOOLEAN) /\ Len(t) = n - 1 /\ \A i \in 1 .. n - 1 : t[i] = s[i]
    BY <1>1, <1>2, <2>1, SubSeqProperties
  <2> QED
    BY <1>2, <2>2, EmptySeq
<1>4. \A y \in Stacks : y # x => saved'[y] = saved[y]
  BY DEF TypeOK, SavedTypeOK
<1>5. s[n] = FALSE => n = 1 /\ \A y \in Stacks : y # x => saved[y] = << >>
  <2> SUFFICES ASSUME s[n] = FALSE
      PROVE  n = 1 /\ \A y \in Stacks : y # x => saved[y] = << >>
    OBVIOUS
  <2>1. n \in 1 .. Len(saved[x]) /\ saved[x][n] = FALSE
    BY <1>2
  <2>2. n = 1 /\ \A y \in Stacks : y # x /\ saved[y] # << >> => f[x] < f[y]
    <3> HIDE DEF n
    <3> QED
      BY <2>1 DEF FlagsOrdered
  <2> QED
    BY <2>2
<1> HIDE DEF s, t, n
<1>6. s[n] = TRUE =>
        \E y \in Stacks : saved'[y] # << >> /\ saved'[y][1] = FALSE
  <2> SUFFICES ASSUME s[n] = TRUE
      PROVE  \E y \in Stacks : saved'[y] # << >> /\ saved'[y][1] = FALSE
    OBVIOUS
  <2>1. PICK y \in Stacks : saved[y] # << >> /\ saved[y][1] = FALSE
    BY DEF FirstSaved
  <2>2. CASE y = x
    <3>1. s[1] = FALSE /\ n # 1
      BY <2>1, <2>2 DEF s
    <3>2. t # << >> /\ t[1] = FALSE
      BY <1>2, <1>3, <3>1
    <3> QED
      BY <2>2, <3>2 DEF t
  <2>3. CASE y # x
    BY <1>4, <2>1, <2>3
  <2> QED
    BY <2>2, <2>3
<1>7. s[n] = FALSE => \A y \in Stacks : saved'[y] = << >>
  BY <1>3, <1>4, <1>5 DEF t
<1>8. FirstSaved' /\ ExceptionScoped'
  <2>1. CASE s[n] = TRUE
    BY <1>1, <1>6, <2>1 DEF FirstSaved, ExceptionScoped
  <2>2. CASE s[n] = FALSE
    BY <1>1, <1>7, <2>2 DEF FirstSaved, ExceptionScoped
  <2> QED
    BY <1>2, <2>1, <2>2
<1>9. FlagsOrdered(f)'
  <2> SUFFICES ASSUME NEW z \in Stacks, NEW i \in 1 .. Len(saved'[z]), saved'[z][i] = FALSE
      PROVE  i = 1 /\ \A y \in Stacks : y # z /\ saved'[y] # << >> => f[z] < f[y]
    BY DEF FlagsOrdered
  <2>0. \A y \in Stacks : saved'[y] # << >> => saved[y] # << >>
    BY <1>4
  <2>1. CASE z # x
    BY <1>4, <2>0, <2>1 DEF FlagsOrdered
  <2>2. CASE z = x
    <3>1. i \in 1 .. Len(saved[x]) /\ saved[x][i] = FALSE
      BY <1>2, <1>3, <2>2 DEF s, t, n
    <3> QED
      BY <2>0, <2>2, <3>1 DEF FlagsOrdered
  <2> QED
    BY <2>1, <2>2
<1> QED
  BY <1>8, <1>9

-----------------------------------------------------------------------------
LEMMA InitFlags == Init => Flags
<1> SUFFICES ASSUME Init PROVE Flags
  OBVIOUS
<1> DEFINE f == [x \in Stacks |-> 0]
<1>1. /\ \A x \in Stacks : saved[x] = << >> /\ (Live(x) <=> x = Main)
      /\ \A c \in Coro : status[c] # "RUNNING"
      /\ current = Main
  BY DEF Init, Stacks, Live
<1>2. exception = FALSE
  BY Zenon DEF Init
<1>3. f \in [Stacks -> Nat] /\ Depth(f)
  BY <1>1 DEF Depth, Stacks
<1>4. FlagsOrdered(f)
  BY <1>1 DEF FlagsOrdered
<1>5. SavedPlace /\ FirstSaved
  BY <1>1 DEF SavedPlace, FirstSaved
<1>6. ExceptionScoped
  BY <1>1, <1>2 DEF ExceptionScoped
<1> QED
  BY <1>3, <1>4, <1>5, <1>6 DEF Flags, Nested

(* Every step keeps the order of the destructors and their flags.          *)
LEMMA NextFlags ==
  ASSUME DestructorsResume, TypeInv, Control, Reaping, Counts, Flags, [Next]_vars
  PROVE  Flags'
<1>0. TypeInv' /\ SavedPlace'
  BY NextTypeInv, NextSavedPlace DEF Flags
<1>a. PICK f \in [Stacks -> Nat] : Depth(f) /\ FlagsOrdered(f)
  BY DEF Flags, Nested
<1>b. \A y \in Stacks : y # current /\ saved[y] # << >> => f[y] < f[current]
  <2> SUFFICES ASSUME NEW y \in Stacks, y # current, saved[y] # << >>
      PROVE  f[y] < f[current]
    OBVIOUS
  <2>1. current \in Stacks /\ f[y] <= f[current] /\ f[y] # f[current]
    BY <1>a, SavedLive, CurrentLive DEF Flags, Depth
  <2> QED
    BY <2>1
<1> DEFINE Ordered(g) == FirstSaved' /\ ExceptionScoped' /\ FlagsOrdered(g)'
<1>c. ASSUME NEW g \in [Stacks -> Nat], Depth(g)', Ordered(g)
      PROVE  Flags'
  BY <1>0, <1>c DEF Flags, Nested
<1>d. ASSUME UNCHANGED <<saved, exception>> PROVE Ordered(f)
  BY <1>a, <1>d, SameFlags DEF Flags
<1>e. ASSUME current' = current, status' = status,
             \A d \in Coro : status[d] = "RUNNING" => caller'[d] = caller[d]
      PROVE  Depth(f)'
  BY <1>0, <1>a, <1>e, SameDepth
<1>f. ASSUME NEW c \in Coro, status[c] # "RUNNING", NEW st \in Statuses, st # "RUNNING",
             status' = [status EXCEPT ![c] = st], UNCHANGED <<current, caller>>
      PROVE  Depth(f)'
  BY <1>0, <1>a, <1>f, SameDepth, CountTypes
<1> HIDE DEF Ordered
<1>1. ASSUME NEW x \in Stacks, NEW c \in Coro, NEW st \in {"NEW", "DEAD"},
             Create(x, c, st)
      PROVE  Flags'
  <2>1. UNCHANGED <<saved, exception, current, caller>> /\ status[c] = "FREE"
        /\ status' = [status EXCEPT ![c] = st]
    BY <1>1 DEF Create
  <2>2. Depth(f)'
    BY <1>f, <2>1 DEF Statuses
  <2> QED
    BY <1>c, <1>d, <2>1, <2>2
<1>2. ASSUME UNCHANGED <<saved, exception, current, status>>,
             \A d \in Coro : status[d] = "RUNNING" => caller'[d] = caller[d]
      PROVE  Flags'
  BY <1>2, <1>c, <1>d, <1>e
<1>3. ASSUME NEW x \in Stacks, NEW c \in Coro, Retain(x, c) \/ Release(x, c)
      PROVE  Flags'
  BY <1>2, <1>3 DEF Retain, Release, heapVars
<1>4. ASSUME NEW x \in Stacks, NEW c \in Coro, current = x, status[c] # "RUNNING",
             pc[c] \in {"run", "yield", "iowait"},
             status' = [status EXCEPT ![c] = "RUNNING"], current' = c, Target(c)' = x,
             \A d \in Coro : d # c => caller'[d] = caller[d]
      PROVE  LET g == [f EXCEPT ![c] = f[x] + 1]
             IN  /\ g \in [Stacks -> Nat] /\ Depth(g)' /\ FlagsOrdered(g)
                 /\ \A y \in Stacks : y # x /\ saved[y] # << >> => g[y] < g[x]
  <2> DEFINE g == [f EXCEPT ![c] = f[x] + 1]
  <2>1. g \in [Stacks -> Nat] /\ Depth(g)'
    BY <1>0, <1>4, <1>a, EnterDepth
  <2>2. saved[c] = << >> /\ c \in Stacks /\ c # x
    BY <1>4, CurrentLive, CountTypes DEF Flags, SavedPlace, Live
  <2>6. f[x] + 1 \in Nat
    OBVIOUS
  <2>3. FlagsOrdered(g)
    BY <1>a, <2>2, <2>6, EnterFlags
  <2>4. \A y \in Stacks : y # c => g[y] = f[y]
    OBVIOUS
  <2>5. \A y \in Stacks : y # x /\ saved[y] # << >> => g[y] < g[x]
    BY <1>4, <1>b, <2>2, <2>4
  <2> QED
    BY <2>1, <2>3, <2>5
<1>5. ASSUME NEW x \in Stacks, NEW c \in Coro, current = x, status[c] # "RUNNING",
             pc[c] \in {"run", "yield", "iowait"},
             status' = [status EXCEPT ![c] = "RUNNING"], current' = c, Target(c)' = x,
             \A d \in Coro : d # c => caller'[d] = caller[d],
             UNCHANGED <<saved, exception>>
      PROVE  Flags'
  <2>1. PICK g \in [Stacks -> Nat] : Depth(g)' /\ FlagsOrdered(g)
    BY <1>4, <1>5
  <2> QED
    BY <1>5, <1>c, <2>1, SameFlags DEF Flags, Ordered
<1>6. ASSUME NEW x \in Stacks, NEW c \in Coro, current = x,
             status[c] \in {"NEW", "SUSPENDED"}, SwapInto(x, c)
      PROVE  /\ pc[c] \in {"run", "yield", "iowait"} /\ status[c] # "RUNNING"
             /\ status' = [status EXCEPT ![c] = "RUNNING"] /\ current' = c /\ Target(c)' = x
             /\ \A d \in Coro : d # c => caller'[d] = caller[d]
  <2>1. caller \in [Stacks -> Stacks \cup {Nil}] /\ caller' = [caller EXCEPT ![c] = x]
    BY <1>6 DEF SwapInto, TypeInv, TypeOK
  <2> QED
    BY <1>6, <2>1, CountTypes DEF SwapInto, Target, Control, PlaceMatches
<1>7. ASSUME NEW x \in Stacks, NEW c \in Coro, Resume(x, c) PROVE Flags'
  <2>1. /\ current = x /\ status[c] \in {"NEW", "SUSPENDED"} /\ SwapInto(x, c)
        /\ UNCHANGED <<saved, exception>>
    BY <1>7, DoesAt DEF Resume, heapVars
  <2> QED
    BY <1>5, <1>6, <2>1
<1>8. ASSUME NEW x \in Stacks, ResumeReturn(x) PROVE Flags'
  <2> DEFINE c == callee[x]
  <2>1. /\ c \in Coro /\ status[c] # "RUNNING"
        /\ caller' = [caller EXCEPT ![c] = Nil]
        /\ UNCHANGED <<saved, exception, current, status>>
    BY <1>8, CountTypes DEF ResumeReturn, CallersAfter, At, Control, CallsMatch, heapVars
  <2> HIDE DEF c
  <2>2. \A d \in Coro : status[d] = "RUNNING" => caller'[d] = caller[d]
    BY <2>1 DEF TypeInv, TypeOK
  <2> QED
    BY <1>2, <2>1, <2>2
<1>9. ASSUME NEW c \in Coro, Yield(c) \/ Exit(c) \/ IoWait(c) PROVE Flags'
  <2>1. /\ current = c /\ caller' = caller /\ current' = Target(c)
        /\ UNCHANGED <<saved, exception>>
    BY <1>9, DoesAt DEF Yield, Exit, IoWait, SwapOut, At, heapVars
  <2>2. PICK st \in {"SUSPENDED", "DEAD", "IO"} : status' = [status EXCEPT ![c] = st]
    BY <1>9 DEF Yield, Exit, IoWait, SwapOut
  <2>3. Depth(f)'
    BY <1>0, <1>a, <2>1, <2>2, LeaveDepth DEF Statuses
  <2> QED
    BY <1>c, <1>d, <2>1, <2>3
<1>10. ASSUME NEW c \in Coro, YieldReturn(c) \/ Catch(c) \/ IoWaitReturn(c)
       PROVE  Flags'
  BY <1>2, <1>10 DEF YieldReturn, Catch, IoWaitReturn, heapVars
<1>11. ASSUME NEW c \in Coro, IoResume(c) PROVE Flags'
  <2>1. /\ current = Main /\ pc[Main] = "run" /\ status[c] = "IO"
        /\ status' = [status EXCEPT ![c] = "RUNNING"] /\ current' = c /\ caller' = caller
        /\ UNCHANGED <<saved, exception>>
    BY <1>11 DEF IoResume, At, heapVars
  <2>2. caller[c] = Nil
    BY <2>1, CountTypes DEF Control, CallersMatch, CallsMatch, StackTypes
  <2>3. Target(c)' = Main /\ Main \in Stacks /\ pc[c] = "iowait"
    BY <2>1, <2>2 DEF Target, Stacks, Control, PlaceMatches
  <2> QED
    BY <1>5, <2>1, <2>3
<1>12. CASE IoResumeReturn
  BY <1>2, <1>12 DEF IoResumeReturn, heapVars
<1>13. ASSUME NEW x \in Stacks, DestroySuspended(x) PROVE Flags'
  <2>1. PICK c \in Coro : /\ current = x /\ status[c] = "SUSPENDED"
                          /\ SwapInto(x, c) /\ RaiseFlag(x)
    BY <1>13, CountTypes DEF DestroySuspended, At
  <2>4. /\ pc[c] \in {"run", "yield", "iowait"} /\ status[c] # "RUNNING"
        /\ status' = [status EXCEPT ![c] = "RUNNING"] /\ current' = c /\ Target(c)' = x
        /\ \A d \in Coro : d # c => caller'[d] = caller[d]
    BY <1>6, <2>1
  <2> DEFINE g == [f EXCEPT ![c] = f[x] + 1]
  <2>2. /\ g \in [Stacks -> Nat] /\ Depth(g)' /\ FlagsOrdered(g)
        /\ \A y \in Stacks : y # x /\ saved[y] # << >> => g[y] < g[x]
    BY <1>4, <2>1, <2>4
  <2> HIDE DEF g
  <2>3. Ordered(g)
    BY <2>1, <2>2, RaiseFlags DEF TypeInv, Flags, Ordered
  <2> QED
    BY <1>c, <2>2, <2>3
<1>14. ASSUME NEW x \in Stacks, DestroyIdle(x) PROVE Flags'
  <2>1. /\ current = x /\ reaping[x] \in Coro /\ RaiseFlag(x) /\ UNCHANGED <<caller, current>>
    BY <1>14, CountTypes DEF DestroyIdle, At
  <2>2. Ordered(f)
    BY <1>a, <1>b, <2>1, RaiseFlags DEF TypeInv, Flags, Ordered
  <2>3. \/ status' = status
        \/ /\ status[reaping[x]] # "RUNNING"
           /\ status' = [status EXCEPT ![reaping[x]] = "FREE"]
    BY <1>14 DEF DestroyIdle, Free
  <2>4. Depth(f)'
    BY <1>e, <1>f, <2>1, <2>3 DEF Statuses
  <2> QED
    BY <1>a, <1>c, <2>2, <2>4
<1>15. ASSUME NEW x \in Stacks, DestroyUnwound(x) PROVE Flags'
  <2>1. /\ reaping[x] \in Coro /\ status[reaping[x]] # "RUNNING"
        /\ UNCHANGED <<caller, current, saved, exception>>
    BY <1>15, CountTypes DEF DestroyUnwound, At, Control, FreedEnded
  <2>2. status' = status \/ status' = [status EXCEPT ![reaping[x]] = "FREE"]
    BY <1>15 DEF DestroyUnwound, Free
  <2>3. Depth(f)'
    BY <1>e, <1>f, <2>1, <2>2 DEF Statuses
  <2> QED
    BY <1>c, <1>d, <2>1, <2>3
<1>16. ASSUME NEW x \in Stacks, DestroyEnd(x) PROVE Flags'
  <2>1. /\ current = x /\ saved[x] # << >> /\ exception' = LastSaved(x)
        /\ saved' = [saved EXCEPT ![x] = SubSeq(saved[x], 1, Len(saved[x]) - 1)]
        /\ UNCHANGED <<status, caller, current>>
    BY <1>16 DEF DestroyEnd, At, Reaping
  <2>2. Ordered(f)
    BY <1>a, <1>b, <2>1, RestoreFlags DEF TypeInv, Flags, Ordered
  <2> QED
    BY <1>a, <1>c, <1>e, <2>1, <2>2
<1>17. CASE UNCHANGED vars
  BY <1>2, <1>17 DEF vars
<1> QED
  BY <1>1, <1>3, <1>7, <1>8, <1>9, <1>10, <1>11, <1>12, <1>13, <1>14, <1>15, <1>16,
     <1>17 DEF Next, Program, Destroy

-----------------------------------------------------------------------------
(* A coroutine that is resumed by its destructor has the processor at its  *)
(* yield, and then unwinds until it ends: nobody can refer to it again.    *)
Unwound(c) ==
    /\ held[c] = 0
    /\ \/ pc[c] = "yield" /\ current = c
       \/ unwinding[c] = TRUE /\ pc[c] \notin {"yield", "iowait"}

Unwinds == \A c \in Coro : Reaped(c) => Unwound(c)

(* The destructor of a coroutine does not begin with its resume.           *)
LEMMA ReapedAllocated ==
  ASSUME TypeInv, Counts, NEW c \in Coro, Reaped(c)
  PROVE  status[c] # "FREE" /\ refcount[c] > 0
  BY CountsOf, CountTypes DEF One, Counts, FreeUnreferenced

(* Coroutines that are unwound stay so when another stack moves, or when   *)
(* they move without swapping out.                                         *)
LEMMA StillUnwinds ==
  ASSUME TypeInv, Unwinds, NEW x \in Stacks, current = x, pc[x] # "yield",
         \A c \in Coro : Reaped(c)' => Reaped(c),
         \A c \in Coro : Reaped(c) => /\ held'[c] = held[c]
                                      /\ unwinding[c] = TRUE => unwinding'[c] = TRUE
                                      /\ pc'[c] = pc[c] \/ pc'[c] \notin {"yield", "iowait"}
  PROVE  Unwinds'
  BY CountTypes DEF Unwinds, Unwound

(* Only a destructor begins to destroy a suspended coroutine.              *)
LEMMA DecrefReaped ==
  ASSUME TypeInv, Reaping, NEW x \in Stacks, NEW c \in Coro, reaping[x] = Nil, Decref(x, c)
  PROVE  \A d \in Coro : Reaped(d)' => Reaped(d)
<1>1. /\ \A y \in Stacks : y # x => pc'[y] = pc[y] /\ reaping'[y] = reaping[y]
      /\ pc'[x] = "destroy" \/ reaping'[x] = Nil
  BY CountTypes DEF Decref
<1> QED
  BY <1>1, CountTypes DEF Reaped

LEMMA NextUnwinds ==
  ASSUME DestructorsResume, TypeInv, Control, Reaping, Counts, Flags, Unwinds, [Next]_vars
  PROVE  Unwinds'
<1> USE CountTypes DEF At
<1>a. \A c \in Coro : Reaped(c) => /\ held[c] = 0 /\ pc[c] # "iowait"
                                   /\ status[c] # "FREE"
                                   /\ pc[c] = "yield" => current = c
                                   /\ pc[c] # "yield" => unwinding[c] = TRUE
  BY ReapedAllocated DEF Unwinds, Unwound
<1>b. \A x \in Stacks : pc[x] \notin {"destroy", "resume", "free"} => reaping[x] = Nil
  BY NotReaping
<1>c. held \in [Coro -> Nat] /\ unwinding \in [Stacks -> BOOLEAN]
  BY DEF TypeInv, TypeOK
<1>1. ASSUME NEW x \in Stacks, NEW c \in Coro, NEW st \in {"NEW", "DEAD"},
             Create(x, c, st)
      PROVE  Unwinds'
  <2>1. /\ current = x /\ pc[x] \in {"run", "closure"} /\ status[c] = "FREE"
        /\ held' = [held EXCEPT ![c] = 1] /\ unwinding' = [unwinding EXCEPT ![c] = FALSE]
        /\ pc' = [pc EXCEPT ![c] = "run"] /\ UNCHANGED reaping
    BY <1>1, DoesAt DEF Create
  <2>2. pc[c] # "destroy"
    BY <2>1 DEF Control, PlaceMatches
  <2>3. \A d \in Coro : Reaped(d)' => Reaped(d)
    BY <2>1, <2>2 DEF Reaped
  <2>4. ~Reaped(c)
    BY <1>a, <2>1
  <2>5. \A d \in Coro : Reaped(d) => held'[d] = held[d] /\ pc'[d] = pc[d] /\ unwinding'[d] = unwinding[d]
    BY <1>c, <2>1, <2>4
  <2> QED
    BY <2>1, <2>3, <2>5, StillUnwinds
<1>2. ASSUME NEW x \in Stacks, NEW c \in Coro, Retain(x, c) PROVE Unwinds'
  <2>1. /\ current = x /\ pc[x] = "run" /\ unwinding[x] # TRUE /\ (c = x \/ held[c] > 0)
        /\ held' = [held EXCEPT ![c] = @ + 1] /\ UNCHANGED <<pc, reaping, unwinding>>
    BY <1>2, DoesProgram DEF Retain, heapVars
  <2>2. \A d \in Coro : Reaped(d)' => Reaped(d)
    BY <2>1 DEF Reaped
  <2>3. ~Reaped(c)
    <3>1. held[c] > 0 => ~Reaped(c)
      BY <1>a
    <3>2. Reaped(x) /\ x \in Coro => unwinding[x] = TRUE
      BY <1>a, <2>1
    <3> QED
      BY <2>1, <3>1, <3>2
  <2>4. \A d \in Coro : Reaped(d) => held'[d] = held[d]
    BY <1>c, <2>1, <2>3
  <2> QED
    BY <2>1, <2>2, <2>4, StillUnwinds
<1>3. ASSUME NEW x \in Stacks, NEW c \in Coro, Release(x, c) PROVE Unwinds'
  <2>1. /\ current = x /\ pc[x] \in {"run", "closure"} /\ held[c] > 0 /\ Decref(x, c)
        /\ held' = [held EXCEPT ![c] = @ - 1] /\ UNCHANGED unwinding
    BY <1>3, DoesAt DEF Release, heapVars
  <2>2. \A d \in Coro : Reaped(d)' => Reaped(d)
    BY <1>b, <2>1, DecrefReaped
  <2>3. ~Reaped(c)
    BY <1>a, <2>1
  <2>4. \A d \in Coro : Reaped(d) => held'[d] = held[d]
    BY <1>c, <2>1, <2>3
  <2>5. \A d \in Coro : pc'[d] = pc[d] \/ pc'[d] \notin {"yield", "iowait"}
    BY <2>1, BaseAt DEF Decref
  <2> QED
    BY <2>1, <2>2, <2>4, <2>5, StillUnwinds
<1>4. ASSUME NEW x \in Stacks, current = x, pc[x] # "yield",
             \A d \in Coro : Reaped(d)' => Reaped(d),
             \A d \in Coro : pc'[d] = pc[d] \/ pc'[d] \notin {"yield", "iowait"},
             UNCHANGED <<held, unwinding>>
      PROVE  Unwinds'
  BY <1>4, StillUnwinds
<1>5. ASSUME NEW x \in Stacks, NEW p \in {"resume", "ioresume"}, pc' = [pc EXCEPT ![x] = p],
             pc[x] \in {"run", "closure"}, UNCHANGED reaping
      PROVE  \A d \in Coro : Reaped(d)' => Reaped(d)
  BY <1>b, <1>5 DEF Reaped
<1>6. ASSUME NEW x \in Stacks, NEW c \in Coro, Resume(x, c) PROVE Unwinds'
  <2>1. /\ current = x /\ pc[x] \in {"run", "closure"} /\ pc' = [pc EXCEPT ![x] = "resume"]
        /\ UNCHANGED <<reaping, held, unwinding>>
    BY <1>6, DoesAt DEF Resume, SwapInto, heapVars
  <2> QED
    BY <1>4, <1>5, <2>1
<1>7. ASSUME NEW x \in Stacks, ResumeReturn(x) PROVE Unwinds'
  <2>1. /\ current = x /\ pc[x] = "resume" /\ callee[x] \in Coro
        /\ UNCHANGED <<held, unwinding>>
    BY <1>7 DEF ResumeReturn, heapVars
  <2>2. CASE reaping[x] = callee[x]
    <3>1. pc' = [pc EXCEPT ![x] = "free"] /\ reaping' = reaping
      BY <1>7, <2>2 DEF ResumeReturn
    <3>2. \A d \in Coro : Reaped(d)' => Reaped(d)
      BY <2>1, <3>1 DEF Reaped
    <3> QED
      BY <1>4, <2>1, <3>1, <3>2
  <2>3. CASE reaping[x] # callee[x]
    <3>1. reaping[x] = Nil /\ Decref(x, callee[x])
      BY <1>7, <2>1, <2>3 DEF ResumeReturn, Reaping
    <3>2. \A d \in Coro : Reaped(d)' => Reaped(d)
      BY <2>1, <3>1, DecrefReaped
    <3>3. \A d \in Coro : pc'[d] = pc[d] \/ pc'[d] \notin {"yield", "iowait"}
      BY <3>1, BaseAt DEF Decref
    <3> QED
      BY <1>4, <2>1, <3>2, <3>3
  <2> QED
    BY <2>2, <2>3
<1>8. ASSUME NEW c \in Coro, Yield(c) \/ IoWait(c) PROVE Unwinds'
  <2>1. /\ current = c /\ pc[c] = "run" /\ unwinding[c] # TRUE
        /\ UNCHANGED <<reaping, held, unwinding>>
    BY <1>8, DoesProgram DEF Yield, IoWait, heapVars
  <2>2. PICK p \in {"yield", "iowait"} : pc' = [pc EXCEPT ![c] = p]
    BY <1>8 DEF Yield, IoWait, SwapOut
  <2>3. ~Reaped(c) /\ reaping[c] = Nil
    BY <1>a, <1>b, <2>1
  <2>4. \A d \in Coro : Reaped(d)' => Reaped(d)
    BY <2>1, <2>2, <2>3 DEF Reaped
  <2>5. \A d \in Coro : Reaped(d) => pc'[d] = pc[d]
    BY <2>2, <2>3
  <2> QED
    BY <2>1, <2>4, <2>5, StillUnwinds
<1>9. ASSUME NEW c \in Coro, Exit(c) PROVE Unwinds'
  <2>1. /\ current = c /\ pc[c] = "run" /\ pc' = [pc EXCEPT ![c] = "exit"]
        /\ UNCHANGED <<reaping, held, unwinding>>
    BY <1>9 DEF Exit, SwapOut, heapVars
  <2>2. \A d \in Coro : Reaped(d)' => Reaped(d)
    BY <1>b, <2>1 DEF Reaped
  <2> QED
    BY <1>4, <2>1, <2>2
<1>10. ASSUME NEW c \in Coro, YieldReturn(c) PROVE Unwinds'
  <2>1. /\ current = c /\ pc[c] = "yield" /\ pc' = [pc EXCEPT ![c] = Base(c)]
        /\ unwinding' = [unwinding EXCEPT ![c] = IF saved[c] = << >> THEN exception ELSE @]
        /\ UNCHANGED <<reaping, held>>
    BY <1>10 DEF YieldReturn
  <2>2. saved[c] = << >> /\ reaping[c] = Nil
    BY <1>b, <2>1 DEF Flags, SavedPlace
  <2>3. \A d \in Coro : Reaped(d)' => Reaped(d)
    BY <2>1, <2>2 DEF Reaped
  <2>4. Reaped(c) => exception = TRUE
    <3>1. Reaped(c) => \E x \in Stacks : saved[x] # << >>
      BY DEF Reaped, Reaping
    <3>2. exception \in BOOLEAN
      BY DEF TypeInv, TypeOK
    <3> QED
      BY <3>1, <3>2 DEF Flags, ExceptionScoped
  <2>5. \A d \in Coro : Reaped(d) => Unwound(d)'
    <3> SUFFICES ASSUME NEW d \in Coro, Reaped(d) PROVE Unwound(d)'
      OBVIOUS
    <3>1. CASE d = c
      BY <1>a, <1>c, <2>1, <2>2, <2>4, <3>1, BaseAt DEF Unwound
    <3>2. CASE d # c
      BY <1>a, <1>c, <2>1, <3>2 DEF Unwound
    <3> QED
      BY <3>1, <3>2
  <2> QED
    BY <2>3, <2>5 DEF Unwinds
<1>11. ASSUME NEW c \in Coro, Catch(c) PROVE Unwinds'
  <2>1. /\ current = c /\ pc[c] = "run" /\ unwinding' = [unwinding EXCEPT ![c] = TRUE]
        /\ UNCHANGED <<reaping, held, pc>>
    BY <1>11 DEF Catch
  <2>2. \A d \in Coro : Reaped(d)' => Reaped(d)
    BY <2>1 DEF Reaped
  <2>3. \A d \in Coro : unwinding[d] = TRUE => unwinding'[d] = TRUE
    BY <1>c, <2>1
  <2> QED
    BY <2>1, <2>2, <2>3, StillUnwinds
<1>12. ASSUME NEW c \in Coro, IoWaitReturn(c) PROVE Unwinds'
  <2>1. /\ current = c /\ pc[c] = "iowait" /\ Decref(c, c) /\ UNCHANGED <<held, unwinding>>
    BY <1>12 DEF IoWaitReturn, heapVars
  <2>2. \A d \in Coro : Reaped(d)' => Reaped(d)
    BY <1>b, <2>1, DecrefReaped
  <2>3. \A d \in Coro : pc'[d] = pc[d] \/ pc'[d] \notin {"yield", "iowait"}
    BY <2>1, BaseAt DEF Decref
  <2> QED
    BY <1>4, <2>1, <2>2, <2>3
<1>13. ASSUME NEW c \in Coro, IoResume(c) PROVE Unwinds'
  <2>1. /\ current = Main /\ pc[Main] = "run" /\ pc' = [pc EXCEPT ![Main] = "ioresume"]
        /\ UNCHANGED <<reaping, held, unwinding>>
    BY <1>13 DEF IoResume, heapVars
  <2> QED
    BY <1>4, <1>5, <2>1
<1>14. CASE IoResumeReturn
  <2>1. /\ current = Main /\ pc[Main] = "ioresume" /\ Decref(Main, callee[Main])
        /\ callee[Main] \in Coro /\ UNCHANGED <<held, unwinding>>
    BY <1>14 DEF IoResumeReturn, heapVars
  <2>2. \A d \in Coro : Reaped(d)' => Reaped(d)
    BY <1>b, <2>1, DecrefReaped
  <2>3. \A d \in Coro : pc'[d] = pc[d] \/ pc'[d] \notin {"yield", "iowait"}
    BY <2>1, BaseAt DEF Decref
  <2> QED
    BY <1>4, <2>1, <2>2, <2>3
<1>15. ASSUME NEW x \in Stacks, DestroySuspended(x) PROVE Unwinds'
  <2>1. PICK c \in Coro :
          /\ c = reaping[x] /\ current = x /\ pc[x] = "destroy" /\ status[c] = "SUSPENDED"
          /\ pc' = [pc EXCEPT ![x] = "resume"] /\ current' = c
          /\ UNCHANGED <<reaping, held, unwinding>>
    BY <1>15 DEF DestroySuspended, SwapInto
  <2>2. held[c] = 0 /\ ~Reaped(c)
    BY <2>1, NoReferences DEF Counts, Unreferenced
  <2>3. pc[c] = "yield"
    BY <2>1 DEF Control, PlaceMatches
  <2>4. \A d \in Coro : Reaped(d)' => d = c \/ Reaped(d)
    BY <2>1 DEF Reaped
  <2>5. Unwound(c)'
    BY <2>1, <2>2, <2>3 DEF Unwound
  <2>6. \A d \in Coro : Reaped(d) => Unwound(d)'
    BY <1>a, <2>1 DEF Unwound
  <2> QED
    BY <2>4, <2>5, <2>6 DEF Unwinds
<1>16. ASSUME NEW x \in Stacks, pc[x] \in {"destroy", "free"}, current = x,
              UNCHANGED <<pc, reaping>> \/ Free(x, reaping[x]),
              UNCHANGED <<held, unwinding>>
       PROVE  Unwinds'
  <2>1. \A d \in Coro : Reaped(d)' => Reaped(d)
    BY <1>16 DEF Reaped, Free
  <2> QED
    BY <1>4, <1>16, <2>1 DEF Free
<1>17. ASSUME NEW x \in Stacks, DestroyIdle(x) PROVE Unwinds'
  BY <1>16, <1>17 DEF DestroyIdle
<1>18. ASSUME NEW x \in Stacks, DestroyUnwound(x) PROVE Unwinds'
  BY <1>16, <1>18 DEF DestroyUnwound
<1>19. ASSUME NEW x \in Stacks, DestroyEnd(x) PROVE Unwinds'
  <2>1. PICK p \in {"run", "closure"} : pc' = [pc EXCEPT ![x] = p]
    BY <1>19 DEF DestroyEnd
  <2>2. current = x /\ pc[x] = "closure" /\ UNCHANGED <<reaping, held, unwinding>>
    BY <1>19 DEF DestroyEnd
  <2>3. \A d \in Coro : Reaped(d)' => Reaped(d)
    BY <1>b, <2>1, <2>2 DEF Reaped
  <2> QED
    BY <1>4, <2>1, <2>2, <2>3
<1>20. CASE UNCHANGED vars
  <2>1. UNCHANGED <<pc, current, reaping, held, unwinding>>
    BY <1>20 DEF vars
  <2>2. \A d \in Coro : (Reaped(d)' => Reaped(d)) /\ (Unwound(d)' <=> Unwound(d))
    BY <2>1 DEF Reaped, Unwound
  <2> QED
    BY <2>2 DEF Unwinds
<1> HIDE DEF At
<1> QED
  BY <1>1, <1>2, <1>3, <1>6, <1>7, <1>8, <1>9, <1>10, <1>11, <1>12, <1>13, <1>14,
     <1>15, <1>17, <1>18, <1>19, <1>20 DEF Next, Program, Destroy

-----------------------------------------------------------------------------
(* What a destructor finds: a coroutine that has not started, is suspended *)
(* or has ended; and one that has ended when its stack is unwound.         *)
LEMMA DestroyFinds ==
  ASSUME TypeInv, Control, Counts, NEW x \in Stacks, current = x, pc[x] = "destroy"
  PROVE  status[reaping[x]] \in {"NEW", "SUSPENDED", "DEAD"} /\ held[reaping[x]] = 0
<1>1. PICK c \in Coro : c = reaping[x]
  BY CountTypes
<1>2. held[c] = 0 /\ ~InCall(c) /\ pc[c] # "iowait" /\ status[c] # "FREE"
  BY <1>1, NoReferences DEF Counts, Unreferenced
<1>3. status[c] # "RUNNING"
  <2>1. Target(c) \in Stacks
    BY CountTypes DEF Control, StackTypes, Target
  <2> QED
    BY <1>2, <2>1 DEF Control, RunnersCalled, InCall
<1>4. status[c] # "IO"
  BY <1>2 DEF Control, PlaceMatches
<1> QED
  BY <1>1, <1>2, <1>3, <1>4, CountTypes DEF Statuses

LEMMA UnwoundFinds ==
  ASSUME TypeInv, Control, Counts, Unwinds, NEW x \in Stacks, current = x, pc[x] = "free"
  PROVE  /\ status[reaping[x]] = "DEAD" /\ held[reaping[x]] = 0
         /\ refcount[reaping[x]] = 1
<1>1. PICK c \in Coro : c = reaping[x]
  BY CountTypes
<1>2. Reaped(c) /\ status[c] \in {"SUSPENDED", "DEAD", "IO"}
  BY <1>1 DEF Reaped, Control, FreedEnded
<1>3. c # current
  BY <1>2 DEF Control, CurrentRuns
<1>4. held[c] = 0 /\ pc[c] \notin {"yield", "iowait"}
  BY <1>2, <1>3 DEF Unwinds, Unwound
<1>5. status[c] = "DEAD"
  BY <1>2, <1>4 DEF Control, PlaceMatches
<1>6. ~InCall(c)
  BY <1>5 DEF Control, CallsMatch, InCall, InCallOf
<1>7. refcount[c] = 1
  BY <1>2, <1>4, <1>6, CountsOf, CountTypes DEF Counts, One
<1> QED
  BY <1>1, <1>4, <1>5, <1>7

LEMMA UnwindingInvariant ==
  ASSUME DestructorsResume
  PROVE  Spec => [](TypeInv /\ Control /\ Reaping /\ Counts /\ Flags /\ Unwinds)
<1>1. Init => Unwinds
  BY DEF Init, Unwinds, Reaped, Stacks
<1>2. TypeInv /\ Reaping /\ Control /\ Counts /\ Flags /\ [Next]_vars => Flags'
  BY NextFlags
<1>3. TypeInv /\ Reaping /\ Control /\ Counts /\ Flags /\ Unwinds /\ [Next]_vars => Unwinds'
  BY NextUnwinds
<1> QED
  BY <1>1, <1>2, <1>3, InitFlags, CountsInvariant, PTL DEF Spec

(* The exception flag is set exactly while some destructor runs, however   *)
(* deep the destructors of coroutines nest and on whichever stacks.        *)
THEOREM ExceptionScopedHolds ==
  ASSUME DestructorsResume
  PROVE  Spec => []ExceptionScoped
<1>1. Flags => ExceptionScoped
  BY DEF Flags
<1> QED
  BY <1>1, UnwindingInvariant, PTL

(* No order of calls aborts the process: the assertion of the destructor   *)
(* and its test for a coroutine in use never fail.                         *)
THEOREM NoPanicHolds ==
  ASSUME DestructorsResume
  PROVE  Spec => []NoPanic
<1>1. ASSUME TypeInv, Control, Counts, Unwinds, NoPanic, [Next]_vars PROVE NoPanic'
  <2> USE DEF NoPanic, At
  <2>1. ASSUME NEW x \in Stacks, DestroyIdle(x) PROVE NoPanic'
    BY <1>1, <2>1, DestroyFinds DEF DestroyIdle
  <2>2. ASSUME NEW x \in Stacks, DestroyUnwound(x) PROVE NoPanic'
    BY <1>1, <2>2, UnwoundFinds DEF DestroyUnwound
  <2>3. ASSUME NEW x \in Stacks, Program(x) \/ ResumeReturn(x) \/ DestroySuspended(x)
                                 \/ DestroyEnd(x)
        PROVE  NoPanic'
    BY <1>1, <2>3 DEF Program, Create, Retain, Release, Resume, ResumeReturn,
       DestroySuspended, DestroyEnd
  <2>4. ASSUME NEW c \in Coro, Yield(c) \/ YieldReturn(c) \/ Catch(c) \/ Exit(c) \/ IoWait(c)
                               \/ IoWaitReturn(c) \/ IoResume(c)
        PROVE  NoPanic'
    BY <1>1, <2>4 DEF Yield, YieldReturn, Catch, Exit, IoWait, IoWaitReturn, IoResume
  <2>5. CASE IoResumeReturn
    BY <1>1, <2>5 DEF IoResumeReturn
  <2>6. CASE UNCHANGED vars
    BY <1>1, <2>6 DEF vars
  <2> QED
    BY <1>1, <2>1, <2>2, <2>3, <2>4, <2>5, <2>6 DEF Next, Destroy
<1>2. Init => NoPanic
  BY DEF Init, NoPanic
<1>3. TypeInv /\ Control /\ Counts /\ Unwinds /\ NoPanic /\ [Next]_vars => NoPanic'
  BY <1>1
<1> QED
  BY <1>2, <1>3, UnwindingInvariant, PTL DEF Spec

(* A coroutine is freed only when it never started or its stack has ended, *)
(* and when nobody refers to it.                                           *)
THEOREM FreesEndedHolds ==
  ASSUME DestructorsResume
  PROVE  Spec => FreesEndedStacks
<1> DEFINE Ended == \A c \in Coro : status[c] # "FREE" /\ status'[c] = "FREE" =>
                        /\ status[c] \in {"NEW", "DEAD"}
                        /\ held[c] = 0
<1>1. ASSUME TypeInv, Control, Counts, Unwinds, [Next]_vars PROVE Ended
  <2> USE <1>1, CountTypes DEF At
  <2>1. ASSUME NEW c \in Coro, NEW st \in Statuses \ {"FREE"},
               status' = [status EXCEPT ![c] = st]
        PROVE  Ended
    BY <2>1
  <2>2. ASSUME status' = status PROVE Ended
    BY <2>2
  <2>3. ASSUME NEW c \in Coro, status' = [status EXCEPT ![c] = "FREE"],
               status[c] \in {"NEW", "DEAD"}, held[c] = 0
        PROVE  Ended
    BY <2>3
  <2> HIDE DEF Ended
  <2>4. ASSUME NEW x \in Stacks, DestroyIdle(x) PROVE Ended
    <3>1. /\ status[reaping[x]] \in {"NEW", "SUSPENDED", "DEAD"} /\ held[reaping[x]] = 0
          /\ status[reaping[x]] # "SUSPENDED" /\ reaping[x] \in Coro
      BY <2>4, DestroyFinds DEF DestroyIdle
    <3>2. status' = status \/ status' = [status EXCEPT ![reaping[x]] = "FREE"]
      BY <2>4 DEF DestroyIdle, Free
    <3> QED
      BY <2>2, <2>3, <3>1, <3>2
  <2>5. ASSUME NEW x \in Stacks, DestroyUnwound(x) PROVE Ended
    <3>1. status[reaping[x]] = "DEAD" /\ held[reaping[x]] = 0 /\ reaping[x] \in Coro
      BY <2>5, UnwoundFinds DEF DestroyUnwound
    <3>2. status' = status \/ status' = [status EXCEPT ![reaping[x]] = "FREE"]
      BY <2>5 DEF DestroyUnwound, Free
    <3> QED
      BY <2>2, <2>3, <3>1, <3>2
  <2>6. ASSUME NEW x \in Stacks, DestroySuspended(x) \/ DestroyEnd(x) PROVE Ended
    BY <2>1, <2>2, <2>6 DEF DestroySuspended, DestroyEnd, SwapInto, Statuses
  <2>7. ASSUME NEW x \in Stacks, Program(x) \/ ResumeReturn(x) PROVE Ended
    <3>1. ASSUME NEW c \in Coro, NEW st \in {"NEW", "DEAD"}, Create(x, c, st) PROVE Ended
      BY <2>1, <3>1 DEF Create, Statuses
    <3>2. ASSUME NEW c \in Coro, Retain(x, c) \/ Release(x, c) PROVE Ended
      BY <2>2, <3>2 DEF Retain, Release
    <3>3. ASSUME NEW c \in Coro, Resume(x, c) PROVE Ended
      BY <2>1, <3>3 DEF Resume, SwapInto, Statuses
    <3>4. ResumeReturn(x) => Ended
      BY <2>2 DEF ResumeReturn
    <3> QED
      BY <2>7, <3>1, <3>2, <3>3, <3>4 DEF Program
  <2>8. ASSUME NEW c \in Coro, Yield(c) \/ Exit(c) \/ IoWait(c) \/ IoResume(c) PROVE Ended
    BY <2>1, <2>8 DEF Yield, Exit, IoWait, IoResume, SwapOut, Statuses
  <2>9. ASSUME NEW c \in Coro, YieldReturn(c) \/ Catch(c) \/ IoWaitReturn(c) PROVE Ended
    BY <2>2, <2>9 DEF YieldReturn, Catch, IoWaitReturn
  <2>10. IoResumeReturn => Ended
    BY <2>2 DEF IoResumeReturn
  <2>11. UNCHANGED vars => Ended
    BY <2>2 DEF vars
  <2> HIDE DEF At
  <2> QED
    BY <2>4, <2>5, <2>6, <2>7, <2>8, <2>9, <2>10, <2>11 DEF Next, Destroy
<1>2. TypeInv /\ Control /\ Counts /\ Unwinds /\ [Next]_vars => [Ended]_vars
  BY <1>1
<1> HIDE DEF Ended
<1>3. Spec => [][Ended]_vars
  BY <1>2, UnwindingInvariant, PTL DEF Spec
<1> QED
  BY <1>3, PTL DEF FreesEndedStacks, Ended
=============================================================================
