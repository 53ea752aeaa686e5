-------------------------- MODULE ProxyRetry_proofs --------------------------
(***************************************************************************)
(* Proofs about ProxyRetry and about GeminiFailover, which extends it, for *)
(* any number of requests, pools, credentials and upstream replies.  The   *)
(* engine's steps are steps of both specifications: what they preserve is  *)
(* stated once, of requests that may also be inside a stream.  Both keep   *)
(* the promise of AnswerPromise.                                           *)
(***************************************************************************)
EXTENDS GeminiFailover, TLAPS, FiniteSetTheorems

USE DEF Durations

(* A slot holds a credential (NewBalancedPool fills every slot).           *)
LEMMA SlotHoldsCredential ==
    ASSUME NEW p \in Pools, NEW i \in Slots(p)
    PROVE  /\ At(p, i) \in Creds
           /\ i \in Nat
           /\ TotalCount(p) \in Nat \ {0}
BY PoolAssumption DEF Slots, At, TotalCount

\* A routed ring has a slot (sync.go skips a pool without credentials).
LEMMA RingSize == ASSUME NEW p \in Pools PROVE TotalCount(p) \in Nat \ {0}
BY PoolAssumption DEF TotalCount

(* Every cooldown of the code is within the model's range.                 *)
LEMMA CooldownInRange ==
    ASSUME NEW rep \in [status : Nat, body : Bodies], NEW c \in Creds
    PROVE  Cooldown(rep, c) \in 0..MaxCool
<1>1. \A d \in Durations : Ticks[d] \in 0..MaxCool
  BY RetryAssumption, TicksAssumption
<1>2. CooldownForStatus(rep.status) \in 0..MaxCool
  BY <1>1 DEF CooldownForStatus, AuthError
<1>3. rep.body \in {"plain", "depleted", "agreement", "denied"}
  BY DEF Bodies
<1> QED BY <1>1, <1>2, <1>3 DEF Cooldown

\* Setting a slot within the range keeps every cooldown in the range.
LEMMA SetSlotInRange ==
    ASSUME NEW p \in Pools, NEW i \in Nat, NEW t \in 0..MaxCool,
           NEW cl \in [Creds -> 0..MaxCool]
    PROVE  SetSlot(p, i, t, cl) \in [Creds -> 0..MaxCool]
BY SlotHoldsCredential DEF SetSlot

-----------------------------------------------------------------------------
(* What the steps of the engine do to cooldowns and failure counts.        *)
LEMMA PickedIsCredential ==
    ASSUME PickOK, NEW r \in Requests
    PROVE  /\ Picked(r) \in Creds
           /\ pick[r].pool \in Pools
           /\ pick[r].idx \in Nat
BY SlotHoldsCredential DEF PickOK, Picked

\* So does penalising the credential a request acquired.
LEMMA PenalizeInRange ==
    ASSUME PoolsOK, PickOK, NEW r \in Requests, NEW t \in 0..MaxCool,
           Penalize(r, t)
    PROVE  cool' \in [Creds -> 0..MaxCool]
BY PickedIsCredential, SetSlotInRange DEF PoolsOK, Penalize

\* The cooldowns a request can give are in range.
LEMMA ReplyCooldown ==
    ASSUME PickOK, ReplyOK, NEW r \in Requests
    PROVE  Cooldown(reply[r], Picked(r)) \in 0..MaxCool /\ Ticks[300] \in 0..MaxCool
<1>1. reply[r] \in [status : Nat, body : Bodies]
  BY DEF ReplyOK
<1>2. Picked(r) \in Creds
  BY PickedIsCredential
<1>3. Cooldown(reply[r], Picked(r)) \in 0..MaxCool
  BY <1>1, <1>2, CooldownInRange
<1>4. Ticks[300] \in 0..MaxCool
  BY RetryAssumption, TicksAssumption
<1> QED BY <1>3, <1>4

\* Recording a failed attempt keeps the types of what was recorded.
LEMMA FailedReplyOK ==
    ASSUME ReplyOK, NEW r \in Requests, RecordFailure(r)
    PROVE  ReplyOK'
<1>1. \A v \in Providers : Bad(r, v) \in Nat
  BY DEF ReplyOK, Bad
<1>2. bad' \in [Requests -> [Providers -> Nat]]
  BY <1>1 DEF ReplyOK, RecordFailure
<1>3. last' \in [Requests -> Nat]
  BY DEF ReplyOK, RecordFailure
<1> QED BY <1>2, <1>3 DEF ReplyOK, RecordFailure

-----------------------------------------------------------------------------
(* The types the engine's steps keep, whether or not a request is in one   *)
(* of the places GeminiFailover adds.                                      *)
AllPcs == Pcs \cup StreamPcs

Typed == pc \in [Requests -> AllPcs] /\ DataOK

\* The type invariant holds at first, every ring having a slot 0.
LEMMA InitTypeOK == Init => TypeOK
<1> SUFFICES ASSUME Init PROVE TypeOK OBVIOUS
<1>1. PICK route \in [Requests -> Routes] :
        /\ want = [r \in Requests |-> route[r][1]]
        /\ pool = [r \in Requests |-> route[r][2]]
        /\ at = [r \in Requests |-> route[r][2]]
        /\ pick = [r \in Requests |-> [pool |-> route[r][2], idx |-> 0]]
        /\ triedPools = [r \in Requests |-> {route[r][2]}]
  BY DEF Init
<1>2. \A r \in Requests : route[r][1] \in Models /\ route[r][2] \in Pools
  BY RetryAssumption
<1>3. \A p \in Pools : 0 \in Slots(p)
  BY RingSize DEF Slots
<1>4. pick \in [Requests -> [pool : Pools, idx : Nat]]
  BY <1>1, <1>2
<1>5. \A r \in Requests : pick[r].idx \in Slots(pick[r].pool)
  BY <1>1, <1>2, <1>3
<1>6. NoReply \in [status : Nat, body : Bodies]
  BY DEF NoReply, Bodies
<1>7. cool \in [Creds -> 0..MaxCool] /\ rest \in [Requests -> 0..MaxCool]
  BY RetryAssumption DEF Init
<1>8. want \in [Requests -> Models] /\ pool \in [Requests -> Pools]
      /\ at \in [Requests -> Pools] /\ triedPools \in [Requests -> SUBSET Pools]
  BY <1>1, <1>2
<1>9. pc \in [Requests -> Pcs] /\ answers \in [Requests -> Seq(Nat)]
  BY DEF Init, Pcs
<1>10. bad \in [Requests -> [Providers -> Nat]] /\ tried \in [Requests -> SUBSET Nat]
  BY DEF Init
<1>11. reply \in [Requests -> [status : Nat, body : Bodies]]
  BY <1>6 DEF Init
<1>12. cursor \in [Pools -> Nat] /\ cancelled \in [Requests -> BOOLEAN]
       /\ spins \in [Requests -> Nat] /\ last \in [Requests -> Nat]
       /\ sends \in [Requests -> Nat]
  BY DEF Init
<1> QED BY <1>4, <1>5, <1>7, <1>8, <1>9, <1>10, <1>11, <1>12 DEF TypeOK, DataOK,
     PoolsOK, PickOK, LoopOK, ReplyOK

\* Every step of the engine keeps the types, and slots within their rings.
LEMMA NextTyped == Typed /\ [Next]_vars => Typed'
<1> SUFFICES ASSUME Typed, [Next]_vars PROVE Typed'
  OBVIOUS
<1> USE DEF DataOK
<1>1. ASSUME NEW r \in Requests, Arrive(r) PROVE Typed'
  <2>1. pc' \in [Requests -> AllPcs]
    BY <1>1 DEF Arrive, Typed, AllPcs, Pcs, Goto
  <2>2. PoolsOK'
    BY <1>1 DEF Arrive, Typed, PoolsOK, poolVars
  <2>3. PickOK'
    BY <1>1 DEF Arrive, Typed, PickOK, loopVars
  <2>4. LoopOK'
    BY <1>1 DEF Arrive, Typed, LoopOK, loopVars
  <2>5. ReplyOK'
    BY <1>1 DEF Arrive, Typed, ReplyOK, replyVars
  <2> QED BY <2>1, <2>2, <2>3, <2>4, <2>5 DEF Typed
<1>2. ASSUME NEW r \in Requests, Cancel(r) PROVE Typed'
  <2>1. pc' \in [Requests -> AllPcs]
    BY <1>2 DEF Cancel, Typed, AllPcs, Pcs, Goto
  <2>2. PoolsOK'
    BY <1>2 DEF Cancel, Typed, PoolsOK, poolVars
  <2>3. PickOK'
    BY <1>2 DEF Cancel, Typed, PickOK, loopVars
  <2>4. LoopOK'
    BY <1>2 DEF Cancel, Typed, LoopOK, loopVars
  <2>5. ReplyOK'
    BY <1>2 DEF Cancel, Typed, ReplyOK, replyVars
  <2> QED BY <2>1, <2>2, <2>3, <2>4, <2>5 DEF Typed
<1>3. ASSUME NEW r \in Requests, SpendPool(r) PROVE Typed'
  <2>1. pc' \in [Requests -> AllPcs]
    BY <1>3 DEF SpendPool, Typed, AllPcs, Pcs, Goto
  <2>2. PoolsOK'
    BY <1>3 DEF SpendPool, Typed, PoolsOK, poolVars
  <2>3. PickOK'
    BY <1>3 DEF SpendPool, Typed, PickOK, loopVars
  <2>4. LoopOK'
    BY <1>3 DEF SpendPool, Typed, LoopOK, loopVars
  <2>5. ReplyOK'
    BY <1>3 DEF SpendPool, Typed, ReplyOK, replyVars
  <2> QED BY <2>1, <2>2, <2>3, <2>4, <2>5 DEF Typed
<1>4. ASSUME NEW r \in Requests, AbortLoop(r) PROVE Typed'
  <2>1. pc' \in [Requests -> AllPcs]
    BY <1>4 DEF AbortLoop, Typed, AllPcs, Pcs, Goto, FinishCancelled
  <2>2. PoolsOK'
    BY <1>4 DEF AbortLoop, Typed, PoolsOK, poolVars
  <2>3. PickOK'
    BY <1>4 DEF AbortLoop, Typed, PickOK, loopVars
  <2>4. LoopOK'
    BY <1>4 DEF AbortLoop, Typed, LoopOK, loopVars
  <2>5. ReplyOK'
    BY <1>4 DEF AbortLoop, Typed, ReplyOK, replyVars, FinishCancelled
  <2> QED BY <2>1, <2>2, <2>3, <2>4, <2>5 DEF Typed
<1>5. ASSUME NEW r \in Requests, Spin(r) PROVE Typed'
  <2>1. pc' \in [Requests -> AllPcs]
    BY <1>5 DEF Spin, Typed, AllPcs, Pcs, Goto
  <2>2. PoolsOK'
    BY <1>5 DEF Spin, Typed, PoolsOK, poolVars
  <2>3. PickOK'
    BY <1>5 DEF Spin, Typed, PickOK, loopVars
  <2>4. LoopOK'
    BY <1>5 DEF Spin, Typed, LoopOK, loopVars
  <2>5. ReplyOK'
    BY <1>5 DEF Spin, Typed, ReplyOK, replyVars
  <2> QED BY <2>1, <2>2, <2>3, <2>4, <2>5 DEF Typed
<1>6. ASSUME NEW r \in Requests, Scan(r) PROVE Typed'
  <2>1. pc' \in [Requests -> AllPcs]
    BY <1>6 DEF Scan, Typed, AllPcs, Pcs, Goto
  <2>2. PoolsOK'
    <3>1. (cursor[at[r]] + 1) % TotalCount(at[r]) \in Nat
      BY RingSize DEF Typed, PoolsOK, LoopOK
    <3> QED BY <1>6, <3>1 DEF Scan, Typed, PoolsOK
  <2>3. PickOK'
    <3>1. \A base : FirstOpen(at[r], base, cool) \subseteq Slots(at[r])
      BY DEF FirstOpen, Open
    <3>2. at[r] \in Pools
      BY DEF Typed, LoopOK
    <3> QED BY <1>6, <3>1, <3>2, SlotHoldsCredential DEF Scan, Typed, PickOK
  <2>4. LoopOK'
    BY <1>6, PoolAssumption DEF Scan, Typed, LoopOK, loopVars
  <2>5. ReplyOK'
    BY <1>6 DEF Scan, Typed, ReplyOK, replyVars
  <2> QED BY <2>1, <2>2, <2>3, <2>4, <2>5 DEF Typed
<1>7. ASSUME NEW r \in Requests, Least(r) PROVE Typed'
  <2>1. pc' \in [Requests -> AllPcs]
    BY <1>7 DEF Least, Typed, AllPcs, Pcs, Goto
  <2>2. PoolsOK'
    BY <1>7 DEF Least, Typed, PoolsOK, poolVars
  <2>3. PickOK'
    <3>1. LeastPenalized(pool[r], cool) \subseteq Slots(pool[r])
      BY DEF LeastPenalized
    <3>2. pool[r] \in Pools
      BY DEF Typed, LoopOK
    <3>3. PICK i \in Slots(pool[r]) :
            pick' = [pick EXCEPT ![r] = [pool |-> pool[r], idx |-> i]]
      BY <1>7, <3>1 DEF Least
    <3> QED BY <3>2, <3>3, SlotHoldsCredential DEF Typed, PickOK
  <2>4. LoopOK'
    BY <1>7, SlotHoldsCredential, RetryAssumption, TicksAssumption
    DEF Least, Typed, LoopOK, loopVars, PoolsOK, LeastPenalized
  <2>5. ReplyOK'
    BY <1>7 DEF Least, Typed, ReplyOK, replyVars
  <2> QED BY <2>1, <2>2, <2>3, <2>4, <2>5 DEF Typed
<1>8. ASSUME NEW r \in Requests, Wake(r) PROVE Typed'
  <2>1. pc' \in [Requests -> AllPcs]
    BY <1>8 DEF Wake, Typed, AllPcs, Pcs, Goto
  <2>2. PoolsOK'
    BY <1>8 DEF Wake, Typed, PoolsOK, poolVars
  <2>3. PickOK'
    BY <1>8 DEF Wake, Typed, PickOK, loopVars
  <2>4. LoopOK'
    BY <1>8 DEF Wake, Typed, LoopOK, loopVars
  <2>5. ReplyOK'
    BY <1>8 DEF Wake, Typed, ReplyOK, replyVars
  <2> QED BY <2>1, <2>2, <2>3, <2>4, <2>5 DEF Typed
<1>9. ASSUME NEW r \in Requests, SkipLimited(r) PROVE Typed'
  <2>1. pc' \in [Requests -> AllPcs]
    BY <1>9 DEF SkipLimited, Typed, AllPcs, Pcs, Goto
  <2>2. PoolsOK'
    BY <1>9, PickedIsCredential, SetSlotInRange, RetryAssumption, TicksAssumption
    DEF SkipLimited, Typed, PoolsOK, poolVars
  <2>3. PickOK'
    BY <1>9 DEF SkipLimited, Typed, PickOK, loopVars
  <2>4. LoopOK'
    BY <1>9 DEF SkipLimited, Typed, LoopOK, loopVars
  <2>5. ReplyOK'
    BY <1>9 DEF SkipLimited, Typed, ReplyOK, replyVars
  <2> QED BY <2>1, <2>2, <2>3, <2>4, <2>5 DEF Typed
<1>10. ASSUME NEW r \in Requests, SkipTried(r) PROVE Typed'
  <2>1. pc' \in [Requests -> AllPcs]
    BY <1>10 DEF SkipTried, Typed, AllPcs, Pcs, Goto
  <2>2. PoolsOK'
    BY <1>10 DEF SkipTried, Typed, PoolsOK, poolVars
  <2>3. PickOK'
    BY <1>10 DEF SkipTried, Typed, PickOK, loopVars
  <2>4. LoopOK'
    BY <1>10 DEF SkipTried, Typed, LoopOK, loopVars
  <2>5. ReplyOK'
    BY <1>10 DEF SkipTried, Typed, ReplyOK, replyVars
  <2> QED BY <2>1, <2>2, <2>3, <2>4, <2>5 DEF Typed
<1>11. ASSUME NEW r \in Requests, Dispatch(r) PROVE Typed'
  <2>1. pc' \in [Requests -> AllPcs]
    BY <1>11 DEF Dispatch, Typed, AllPcs, Pcs, Goto
  <2>2. PoolsOK'
    BY <1>11 DEF Dispatch, Typed, PoolsOK, poolVars
  <2>3. PickOK'
    BY <1>11 DEF Dispatch, Typed, PickOK, loopVars
  <2>4. LoopOK'
    BY <1>11, PickedIsCredential DEF Dispatch, Typed, LoopOK, loopVars
  <2>5. ReplyOK'
    BY <1>11 DEF Dispatch, Typed, ReplyOK, replyVars
  <2> QED BY <2>1, <2>2, <2>3, <2>4, <2>5 DEF Typed
<1>12. ASSUME NEW r \in Requests, Forward(r) PROVE Typed'
  <2>1. pc' \in [Requests -> AllPcs]
    BY <1>12 DEF Forward, Typed, AllPcs, Pcs, Goto
  <2>2. PoolsOK'
    BY <1>12 DEF Forward, Typed, PoolsOK, poolVars
  <2>3. PickOK'
    BY <1>12 DEF Forward, Typed, PickOK, loopVars
  <2>4. LoopOK'
    BY <1>12 DEF Forward, Typed, LoopOK, loopVars
  <2>5. PICK rep \in Replies :
            /\ reply' = [reply EXCEPT ![r] = rep]
            /\ answers' = [answers EXCEPT
                            ![r] = IF Ok(rep.status) THEN Append(@, rep.status) ELSE @]
    BY <1>12 DEF Forward
  <2>6. rep \in [status : Nat, body : Bodies] /\ rep.status \in Nat
    BY RetryAssumption
  <2>7. reply' \in [Requests -> [status : Nat, body : Bodies]]
    BY <2>5, <2>6 DEF Typed, ReplyOK
  <2>8. answers' \in [Requests -> Seq(Nat)]
    BY <2>5, <2>6 DEF Typed, ReplyOK
  <2>9. ReplyOK'
    BY <1>12, <2>7, <2>8 DEF Forward, Typed, ReplyOK
  <2> QED BY <2>1, <2>2, <2>3, <2>4, <2>9 DEF Typed
<1>13. ASSUME NEW r \in Requests, AbortReplied(r) PROVE Typed'
  <2>1. pc' \in [Requests -> AllPcs]
    BY <1>13 DEF AbortReplied, Typed, AllPcs, Pcs, Goto, FinishCancelled
  <2>2. PoolsOK'
    BY <1>13 DEF AbortReplied, Typed, PoolsOK, poolVars
  <2>3. PickOK'
    BY <1>13 DEF AbortReplied, Typed, PickOK, loopVars
  <2>4. LoopOK'
    BY <1>13 DEF AbortReplied, Typed, LoopOK, loopVars
  <2>5. ReplyOK'
    BY <1>13 DEF AbortReplied, Typed, ReplyOK, replyVars, FinishCancelled
  <2> QED BY <2>1, <2>2, <2>3, <2>4, <2>5 DEF Typed
<1>14. ASSUME NEW r \in Requests, Succeed(r) PROVE Typed'
  <2>1. pc' \in [Requests -> AllPcs]
    BY <1>14 DEF Succeed, Typed, AllPcs, Pcs, Goto
  <2>2. PoolsOK'
    BY <1>14, PickedIsCredential, SetSlotInRange, RetryAssumption
    DEF Succeed, Typed, PoolsOK, poolVars, LoopOK
  <2>3. PickOK'
    BY <1>14 DEF Succeed, Typed, PickOK, loopVars
  <2>4. LoopOK'
    BY <1>14 DEF Succeed, Typed, LoopOK, loopVars
  <2>5. ReplyOK'
    BY <1>14 DEF Succeed, Typed, ReplyOK, replyVars
  <2> QED BY <2>1, <2>2, <2>3, <2>4, <2>5 DEF Typed
<1>15. ASSUME NEW r \in Requests, SwitchPool(r) PROVE Typed'
  <2>1. pc' \in [Requests -> AllPcs]
    BY <1>15 DEF SwitchPool, Typed, AllPcs, Pcs, Goto
  <2>2. PoolsOK'
    BY <1>15 DEF SwitchPool, Typed, PoolsOK, poolVars
  <2>3. PickOK'
    BY <1>15 DEF SwitchPool, Typed, PickOK, loopVars
  <2>4. LoopOK'
    BY <1>15
    DEF SwitchPool, Typed, LoopOK, loopVars, Fallbacks, ExactFallbacks
  <2>5. ReplyOK'
    BY <1>15 DEF SwitchPool, Typed, ReplyOK, replyVars
  <2> QED BY <2>1, <2>2, <2>3, <2>4, <2>5 DEF Typed
<1>16. ASSUME NEW r \in Requests, GiveUp(r) PROVE Typed'
  <2>1. pc' \in [Requests -> AllPcs]
    BY <1>16 DEF GiveUp, Typed, AllPcs, Pcs, Goto, Finish
  <2>2. PoolsOK'
    BY <1>16 DEF GiveUp, Typed, PoolsOK, poolVars
  <2>3. PickOK'
    BY <1>16 DEF GiveUp, Typed, PickOK, loopVars
  <2>4. LoopOK'
    BY <1>16 DEF GiveUp, Typed, LoopOK, loopVars
  <2>5. ReplyOK'
    BY <1>16 DEF GiveUp, Typed, ReplyOK, replyVars, Finish, ErrorStatus
  <2> QED BY <2>1, <2>2, <2>3, <2>4, <2>5 DEF Typed
<1>17. ASSUME NEW r \in Requests, RotateKeyFault(r) PROVE Typed'
  <2>1. pc' \in [Requests -> AllPcs]
    BY <1>17 DEF RotateKeyFault, Typed, AllPcs, Pcs, Goto
  <2>2. PoolsOK'
    <3>1. Cooldown(reply[r], Picked(r)) \in 0..MaxCool /\ Ticks[300] \in 0..MaxCool
      BY ReplyCooldown DEF Typed
    <3>2. cool' \in [Creds -> 0..MaxCool]
      BY <1>17, <3>1, PenalizeInRange DEF RotateKeyFault, Typed
    <3> QED BY <1>17, <3>2 DEF RotateKeyFault, Failed, Typed, PoolsOK
  <2>3. PickOK' /\ LoopOK'
    BY <1>17 DEF RotateKeyFault, Failed, Typed, PickOK, LoopOK, loopVars
  <2>4. ReplyOK'
    BY <1>17 DEF RotateKeyFault, Failed, Typed, ReplyOK, replyVars
  <2> QED BY <2>1, <2>2, <2>3, <2>4 DEF Typed
<1>18. ASSUME NEW r \in Requests, AbortPayloadFault(r) PROVE Typed'
  <2>1. pc' \in [Requests -> AllPcs]
    BY <1>18 DEF AbortPayloadFault, Typed, AllPcs, Pcs, Goto
  <2>2. PoolsOK'
    BY <1>18 DEF AbortPayloadFault, Failed, Typed, PoolsOK
  <2>3. PickOK' /\ LoopOK'
    BY <1>18 DEF AbortPayloadFault, Failed, Typed, PickOK, LoopOK, loopVars
  <2>4. ReplyOK'
    BY <1>18 DEF AbortPayloadFault, Failed, Typed, ReplyOK, replyVars
  <2> QED BY <2>1, <2>2, <2>3, <2>4 DEF Typed
<1>19. ASSUME NEW r \in Requests, AbortLimitedAlone(r) PROVE Typed'
  <2>1. pc' \in [Requests -> AllPcs]
    BY <1>19 DEF AbortLimitedAlone, Typed, AllPcs, Pcs, Goto
  <2>2. PoolsOK'
    <3>1. Cooldown(reply[r], Picked(r)) \in 0..MaxCool /\ Ticks[300] \in 0..MaxCool
      BY ReplyCooldown DEF Typed
    <3>2. cool' \in [Creds -> 0..MaxCool]
      BY <1>19, <3>1, PenalizeInRange DEF AbortLimitedAlone, Typed
    <3> QED BY <1>19, <3>2 DEF AbortLimitedAlone, Failed, Typed, PoolsOK
  <2>3. PickOK' /\ LoopOK'
    BY <1>19 DEF AbortLimitedAlone, Failed, Typed, PickOK, LoopOK, loopVars
  <2>4. ReplyOK'
    BY <1>19 DEF AbortLimitedAlone, Failed, Typed, ReplyOK, replyVars
  <2> QED BY <2>1, <2>2, <2>3, <2>4 DEF Typed
<1>20. ASSUME NEW r \in Requests, RotateFailure(r) PROVE Typed'
  <2>1. pc' \in [Requests -> AllPcs]
    BY <1>20 DEF RotateFailure, Typed, AllPcs, Pcs, Goto
  <2>2. PoolsOK'
    <3>1. Cooldown(reply[r], Picked(r)) \in 0..MaxCool /\ Ticks[300] \in 0..MaxCool
      BY ReplyCooldown DEF Typed
    <3>2. cool' \in [Creds -> 0..MaxCool]
      BY <1>20, <3>1, PenalizeInRange DEF RotateFailure, Typed
    <3> QED BY <1>20, <3>2 DEF RotateFailure, Failed, Typed, PoolsOK
  <2>3. PickOK' /\ LoopOK'
    BY <1>20 DEF RotateFailure, Failed, Typed, PickOK, LoopOK, loopVars
  <2>4. ReplyOK'
    BY <1>20 DEF RotateFailure, Failed, Typed, ReplyOK, replyVars
  <2> QED BY <2>1, <2>2, <2>3, <2>4 DEF Typed
<1>21. ASSUME NEW c \in Creds, PeerEvent(c) PROVE Typed'
  <2>1. PoolsOK'
    BY <1>21, RetryAssumption DEF PeerEvent, Typed, PoolsOK
  <2> QED
    BY <1>21, <2>1
    DEF PeerEvent, Typed, PickOK, LoopOK, ReplyOK, loopVars, replyVars
<1>22. CASE Tick
  <2>1. PoolsOK'
    BY <1>22, RetryAssumption DEF Tick, Cooler, Typed, PoolsOK
  <2>2. LoopOK'
    <3>1. rest' \in [Requests -> 0..MaxCool]
      BY <1>22, RetryAssumption DEF Tick, Typed, LoopOK
    <3> QED BY <1>22, <3>1 DEF Tick, Typed, LoopOK
  <2> QED
    BY <1>22, <2>1, <2>2 DEF Tick, Typed, PickOK, ReplyOK, replyVars
<1>23. CASE UNCHANGED vars
  BY <1>23
  DEF vars, Typed, PoolsOK, PickOK, LoopOK, ReplyOK, poolVars, loopVars, replyVars
<1>24. ASSUME NEW r \in Requests, RecordFailure(r) PROVE Typed'
  <2>1. pc' \in [Requests -> AllPcs]
    BY <1>24 DEF RecordFailure, Typed, AllPcs, Pcs, Goto
  <2>2. PoolsOK' /\ PickOK' /\ LoopOK'
    BY <1>24 DEF RecordFailure, Typed, PoolsOK, PickOK, LoopOK, poolVars, loopVars
  <2>3. ReplyOK'
    BY <1>24, FailedReplyOK DEF Typed
  <2> QED BY <2>1, <2>2, <2>3 DEF Typed
<1> QED
  BY RetryAssumption, <1>1, <1>2, <1>3, <1>4, <1>5, <1>6, <1>7, <1>8, <1>9,
     <1>10, <1>11, <1>12, <1>13, <1>14, <1>15, <1>16, <1>17, <1>18, <1>19,
     <1>20, <1>21, <1>22, <1>23, <1>24
  DEF Next, Engine, Acquire, Settle

\* Without streams, a request stays in the places of the engine.
LEMMA NextTypeOK == TypeOK /\ [Next]_vars => TypeOK'
<1> SUFFICES ASSUME TypeOK, [Next]_vars PROVE TypeOK'
  OBVIOUS
<1>1. DataOK'
  BY NextTyped DEF TypeOK, Typed, AllPcs
<1>2. ASSUME NEW r \in Requests, Arrive(r) \/ Cancel(r) \/ Engine(r)
      PROVE  UNCHANGED pc \/ \E label \in Pcs : Goto(r, label)
  BY <1>2
  DEF Engine, Acquire, Settle, Arrive, Cancel, SpendPool, AbortLoop, Spin, Scan,
      Least, Wake, SkipLimited, SkipTried, Dispatch, Forward, AbortReplied,
      Succeed, RotateKeyFault, AbortPayloadFault, AbortLimitedAlone,
      RotateFailure, SwitchPool, GiveUp, RecordFailure, Finish, FinishCancelled, Pcs
<1>3. ASSUME NEW r \in Requests, NEW label \in Pcs, Goto(r, label)
      PROVE  pc' \in [Requests -> Pcs]
  BY <1>3 DEF Goto, TypeOK
<1>4. (\E c \in Shared : PeerEvent(c)) \/ Tick \/ UNCHANGED vars => UNCHANGED pc
  BY DEF PeerEvent, Tick, vars
<1>5. pc' \in [Requests -> Pcs]
  BY <1>2, <1>3, <1>4 DEF Next, TypeOK
<1> QED BY <1>1, <1>5 DEF TypeOK

(* The type invariant of the retry engine holds in every run of it.        *)
THEOREM TypeCorrect == Spec => []TypeOK
BY InitTypeOK, NextTypeOK, PTL DEF Spec

LEMMA TypedAlways == Spec => []Typed
<1>1. TypeOK => Typed
  BY DEF TypeOK, Typed, AllPcs
<1> QED BY <1>1, TypeCorrect, PTL

-----------------------------------------------------------------------------
(* AnsweredOnce is not inductive: that the wire is clean while a request   *)
(* rotates, and that a reply at hand was written exactly when it is a 2xx, *)
(* is what makes it so.                                                    *)
AnswerInv ==
    \A r \in Requests :
        /\ answers[r] # <<>> =>
              Len(answers[r]) = 1 /\ pc[r] \in {"replied", "done"} \cup StreamPcs
        /\ pc[r] = "done" => answers[r] # <<>>
        /\ pc[r] = "replied" => (Ok(reply[r].status) <=> answers[r] # <<>>)

\* A step of one request that stays in the loop and writes nothing.
LEMMA QuietStep ==
    ASSUME Typed, AnswerInv, NEW r \in Requests, NEW label,
           Goto(r, label), label \notin {"replied", "done"},
           pc[r] # "done", answers[r] = <<>>, UNCHANGED <<answers, reply>>
    PROVE  AnswerInv'
BY DEF AnswerInv, Goto, Typed

\* A request is answered, once, as it leaves the engine.
LEMMA AnsweringStep ==
    ASSUME Typed, AnswerInv, NEW r \in Requests, NEW status \in Nat,
           Finish(r, status), answers[r] = <<>>, UNCHANGED reply
    PROVE  AnswerInv'
<1>1. Len(Append(answers[r], status)) = 1 /\ Append(answers[r], status) # <<>>
  OBVIOUS
<1> QED BY <1>1 DEF AnswerInv, Finish, Goto, Typed, DataOK, ReplyOK

\* A cancelled request leaves with what was written, or with a 504.
LEMMA CancellingStep ==
    ASSUME Typed, AnswerInv, NEW r \in Requests,
           FinishCancelled(r), UNCHANGED reply
    PROVE  AnswerInv'
<1>1. Len(<<504>>) = 1 /\ <<504>> # <<>>
  OBVIOUS
<1> QED BY <1>1 DEF AnswerInv, FinishCancelled, Goto, Typed, DataOK, ReplyOK

\* Nothing is answered at first.
LEMMA InitAnswerInv == Init => AnswerInv
BY DEF Init, AnswerInv

\* No step answers twice, or leaves without an answer.
LEMMA NextAnswerInv == Typed /\ AnswerInv /\ [Next]_vars => AnswerInv'
<1> SUFFICES ASSUME Typed, AnswerInv, [Next]_vars PROVE AnswerInv'
  OBVIOUS
<1>1. ASSUME NEW r \in Requests,
             Arrive(r) \/ SpendPool(r) \/ Spin(r) \/ Scan(r) \/ Least(r) \/ Wake(r)
               \/ SkipLimited(r) \/ SkipTried(r) \/ Dispatch(r) \/ SwitchPool(r)
      PROVE  AnswerInv'
  <2>1. pc[r] \notin {"replied", "done"} /\ answers[r] = <<>>
        /\ UNCHANGED <<answers, reply>>
    BY <1>1
    DEF AnswerInv, StreamPcs, Arrive, SpendPool, Spin, Scan, Least, Wake,
        SkipLimited, SkipTried, Dispatch, SwitchPool, replyVars
  <2>2. PICK label \in Pcs \ {"replied", "done"} : Goto(r, label) \/ UNCHANGED pc
    BY <1>1
    DEF Arrive, SpendPool, Spin, Scan, Least, Wake, SkipLimited, SkipTried,
        Dispatch, SwitchPool, Pcs
  <2> QED BY <2>1, <2>2, QuietStep DEF AnswerInv
<1>2. ASSUME NEW r \in Requests,
             RecordFailure(r) \/ RotateKeyFault(r) \/ AbortPayloadFault(r)
               \/ AbortLimitedAlone(r) \/ RotateFailure(r)
      PROVE  AnswerInv'
  <2>1. pc[r] # "done" /\ answers[r] = <<>> /\ UNCHANGED <<answers, reply>>
    BY <1>2
    DEF AnswerInv, RecordFailure, RotateKeyFault, AbortPayloadFault,
        AbortLimitedAlone, RotateFailure, Failed, replyVars, StreamPcs
  <2>2. Goto(r, "failed") \/ Goto(r, "loop") \/ Goto(r, "switch")
    BY <1>2
    DEF RecordFailure, RotateKeyFault, AbortPayloadFault, AbortLimitedAlone,
        RotateFailure
  <2> QED BY <2>1, <2>2, QuietStep
<1>3. ASSUME NEW r \in Requests, AbortLoop(r) \/ AbortReplied(r) PROVE AnswerInv'
  BY <1>3, CancellingStep DEF AbortLoop, AbortReplied
<1>4. ASSUME NEW r \in Requests, Forward(r) PROVE AnswerInv'
  <2>1. PICK rep \in Replies :
          /\ reply' = [reply EXCEPT ![r] = rep]
          /\ answers' = [answers EXCEPT
                ![r] = IF Ok(rep.status) THEN Append(@, rep.status) ELSE @]
    BY <1>4 DEF Forward
  <2>2. answers[r] = <<>> /\ rep.status \in Nat
    BY SMTT(30), <1>4, RetryAssumption DEF Forward, AnswerInv, StreamPcs
  <2>3. Len(Append(answers[r], rep.status)) = 1 /\ Append(answers[r], rep.status) # <<>>
    BY <2>2
  <2> QED BY <1>4, <2>1, <2>2, <2>3 DEF Forward, Goto, AnswerInv, Typed, DataOK, ReplyOK
<1>5. ASSUME NEW r \in Requests, Succeed(r) PROVE AnswerInv'
  BY <1>5 DEF Succeed, Goto, AnswerInv, Typed, replyVars
<1>6. ASSUME NEW r \in Requests, GiveUp(r) PROVE AnswerInv'
  <2>1. answers[r] = <<>>
    BY <1>6 DEF GiveUp, AnswerInv, StreamPcs
  <2>2. ErrorStatus(last[r]) \in Nat
    BY DEF ErrorStatus, Typed, DataOK, ReplyOK
  <2> QED BY <1>6, <2>1, <2>2, AnsweringStep DEF GiveUp
<1>7. ASSUME NEW r \in Requests, Cancel(r) PROVE AnswerInv'
  BY <1>7 DEF Cancel, AnswerInv, replyVars
<1>8. ASSUME NEW c \in Creds, PeerEvent(c) PROVE AnswerInv'
  BY <1>8 DEF PeerEvent, AnswerInv, replyVars
<1>9. CASE Tick
  BY <1>9 DEF Tick, AnswerInv, replyVars
<1>10. CASE UNCHANGED vars
  BY <1>10 DEF vars, AnswerInv, replyVars
<1> QED
  BY RetryAssumption, <1>1, <1>2, <1>3, <1>4, <1>5, <1>6, <1>7, <1>8, <1>9, <1>10
  DEF Next, Engine, Acquire, Settle

\* With it, no client is answered twice, or left unanswered.
LEMMA AnswerInvSuffices == Typed /\ AnswerInv => AnsweredOnce
<1> SUFFICES ASSUME Typed, AnswerInv, NEW r \in Requests
             PROVE  Len(answers[r]) <= 1 /\ (pc[r] = "done" => Len(answers[r]) = 1)
  BY DEF AnsweredOnce
<1>1. CASE answers[r] = <<>>
  <2>1. Len(answers[r]) = 0
    BY <1>1
  <2>2. pc[r] # "done"
    BY <1>1 DEF AnswerInv
  <2> QED BY <2>1, <2>2
<1>2. CASE answers[r] # <<>>
  <2>1. Len(answers[r]) = 1
    BY <1>2 DEF AnswerInv
  <2> QED BY <2>1
<1> QED BY <1>1, <1>2

(* However its request rotates, switches and is cancelled, a client gets   *)
(* at most one answer, and has got it when the engine is done.             *)
THEOREM OneAnswer == Spec => []AnsweredOnce
BY AnswerInvSuffices, InitAnswerInv, NextAnswerInv, TypedAlways, PTL DEF Spec

-----------------------------------------------------------------------------
(* A step that moves one request through the engine moves no other.        *)
LEMMA OneMoves ==
    ASSUME Typed, NEW q \in Requests, NEW label, Goto(q, label),
           NEW r \in Requests, pc'[r] # pc[r]
    PROVE  r = q
BY DEF Typed, Goto

\* Setting one slot's cooldown lengthens no other credential's.
LEMMA SetSlotIsolated ==
    ASSUME NEW p \in Pools, NEW i \in Nat, NEW t, NEW c \in Creds,
           NEW cl \in [Creds -> 0..MaxCool],
           SetSlot(p, i, t, cl)[c] # cl[c]
    PROVE  c = At(p, i) /\ SetSlot(p, i, t, cl)[c] = t
BY SlotHoldsCredential DEF SetSlot

(* The one reason for a cooldown to grow as a request moves: a Redis limit *)
(* of the credential it acquired while its client waits, or a failure on   *)
(* record.                                                                 *)
LEMMA CoolingStep ==
    ASSUME Typed, [Next]_vars, NEW r \in Requests, NEW c \in Creds,
           pc'[r] # pc[r], cool'[c] > cool[c]
    PROVE  c = Picked(r) /\ (~cancelled[r] \/ pc[r] = "failed")
<1> DEFINE Quiet(q) ==
        \/ Arrive(q) \/ Cancel(q) \/ SpendPool(q) \/ AbortLoop(q) \/ Spin(q)
        \/ Scan(q) \/ Least(q) \/ Wake(q) \/ SkipTried(q) \/ Dispatch(q)
        \/ Forward(q) \/ AbortReplied(q) \/ RecordFailure(q) \/ AbortPayloadFault(q)
        \/ SwitchPool(q) \/ GiveUp(q)
<1>1. cool'[c] \in Int /\ cool[c] \in Nat /\ cool[c] # cool'[c]
  <2>1. cool[c] \in Nat
    BY DEF Typed, DataOK, PoolsOK
  <2>2. cool'[c] \in Int
    BY NextTyped DEF Typed, DataOK, PoolsOK
  <2> QED BY <2>1, <2>2
<1>2. ASSUME NEW q \in Requests, Quiet(q) PROVE UNCHANGED cool
  BY <1>2
  DEF Arrive, Cancel, SpendPool, AbortLoop, Spin, Scan, Least, Wake, SkipTried,
      Dispatch, Forward, AbortReplied, RecordFailure, AbortPayloadFault, SwitchPool,
      GiveUp, poolVars
<1>3. ASSUME NEW q \in Requests, SkipLimited(q) PROVE c = Picked(r) /\ ~cancelled[r]
  <2>1. r = q
    BY <1>3, OneMoves DEF SkipLimited
  <2> QED
    BY <1>1, <1>3, <2>1, SetSlotIsolated, PickedIsCredential
    DEF SkipLimited, Picked, Typed, DataOK, PoolsOK
<1>4. ASSUME NEW q \in Requests, Succeed(q) PROVE FALSE
  BY SMTT(30), <1>1, <1>4, SetSlotIsolated, PickedIsCredential
  DEF Succeed, Typed, DataOK, PoolsOK, LoopOK
<1>5. ASSUME NEW q \in Requests,
             RotateKeyFault(q) \/ AbortLimitedAlone(q) \/ RotateFailure(q)
      PROVE  c = Picked(r) /\ pc[r] = "failed"
  <2>1. r = q
    BY <1>5, OneMoves DEF RotateKeyFault, AbortLimitedAlone, RotateFailure
  <2>2. pc[q] = "failed"
    BY <1>5 DEF RotateKeyFault, AbortLimitedAlone, RotateFailure, Failed
  <2>3. PICK t : cool' = SetSlot(pick[q].pool, pick[q].idx, t, cool)
    BY <1>5 DEF RotateKeyFault, AbortLimitedAlone, RotateFailure, Penalize
  <2> QED
    BY <1>1, <2>1, <2>2, <2>3, SetSlotIsolated, PickedIsCredential
    DEF Picked, Typed, DataOK, PoolsOK
<1>6. ASSUME NEW d \in Creds, PeerEvent(d) PROVE FALSE
  BY <1>6 DEF PeerEvent
<1>7. CASE Tick
  BY <1>7 DEF Tick
<1>8. CASE UNCHANGED vars
  BY <1>8 DEF vars
<1> QED
  BY RetryAssumption, <1>1, <1>2, <1>3, <1>4, <1>5, <1>6, <1>7, <1>8
  DEF Next, Engine, Acquire, Settle

(* A failed attempt cools down its own credential and no other.            *)
THEOREM PenaltyIsIsolated == Spec => PenaltyIsolated
<1>1. Typed /\ [Next]_vars =>
        [\A r \in Requests, c \in Creds :
            pc'[r] # pc[r] /\ cool'[c] > cool[c] => c = Picked(r)]_vars
  BY CoolingStep
<1> QED BY <1>1, TypedAlways, PTL DEF Spec, PenaltyIsolated

\* A failure goes on record while the client waits.
LEMMA RecordedStep ==
    ASSUME Typed, [Next]_vars, NEW r \in Requests,
           pc'[r] # pc[r], pc'[r] = "failed"
    PROVE  ~cancelled[r]
<1>1. ASSUME NEW q \in Requests, Arrive(q) \/ Cancel(q) \/ Engine(q)
      PROVE  RecordFailure(r)
  BY SMTT(30), <1>1
  DEF Engine, Acquire, Settle, Arrive, Cancel, SpendPool, AbortLoop, Spin, Scan,
      Least, Wake, SkipLimited, SkipTried, Dispatch, Forward, AbortReplied,
      Succeed, RotateKeyFault, AbortPayloadFault, AbortLimitedAlone,
      RotateFailure, SwitchPool, GiveUp, RecordFailure, Goto, Finish,
      FinishCancelled, Typed
<1>2. (\E c \in Shared : PeerEvent(c)) \/ Tick \/ UNCHANGED vars => UNCHANGED pc
  BY DEF PeerEvent, Tick, vars
<1>3. RecordFailure(r)
  BY <1>1, <1>2 DEF Next
<1> QED BY <1>3 DEF RecordFailure

(* A client that has gone away costs the pool no more than the key whose   *)
(* failure was on record.                                                  *)
THEOREM CancellationIsFree == Spec => CancelledPenalizesNoKey
<1>1. Typed /\ [Next]_vars =>
        [\A r \in Requests :
            pc'[r] # pc[r] /\ cancelled[r] =>
              /\ pc'[r] # "failed"
              /\ pc[r] # "failed" => \A c \in Creds : cool'[c] <= cool[c]]_vars
  <2> SUFFICES ASSUME Typed, [Next]_vars, NEW r \in Requests,
                      pc'[r] # pc[r], cancelled[r]
               PROVE  /\ pc'[r] # "failed"
                      /\ pc[r] # "failed" => \A c \in Creds : cool'[c] <= cool[c]
    OBVIOUS
  <2>1. pc'[r] # "failed"
    BY RecordedStep
  <2>2. ASSUME NEW c \in Creds, pc[r] # "failed" PROVE cool'[c] <= cool[c]
    <3>1. cool[c] \in Int
      BY DEF Typed, DataOK, PoolsOK
    <3>2. cool'[c] \in Int
      BY NextTyped DEF Typed, DataOK, PoolsOK
    <3>3. ~(cool'[c] > cool[c])
      BY <2>2, CoolingStep
    <3> QED BY <3>1, <3>2, <3>3
  <2> QED BY <2>1, <2>2
<1> QED BY <1>1, TypedAlways, PTL DEF Spec, CancelledPenalizesNoKey

-----------------------------------------------------------------------------
(* Where a credential can come from: while the request scans, it is at a   *)
(* pool its own leads to, and what it has picked is of one.                *)
LinkedOf(r) ==
    /\ pc[r] \in {"scan", "rescan"} => at[r] \in Chain(pool[r])
    /\ pc[r] \in {"asleep", "picked", "flight"} => pick[r].pool \in Chain(pool[r])

Linked == \A r \in Requests : LinkedOf(r)

\* A pool's chain begins with it and goes on as the fallbacks do.
LEMMA ChainBegins == ASSUME NEW p \in Pools PROVE p \in Chain(p)
BY DEF Chain

LEMMA ChainGoesOn ==
    ASSUME NEW p \in Pools, NEW q \in Chain(p), Fallback[q] # NoPool
    PROVE  Fallback[q] \in Chain(p)
<1>1. q \in Pools
  BY DEF Chain
<1>2. Fallback[q] \in Pools
  BY <1>1, PoolAssumption
<1>3. ASSUME NEW S \in SUBSET Pools, p \in S,
             \A s \in S : Fallback[s] # NoPool => Fallback[s] \in S
      PROVE  Fallback[q] \in S
  BY <1>3 DEF Chain
<1> QED BY <1>2, <1>3 DEF Chain

\* The engine's own steps acquire from the chain of the request's pool.
LEMMA NextLinked ==
    ASSUME Typed, Linked, [Next]_vars
    PROVE  Linked'
<1> SUFFICES ASSUME NEW r \in Requests PROVE LinkedOf(r)'
  BY DEF Linked
<1>s. LinkedOf(r)
  BY DEF Linked
<1>t. pool[r] \in Pools
  BY DEF Typed, DataOK, LoopOK
<1>1. ASSUME NEW q \in Requests, q # r, Arrive(q) \/ Cancel(q) \/ Engine(q)
      PROVE  UNCHANGED <<pc[r], at[r], pool[r], pick[r]>>
  BY <1>1
  DEF Engine, Acquire, Settle, Arrive, Cancel, SpendPool, AbortLoop, Spin, Scan,
      Least, Wake, SkipLimited, SkipTried, Dispatch, Forward, AbortReplied,
      Succeed, RotateKeyFault, AbortPayloadFault, AbortLimitedAlone,
      RotateFailure, SwitchPool, GiveUp, RecordFailure, Failed, Goto, Finish,
      FinishCancelled, loopVars, Typed, DataOK, PickOK, LoopOK
<1>2. ASSUME UNCHANGED <<pc[r], at[r], pool[r], pick[r]>> PROVE LinkedOf(r)'
  BY <1>s, <1>2 DEF LinkedOf
<1>3. ASSUME pc'[r] \notin {"scan", "rescan", "asleep", "picked", "flight"}
      PROVE  LinkedOf(r)'
  BY <1>3 DEF LinkedOf
<1>4. CASE Spin(r)
  <2>1. pc'[r] \in {"scan", "switch"} /\ at'[r] = pool[r] /\ pool' = pool
    BY <1>4 DEF Spin, Goto, Typed, DataOK, LoopOK
  <2>2. at'[r] \in Chain(pool[r])
    BY <1>t, <2>1, ChainBegins
  <2> QED BY <2>1, <2>2 DEF LinkedOf
<1>5. CASE Scan(r)
  <2>1. pc[r] = "scan" /\ at[r] \in Chain(pool[r]) /\ pool' = pool
    BY <1>s, <1>5 DEF Scan, LinkedOf
  <2>2. CASE Goto(r, "picked") /\ \E i : pick' = [pick EXCEPT ![r] = [pool |-> at[r], idx |-> i]]
    <3>1. pick'[r].pool = at[r] /\ pc'[r] = "picked"
      BY <2>2 DEF Goto, Typed, DataOK, PickOK
    <3> QED BY <2>1, <3>1 DEF LinkedOf
  <2>3. CASE Fallback[at[r]] # NoPool /\ at' = [at EXCEPT ![r] = Fallback[at[r]]] /\ UNCHANGED pc
    <3>1. at'[r] = Fallback[at[r]]
      BY <2>3 DEF Typed, DataOK, LoopOK
    <3>2. at'[r] \in Chain(pool[r])
      BY <1>t, <2>1, <2>3, <3>1, ChainGoesOn
    <3> QED BY <2>1, <2>3, <3>2 DEF LinkedOf
  <2>4. CASE Goto(r, "least")
    BY <2>4, <1>3 DEF Goto, Typed
  <2> QED BY <1>5, <2>2, <2>3, <2>4 DEF Scan
<1>6. CASE Least(r)
  <2>1. PICK i : pick' = [pick EXCEPT ![r] = [pool |-> pool[r], idx |-> i]]
    BY <1>6 DEF Least
  <2>2. pick'[r].pool = pool[r] /\ pool' = pool /\ pc'[r] \in {"asleep", "picked"}
    BY <1>6, <2>1 DEF Least, Goto, Typed, DataOK, PickOK
  <2>3. pick'[r].pool \in Chain(pool[r])
    BY <1>t, <2>2, ChainBegins
  <2> QED BY <2>2, <2>3 DEF LinkedOf
<1>7. CASE Wake(r) \/ Dispatch(r)
  <2>1. pick' = pick /\ pool' = pool /\ pc[r] \in {"asleep", "picked"}
        /\ pc'[r] \in {"picked", "flight"}
    BY <1>7 DEF Wake, Dispatch, Goto, loopVars, Typed
  <2> QED BY <1>s, <2>1 DEF LinkedOf
<1>8. CASE \/ Arrive(r) \/ SpendPool(r) \/ AbortLoop(r) \/ SkipLimited(r)
           \/ SkipTried(r) \/ Forward(r) \/ Settle(r)
  <2>1. pc'[r] \in {"loop", "switch", "done", "replied", "failed"}
    BY <1>8
    DEF Settle, Arrive, SpendPool, AbortLoop, SkipLimited, SkipTried, Forward,
        AbortReplied, Succeed, RecordFailure, RotateKeyFault, AbortPayloadFault,
        AbortLimitedAlone, RotateFailure, SwitchPool, GiveUp, Goto, Finish,
        FinishCancelled, Typed
  <2> QED BY <2>1, <1>3
<1>9. CASE Cancel(r)
  BY <1>2, <1>9 DEF Cancel, loopVars
<1>10. (\E c \in Shared : PeerEvent(c)) \/ Tick \/ UNCHANGED vars
        => UNCHANGED <<pc, at, pool, pick>>
  BY DEF PeerEvent, Tick, vars, loopVars
<1> QED
  BY <1>1, <1>2, <1>4, <1>5, <1>6, <1>7, <1>8, <1>9, <1>10
  DEF Next, Engine, Acquire

(* The pool a request works through hosts the model it asked for, or the   *)
(* one its route stands for.                                               *)
ModelInv == \A r \in Requests : Core[pool[r]] \in AskedFor(r)

\* A route leads to the model asked for, or one it stands for.
LEMMA InitModelInv == Init => ModelInv /\ Linked
<1> SUFFICES ASSUME Init, NEW r \in Requests
             PROVE  Core[pool[r]] \in AskedFor(r) /\ LinkedOf(r)
  BY DEF ModelInv, Linked
<1>1. PICK route \in [Requests -> Routes] :
        /\ want = [q \in Requests |-> route[q][1]]
        /\ pool = [q \in Requests |-> route[q][2]]
  BY DEF Init
<1>2. <<want[r], pool[r]>> \in Routes /\ pool[r] \in Pools
  <2>1. route[r] = <<route[r][1], route[r][2]>> /\ route[r][2] \in Pools
    BY RetryAssumption
  <2> QED BY <1>1, <2>1
<1>3. LinkedOf(r)
  BY DEF Init, LinkedOf
<1> QED BY <1>2, <1>3 DEF AskedFor

\* The search after the loop finds pools of the model.
LEMMA NextModelInv ==
    ASSUME Typed, ModelInv, [Next]_vars
    PROVE  ModelInv'
<1>1. ASSUME NEW r \in Requests PROVE AskedFor(r)' = AskedFor(r)
  <2>1. want' = want
    BY SMTT(30)
    DEF Next, Engine, Acquire, Settle, Arrive, Cancel, SpendPool, AbortLoop, Spin,
        Scan, Least, Wake, SkipLimited, SkipTried, Dispatch, Forward, AbortReplied,
        Succeed, RotateKeyFault, AbortPayloadFault, AbortLimitedAlone,
        RotateFailure, SwitchPool, GiveUp, RecordFailure, Failed, PeerEvent, Tick,
        loopVars, vars
  <2> QED BY <2>1 DEF AskedFor
<1>2. CASE UNCHANGED pool
  BY <1>1, <1>2 DEF ModelInv
<1>3. ASSUME NEW r \in Requests, SwitchPool(r) PROVE ModelInv'
  <2>1. PICK p \in Fallbacks(r) : pool' = [pool EXCEPT ![r] = p]
    BY <1>3 DEF SwitchPool
  <2>2. Core[pool[r]] \in AskedFor(r)
    BY DEF ModelInv
  <2>3. p \in Pools /\ (Core[p] = want[r] \/ Core[p] = Core[pool[r]])
    BY DEF Fallbacks, ExactFallbacks
  <2>4. Core[p] \in AskedFor(r)
    BY <2>2, <2>3 DEF AskedFor
  <2> QED BY <1>1, <2>1, <2>4 DEF ModelInv, Typed, DataOK, LoopOK
<1>4. UNCHANGED pool \/ \E r \in Requests : SwitchPool(r)
  BY SMTT(30)
  DEF Next, Engine, Acquire, Settle, Arrive, Cancel, SpendPool, AbortLoop, Spin,
      Scan, Least, Wake, SkipLimited, SkipTried, Dispatch, Forward, AbortReplied,
      Succeed, RotateKeyFault, AbortPayloadFault, AbortLimitedAlone,
      RotateFailure, GiveUp, RecordFailure, Failed, PeerEvent, Tick, loopVars, vars
<1> QED BY <1>2, <1>3, <1>4

(* However many pools were tried, a request works through one of its own   *)
(* model, and leaves the model only down that pool's configured fallbacks. *)
THEOREM ModelIsKept == Spec => []ModelOrItsFallback
<1>1. ModelInv /\ Linked => ModelOrItsFallback
  BY DEF ModelInv, Linked, LinkedOf, ModelOrItsFallback
<1>2. Typed /\ ModelInv /\ [Next]_vars => ModelInv'
  BY NextModelInv
<1>3. Typed /\ Linked /\ [Next]_vars => Linked'
  BY NextLinked
<1> QED BY <1>1, <1>2, <1>3, InitModelInv, TypedAlways, PTL DEF Spec

-----------------------------------------------------------------------------
(* SpendBounded needs that a request holds a slot to try only while it is  *)
(* below the cap of its pool, and that a pool it switches to is a new one. *)
Trying == {"scan", "least", "asleep", "picked"}

\* The slots a request may have spent in the pools it went through.
Allowed(r) == AttemptCap * (Cardinality(triedPools[r]) - 1) + TriedCount(r)

TriedInv(r) ==
    /\ IsFiniteSet(tried[r])
    /\ IsFiniteSet(triedPools[r])
    /\ Cardinality(triedPools[r]) >= 1
    /\ TriedCount(r) <= AttemptCap
    /\ pc[r] \in Trying => TriedCount(r) < MaxAttempts(pool[r])

(* Each slot pays for fee upstream calls, of which a request in flight has *)
(* made one; what a stream has made is left to GeminiFailover.             *)
SpendInvOf(r, fee) ==
    /\ TriedInv(r)
    /\ pc[r] = "flight" => sends[r] + fee - 1 <= fee * Allowed(r)
    /\ pc[r] \notin StreamPcs => sends[r] <= fee * Allowed(r)

SpendInv(fee) == \A r \in Requests : SpendInvOf(r, fee)

\* The cap on a pool's attempts is a number within the cap.
LEMMA CapBound ==
    ASSUME NEW p \in Pools
    PROVE  MaxAttempts(p) \in Nat /\ MaxAttempts(p) <= AttemptCap
BY RingSize, RetryAssumption DEF MaxAttempts

\* A slot more allows for a fee more, and more slots for no fewer.
LEMMA FeeStep ==
    ASSUME NEW fee \in Nat, NEW n \in Int
    PROVE  fee * n \in Int /\ fee * (n + 1) = fee * n + fee
OBVIOUS

LEMMA FeeMonotone ==
    ASSUME NEW fee \in Nat, NEW m \in Int, NEW n \in Int, m <= n
    PROVE  fee * m <= fee * n
OBVIOUS

\* What is counted is a number.
LEMMA CountsTyped ==
    ASSUME Typed, NEW r \in Requests, TriedInv(r)
    PROVE  /\ pool[r] \in Pools /\ TriedCount(r) \in Nat /\ sends[r] \in Nat
           /\ Cardinality(triedPools[r]) \in Nat /\ AttemptCap \in Nat
           /\ Allowed(r) \in Nat
<1>1. IsFiniteSet(tried[r]) /\ IsFiniteSet(triedPools[r])
      /\ Cardinality(triedPools[r]) >= 1
  BY DEF TriedInv
<1>2. /\ pool[r] \in Pools /\ TriedCount(r) \in Nat /\ sends[r] \in Nat
      /\ Cardinality(triedPools[r]) \in Nat /\ AttemptCap \in Nat
  BY <1>1, FS_CardinalityType, RetryAssumption
  DEF Typed, DataOK, LoopOK, ReplyOK, TriedCount
<1>3. Cardinality(triedPools[r]) - 1 \in Nat
  BY <1>1, <1>2
<1>4. AttemptCap * (Cardinality(triedPools[r]) - 1) \in Nat
  BY <1>2, <1>3
<1> QED BY <1>2, <1>4 DEF Allowed

\* Nothing is spent at first, and the first pool is tried.
LEMMA InitSpendInv == ASSUME NEW fee \in Nat PROVE Init => SpendInv(fee)
<1> SUFFICES ASSUME Init, NEW r \in Requests PROVE SpendInvOf(r, fee)
  BY DEF SpendInv
<1>1. IsFiniteSet(tried[r]) /\ TriedCount(r) = 0
  BY FS_EmptySet DEF Init, TriedCount
<1>2. IsFiniteSet(triedPools[r]) /\ Cardinality(triedPools[r]) = 1
  <2>1. PICK p : triedPools[r] = {p}
    BY DEF Init
  <2> QED BY <2>1, FS_Singleton
<1>3. sends[r] = 0 /\ pc[r] = "new"
  BY DEF Init
<1>4. Allowed(r) = 0
  BY <1>1, <1>2, RetryAssumption DEF Allowed
<1> QED BY <1>1, <1>2, <1>3, <1>4, RetryAssumption DEF SpendInvOf, TriedInv, Trying

\* What a request that spends nothing keeps, whoever moves.
LEMMA OthersSpend ==
    ASSUME NEW fee, NEW r \in Requests, SpendInvOf(r, fee),
           UNCHANGED <<tried[r], triedPools[r], sends[r], pool[r]>>,
           \/ pc'[r] = pc[r]
           \/ pc'[r] \notin Trying \cup {"flight"} /\ pc[r] \notin StreamPcs
    PROVE  SpendInvOf(r, fee)'
BY DEF SpendInvOf, TriedInv, TriedCount, Allowed

\* Paying for another slot.
LEMMA DispatchSpend ==
    ASSUME NEW fee \in Nat \ {0}, Typed, NEW r \in Requests,
           SpendInvOf(r, fee), Dispatch(r)
    PROVE  SpendInvOf(r, fee)'
<1>t. /\ pool[r] \in Pools /\ TriedCount(r) \in Nat /\ sends[r] \in Nat
      /\ Cardinality(triedPools[r]) \in Nat /\ AttemptCap \in Nat /\ Allowed(r) \in Nat
  BY CountsTyped DEF SpendInvOf
<1>1. /\ tried'[r] = tried[r] \cup {pick[r].idx}
      /\ pick[r].idx \notin tried[r]
      /\ sends'[r] = sends[r] + 1
      /\ UNCHANGED <<triedPools, pool>>
      /\ pc[r] = "picked" /\ pc'[r] = "flight"
  BY DEF Dispatch, Goto, Typed, DataOK, LoopOK, ReplyOK
<1>2. IsFiniteSet(tried'[r]) /\ TriedCount(r)' = TriedCount(r) + 1
  <2>1. IsFiniteSet(tried[r])
    BY DEF SpendInvOf, TriedInv
  <2>2. /\ IsFiniteSet(tried[r] \cup {pick[r].idx})
        /\ Cardinality(tried[r] \cup {pick[r].idx}) = Cardinality(tried[r]) + 1
    BY <1>1, <2>1, FS_AddElement
  <2> QED BY <1>1, <2>2 DEF TriedCount
<1>3. TriedCount(r) + 1 <= AttemptCap
  <2>1. TriedCount(r) < MaxAttempts(pool[r])
    BY <1>1 DEF SpendInvOf, TriedInv, Trying
  <2> QED BY <1>t, <2>1, CapBound
<1>4. TriedInv(r)'
  BY <1>1, <1>2, <1>3 DEF SpendInvOf, TriedInv, Trying
<1>5. Allowed(r)' = Allowed(r) + 1
  <2>1. AttemptCap * (Cardinality(triedPools[r]) - 1) \in Int
    BY <1>t
  <2> QED BY <1>t, <1>1, <1>2, <2>1 DEF Allowed
<1>6. sends[r] <= fee * Allowed(r)
  BY <1>1 DEF SpendInvOf, StreamPcs
<1>7. fee * Allowed(r) \in Int /\ fee * (Allowed(r) + 1) = fee * Allowed(r) + fee
  BY <1>t, FeeStep
<1>8. sends'[r] + fee - 1 <= fee * Allowed(r)'
  BY <1>t, <1>1, <1>5, <1>6, <1>7
<1>9. sends'[r] <= fee * Allowed(r)'
  BY <1>t, <1>1, <1>5, <1>6, <1>7
<1> QED BY <1>4, <1>8, <1>9 DEF SpendInvOf

\* Going to a pool that was not tried: its slots are allowed for anew.
LEMMA SwitchSpend ==
    ASSUME NEW fee \in Nat \ {0}, Typed, NEW r \in Requests,
           SpendInvOf(r, fee), SwitchPool(r)
    PROVE  SpendInvOf(r, fee)'
<1>t. /\ pool[r] \in Pools /\ TriedCount(r) \in Nat /\ sends[r] \in Nat
      /\ Cardinality(triedPools[r]) \in Nat /\ AttemptCap \in Nat /\ Allowed(r) \in Nat
  BY CountsTyped DEF SpendInvOf
<1>1. PICK p \in Fallbacks(r) : triedPools'[r] = triedPools[r] \cup {p}
  BY DEF SwitchPool, Typed, DataOK, LoopOK
<1>2. p \notin triedPools[r]
  BY DEF Fallbacks, ExactFallbacks
<1>3. IsFiniteSet(triedPools'[r])
      /\ Cardinality(triedPools'[r]) = Cardinality(triedPools[r]) + 1
  BY <1>1, <1>2, FS_AddElement DEF SpendInvOf, TriedInv
<1>4. tried'[r] = {} /\ sends'[r] = sends[r] /\ pc[r] = "switch" /\ pc'[r] = "loop"
  BY DEF SwitchPool, Goto, replyVars, Typed, DataOK, LoopOK
<1>5. IsFiniteSet(tried'[r]) /\ TriedCount(r)' = 0
  BY <1>4, FS_EmptySet DEF TriedCount
<1>6. TriedInv(r)'
  BY <1>t, <1>3, <1>4, <1>5 DEF SpendInvOf, TriedInv, Trying
<1>7. Allowed(r) <= Allowed(r)' /\ Allowed(r)' \in Int
  <2>1. TriedCount(r) <= AttemptCap
    BY DEF SpendInvOf, TriedInv
  <2>2. AttemptCap * (Cardinality(triedPools[r]) - 1) + AttemptCap
          = AttemptCap * Cardinality(triedPools[r])
    BY <1>t
  <2>3. Allowed(r)' = AttemptCap * Cardinality(triedPools[r])
    BY <1>t, <1>3, <1>5 DEF Allowed
  <2>4. AttemptCap * (Cardinality(triedPools[r]) - 1) \in Int
    BY <1>t
  <2> QED BY <1>t, <2>1, <2>2, <2>3, <2>4 DEF Allowed
<1>8. sends[r] <= fee * Allowed(r)
  BY <1>4 DEF SpendInvOf, StreamPcs
<1>9. fee * Allowed(r) <= fee * Allowed(r)' /\ fee * Allowed(r) \in Int
      /\ fee * Allowed(r)' \in Int
  BY <1>t, <1>7, FeeMonotone, FeeStep
<1>10. sends'[r] <= fee * Allowed(r)'
  BY <1>t, <1>4, <1>8, <1>9
<1> QED BY <1>4, <1>6, <1>10 DEF SpendInvOf

\* No step spends more than the pools and slots tried account for.
LEMMA NextSpendInv ==
    ASSUME NEW fee \in Nat \ {0}, Typed, SpendInv(fee), [Next]_vars
    PROVE  SpendInv(fee)'
<1> SUFFICES ASSUME NEW r \in Requests PROVE SpendInvOf(r, fee)'
  BY DEF SpendInv
<1>s. SpendInvOf(r, fee)
  BY DEF SpendInv
<1>1. ASSUME NEW q \in Requests, q # r,
             Arrive(q) \/ Cancel(q) \/ Engine(q)
      PROVE  SpendInvOf(r, fee)'
  <2>1. UNCHANGED <<tried[r], triedPools[r], sends[r], pool[r], pc[r]>>
    BY SMTT(30), <1>1
    DEF Engine, Acquire, Settle, Arrive, Cancel, SpendPool, AbortLoop, Spin, Scan,
        Least, Wake, SkipLimited, SkipTried, Dispatch, Forward, AbortReplied,
        Succeed, RotateKeyFault, AbortPayloadFault, AbortLimitedAlone,
        RotateFailure, SwitchPool, GiveUp, RecordFailure, Failed, Goto, Finish,
        FinishCancelled,
        loopVars, replyVars, Typed, DataOK, LoopOK, ReplyOK
  <2> QED BY <1>s, <2>1, OthersSpend
<1>2. ASSUME \/ Arrive(r) \/ Cancel(r) \/ SpendPool(r) \/ AbortLoop(r)
             \/ SkipLimited(r) \/ SkipTried(r) \/ Forward(r)
             \/ AbortReplied(r) \/ Succeed(r) \/ RecordFailure(r) \/ RotateKeyFault(r)
             \/ AbortPayloadFault(r) \/ AbortLimitedAlone(r) \/ RotateFailure(r)
             \/ GiveUp(r)
      PROVE  SpendInvOf(r, fee)'
  <2>1. UNCHANGED <<tried, triedPools, sends, pool>>
    BY <1>2
    DEF Arrive, Cancel, SpendPool, AbortLoop, SkipLimited, SkipTried, Forward,
        AbortReplied, Succeed, RotateKeyFault, AbortPayloadFault,
        AbortLimitedAlone, RotateFailure, GiveUp, RecordFailure, Failed, loopVars,
        replyVars
  <2>2. \/ pc' = pc
        \/ pc'[r] \notin Trying \cup {"flight"} /\ pc[r] \notin StreamPcs
    BY <1>2
    DEF Arrive, Cancel, SpendPool, AbortLoop, SkipLimited, SkipTried, Forward,
        AbortReplied, Succeed, RotateKeyFault, AbortPayloadFault,
        AbortLimitedAlone, RotateFailure, GiveUp, Goto, Finish, FinishCancelled,
        RecordFailure, Failed, Trying, Typed, StreamPcs
  <2> QED BY <1>s, <2>1, <2>2, OthersSpend
<1>3. ASSUME Spin(r) \/ Scan(r) \/ Least(r) \/ Wake(r) PROVE SpendInvOf(r, fee)'
  <2>1. UNCHANGED <<tried, triedPools, sends, pool>>
    BY <1>3 DEF Spin, Scan, Least, Wake, loopVars, replyVars
  <2>2. TriedCount(r) < MaxAttempts(pool[r]) /\ pc[r] \notin StreamPcs
    BY <1>s, <1>3
    DEF Spin, Scan, Least, Wake, Trying, SpendInvOf, TriedInv, StreamPcs
  <2>3. pc'[r] # "flight"
    BY <1>3 DEF Spin, Scan, Least, Wake, Goto, Typed
  <2> QED
    BY <1>s, <2>1, <2>2, <2>3 DEF SpendInvOf, TriedInv, TriedCount, Allowed
<1>4. ASSUME Dispatch(r) PROVE SpendInvOf(r, fee)'
  BY <1>s, <1>4, DispatchSpend
<1>5. ASSUME SwitchPool(r) PROVE SpendInvOf(r, fee)'
  BY <1>s, <1>5, SwitchSpend
<1>6. ASSUME NEW c \in Creds, PeerEvent(c) PROVE SpendInvOf(r, fee)'
  BY <1>s, <1>6, OthersSpend DEF PeerEvent, loopVars, replyVars
<1>7. CASE Tick
  BY <1>s, <1>7, OthersSpend DEF Tick, replyVars
<1>8. CASE UNCHANGED vars
  BY <1>s, <1>8, OthersSpend DEF vars, loopVars, replyVars
<1>9. ASSUME NEW q \in Requests, Arrive(q) \/ Cancel(q) \/ Engine(q)
      PROVE  SpendInvOf(r, fee)'
  BY <1>1, <1>2, <1>3, <1>4, <1>5, <1>9 DEF Engine, Acquire, Settle
<1> QED
  BY RetryAssumption, <1>6, <1>7, <1>8, <1>9 DEF Next

(* However often it rotates and switches, a request makes no more calls    *)
(* than the cap allows in each of the pools it went through.               *)
THEOREM SpendIsBounded == Spec => []SpendBounded
<1>1. TypeOK /\ SpendInv(1) => SpendBounded
  <2> SUFFICES ASSUME TypeOK, SpendInv(1), NEW r \in Requests
               PROVE  sends[r] <= Allowed(r)
    BY DEF SpendBounded, Allowed
  <2>1. pc[r] \notin StreamPcs /\ Typed
    BY DEF TypeOK, Typed, Pcs, AllPcs, StreamPcs
  <2>2. TriedInv(r) /\ sends[r] <= 1 * Allowed(r)
    BY <2>1 DEF SpendInv, SpendInvOf
  <2> QED BY <2>1, <2>2, CountsTyped
<1>2. Typed /\ SpendInv(1) /\ [Next]_vars => SpendInv(1)'
  BY NextSpendInv
<1>3. Init => SpendInv(1)
  BY InitSpendInv
<1> QED BY <1>1, <1>2, <1>3, TypedAlways, TypeCorrect, PTL DEF Spec

-----------------------------------------------------------------------------
(* PayloadFaultsBounded leaves out the 400s that tell of the account: they *)
(* rotate the key, and nothing but the attempts bounds them.  Under these  *)
(* replies a 400 is never taken for a key's fault.                         *)
PlainPayloadFaults ==
    \A rep \in Replies : rep.status = 400 => rep.body \in {"plain", "agreement"}

\* The failure on record is a 400 of provider v.
Suspect(r, v) == reply[r].status = 400 /\ v = Provider[Picked(r)]

(* A provider's second 400 sends the request to another pool, so a request *)
(* still in a pool's loop has one in hand for each pool it has left, but   *)
(* for a 400 on record that it is to be sent away for.                     *)
FaultInvOf(r) ==
    /\ pc[r] \in {"replied", "failed"} /\ reply[r].status = 400 =>
          reply[r].body \in {"plain", "agreement"}
    /\ \A v \in Providers :
         /\ bad[r][v] <= Cardinality(triedPools[r]) + 1
         /\ \/ bad[r][v] <= Cardinality(triedPools[r])
            \/ pc[r] \in {"switch", "done"}
            \/ pc[r] = "failed" /\ Suspect(r, v)

FaultInv == \A r \in Requests : FaultInvOf(r)

\* No provider has answered at first.
LEMMA InitFaultInv == Init => FaultInv
<1> SUFFICES ASSUME Init, NEW r \in Requests PROVE FaultInvOf(r)
  BY DEF FaultInv
<1>1. Cardinality(triedPools[r]) = 1
  <2>1. PICK p : triedPools[r] = {p}
    BY DEF Init
  <2> QED BY <2>1, FS_Singleton
<1>2. pc[r] = "new" /\ \A v \in Providers : bad[r][v] = 0
  BY DEF Init
<1> QED BY <1>1, <1>2 DEF FaultInvOf

\* What a step keeps that counts no 400 for the request.
LEMMA FaultQuiet ==
    ASSUME NEW r \in Requests, FaultInvOf(r),
           UNCHANGED <<triedPools[r], bad[r], reply[r]>>,
           pc'[r] \in {"replied", "failed"} => pc[r] = pc'[r],
           pc[r] = "failed" => pc'[r] = "failed" /\ UNCHANGED pick[r],
           pc[r] \in {"switch", "done"} => pc'[r] \in {"switch", "done"}
    PROVE  FaultInvOf(r)'
BY DEF FaultInvOf, Suspect, Picked

\* A 400 is counted once, for its provider.
LEMMA RecordedFaults ==
    ASSUME Typed, NEW r \in Requests, TriedInv(r), FaultInvOf(r), RecordFailure(r)
    PROVE  FaultInvOf(r)'
<1>t. Cardinality(triedPools[r]) \in Nat /\ pc[r] = "replied" /\ pc'[r] = "failed"
      /\ UNCHANGED <<triedPools, reply, pick>>
  BY CountsTyped DEF TriedInv, RecordFailure, Goto, loopVars, Typed
<1>b. ASSUME NEW v \in Providers
      PROVE  bad[r][v] \in Nat /\ bad'[r][v] = Bad(r, v)
             /\ bad[r][v] <= Cardinality(triedPools[r])
  <2>1. bad' = [bad EXCEPT ![r] = [w \in Providers |-> Bad(r, w)]]
    BY DEF RecordFailure
  <2>2. bad \in [Requests -> [Providers -> Nat]]
    BY DEF Typed, DataOK, ReplyOK
  <2> QED BY <1>t, <2>1, <2>2 DEF FaultInvOf
<1>1. ASSUME NEW v \in Providers
      PROVE  /\ bad'[r][v] <= Cardinality(triedPools'[r]) + 1
             /\ bad'[r][v] <= Cardinality(triedPools'[r]) \/ Suspect(r, v)'
  <2>1. CASE Suspect(r, v)
    <3>1. Suspect(r, v)'
      BY <1>t, <2>1 DEF Suspect, Picked
    <3>2. bad'[r][v] = bad[r][v] + 1
      BY <1>b, <2>1 DEF Bad, Suspect
    <3> QED BY <1>t, <1>b, <3>1, <3>2
  <2>2. CASE ~Suspect(r, v)
    <3>1. bad'[r][v] = bad[r][v]
      BY <1>b, <2>2 DEF Bad, Suspect
    <3> QED BY <1>t, <1>b, <3>1
  <2> QED BY <2>1, <2>2
<1>2. reply'[r].status = 400 => reply'[r].body \in {"plain", "agreement"}
  BY <1>t DEF FaultInvOf
<1> QED BY <1>t, <1>1, <1>2 DEF FaultInvOf

\* The provider's second 400 in a pool sends the request away.
LEMMA FailureFaults ==
    ASSUME Typed, NEW r \in Requests, TriedInv(r), FaultInvOf(r),
           \/ RotateKeyFault(r) \/ AbortPayloadFault(r) \/ AbortLimitedAlone(r)
           \/ RotateFailure(r)
    PROVE  FaultInvOf(r)'
<1>t. Cardinality(triedPools[r]) \in Nat /\ Cardinality(triedPools[r]) >= 1
      /\ UNCHANGED <<triedPools, reply, bad>> /\ pc[r] = "failed"
  BY CountsTyped
  DEF RotateKeyFault, AbortPayloadFault, AbortLimitedAlone, RotateFailure, TriedInv,
      Failed, loopVars, replyVars
<1>p. pc'[r] \in {"loop", "switch"}
  BY DEF RotateKeyFault, AbortPayloadFault, AbortLimitedAlone, RotateFailure, Goto, Typed
<1>b. ASSUME NEW v \in Providers
      PROVE  /\ bad[r][v] \in Nat
             /\ bad[r][v] <= Cardinality(triedPools[r]) + 1
             /\ bad[r][v] <= Cardinality(triedPools[r]) \/ Suspect(r, v)
  BY <1>t DEF FaultInvOf, Typed, DataOK, ReplyOK
<1>1. CASE pc'[r] = "switch"
  BY <1>t, <1>b, <1>1 DEF FaultInvOf
<1>2. CASE pc'[r] = "loop"
  <2>1. ASSUME NEW v \in Providers PROVE bad[r][v] <= Cardinality(triedPools[r])
    <3>1. CASE Suspect(r, v)
      <4>1. reply[r].status = 400 /\ reply[r].body \in {"plain", "agreement"}
        BY <1>t, <3>1 DEF FaultInvOf, Suspect
      <4>2. ~KeyFault(r) /\ ~LimitedAlone(r)
        BY <4>1 DEF KeyFault, AuthError, LimitedAlone
      <4>3. RotateFailure(r)
        BY <1>2, <4>2
        DEF RotateKeyFault, AbortPayloadFault, AbortLimitedAlone, Goto, Typed
      <4>4. ~(bad[r][v] >= 2)
        BY <3>1, <4>1, <4>2, <4>3 DEF RotateFailure, PayloadFault, Suspect
      <4> QED BY <1>t, <1>b, <4>4
    <3>2. CASE ~Suspect(r, v)
      BY <1>b, <3>2
    <3> QED BY <3>1, <3>2
  <2> QED BY <1>t, <1>b, <1>2, <2>1 DEF FaultInvOf
<1> QED BY <1>p, <1>1, <1>2

\* Another pool leaves one more 400 in hand.
LEMMA SwitchFaults ==
    ASSUME Typed, NEW r \in Requests, TriedInv(r), FaultInvOf(r), SwitchPool(r)
    PROVE  FaultInvOf(r)'
<1>1. PICK p \in Fallbacks(r) : triedPools'[r] = triedPools[r] \cup {p}
  BY DEF SwitchPool, Typed, DataOK, LoopOK
<1>2. p \notin triedPools[r]
  BY DEF Fallbacks, ExactFallbacks
<1>3. Cardinality(triedPools'[r]) = Cardinality(triedPools[r]) + 1
  BY <1>1, <1>2, FS_AddElement DEF TriedInv
<1>4. UNCHANGED <<bad, reply>> /\ pc'[r] = "loop"
  BY DEF SwitchPool, Goto, replyVars, Typed
<1>5. Cardinality(triedPools[r]) \in Nat
  BY CountsTyped
<1>6. ASSUME NEW v \in Providers
      PROVE  bad[r][v] \in Nat /\ bad[r][v] <= Cardinality(triedPools[r]) + 1
  BY DEF FaultInvOf, Typed, DataOK, ReplyOK
<1>7. ASSUME NEW v \in Providers
      PROVE  /\ bad'[r][v] <= Cardinality(triedPools'[r]) + 1
             /\ bad'[r][v] <= Cardinality(triedPools'[r])
  BY <1>3, <1>4, <1>5, <1>6
<1> QED BY <1>4, <1>7 DEF FaultInvOf

\* No step counts a 400 that the pools tried do not account for.
LEMMA NextFaultInv ==
    ASSUME PlainPayloadFaults, Typed, \A r \in Requests : TriedInv(r),
           FaultInv, [Next]_vars
    PROVE  FaultInv'
<1> SUFFICES ASSUME NEW r \in Requests PROVE FaultInvOf(r)'
  BY DEF FaultInv
<1>s. FaultInvOf(r)
  BY DEF FaultInv
<1>1. ASSUME NEW q \in Requests, q # r, Arrive(q) \/ Cancel(q) \/ Engine(q)
      PROVE  FaultInvOf(r)'
  <2>1. UNCHANGED <<triedPools[r], bad[r], reply[r], pc[r], pick[r]>>
    BY <1>1
    DEF Engine, Acquire, Settle, Arrive, Cancel, SpendPool, AbortLoop, Spin, Scan,
        Least, Wake, SkipLimited, SkipTried, Dispatch, Forward, AbortReplied,
        Succeed, RotateKeyFault, AbortPayloadFault, AbortLimitedAlone,
        RotateFailure, SwitchPool, GiveUp, RecordFailure, Failed, Goto, Finish,
        FinishCancelled,
        loopVars, replyVars, Typed, DataOK, PickOK, LoopOK, ReplyOK
  <2> QED BY <1>s, <2>1, FaultQuiet
<1>2. ASSUME \/ Arrive(r) \/ Cancel(r) \/ SpendPool(r) \/ AbortLoop(r) \/ Spin(r)
             \/ Scan(r) \/ Least(r) \/ Wake(r) \/ SkipLimited(r) \/ SkipTried(r)
             \/ Dispatch(r) \/ AbortReplied(r) \/ Succeed(r) \/ GiveUp(r)
      PROVE  FaultInvOf(r)'
  <2>1. UNCHANGED <<triedPools, bad, reply>>
    BY <1>2
    DEF Arrive, Cancel, SpendPool, AbortLoop, Spin, Scan, Least, Wake, SkipLimited,
        SkipTried, Dispatch, AbortReplied, Succeed, GiveUp, loopVars, replyVars
  <2>2. /\ pc'[r] \in {"replied", "failed"} => pc[r] = pc'[r]
        /\ pc[r] = "failed" => pc'[r] = "failed" /\ UNCHANGED pick[r]
        /\ pc[r] \in {"switch", "done"} => pc'[r] \in {"switch", "done"}
    BY <1>2
    DEF Arrive, Cancel, SpendPool, AbortLoop, Spin, Scan, Least, Wake, SkipLimited,
        SkipTried, Dispatch, AbortReplied, Succeed, GiveUp, Goto, Finish,
        FinishCancelled, loopVars, Typed
  <2> QED BY <1>s, <2>1, <2>2, FaultQuiet
<1>3. ASSUME Forward(r) PROVE FaultInvOf(r)'
  <2>1. PICK rep \in Replies : reply' = [reply EXCEPT ![r] = rep]
    BY <1>3 DEF Forward
  <2>2. reply'[r] = rep /\ pc[r] = "flight" /\ UNCHANGED <<triedPools, bad>>
    BY <1>3, <2>1 DEF Forward, loopVars, Typed, DataOK, ReplyOK
  <2> QED BY <1>s, <2>2 DEF FaultInvOf, PlainPayloadFaults, Suspect
<1>4. ASSUME RotateKeyFault(r) \/ AbortPayloadFault(r) \/ AbortLimitedAlone(r)
               \/ RotateFailure(r)
      PROVE  FaultInvOf(r)'
  BY <1>s, <1>4, FailureFaults
<1>5. ASSUME SwitchPool(r) \/ RecordFailure(r) PROVE FaultInvOf(r)'
  BY <1>s, <1>5, SwitchFaults, RecordedFaults
<1>6. ASSUME NEW c \in Creds, PeerEvent(c) PROVE FaultInvOf(r)'
  BY <1>s, <1>6, FaultQuiet DEF PeerEvent, loopVars, replyVars
<1>7. CASE Tick
  BY <1>s, <1>7, FaultQuiet DEF Tick, replyVars
<1>8. CASE UNCHANGED vars
  BY <1>s, <1>8, FaultQuiet DEF vars, loopVars, replyVars
<1>9. ASSUME NEW q \in Requests, Arrive(q) \/ Cancel(q) \/ Engine(q)
      PROVE  FaultInvOf(r)'
  BY <1>1, <1>2, <1>3, <1>4, <1>5, <1>9 DEF Engine, Acquire, Settle
<1> QED
  BY RetryAssumption, <1>6, <1>7, <1>8, <1>9 DEF Next

(* Where a 400 tells of the payload, a provider is sent it at most once    *)
(* more than there were pools to send it through.                          *)
THEOREM PayloadFaultsAreBounded ==
    ASSUME PlainPayloadFaults
    PROVE  Spec => []PayloadFaultsBounded
<1>1. FaultInv => PayloadFaultsBounded
  BY DEF FaultInv, FaultInvOf, PayloadFaultsBounded
<1>2. SpendInv(1) => \A r \in Requests : TriedInv(r)
  BY DEF SpendInv, SpendInvOf
<1>3. Typed /\ SpendInv(1) /\ [Next]_vars => SpendInv(1)'
  BY NextSpendInv
<1>4. Init => SpendInv(1)
  BY InitSpendInv
<1>5. Typed /\ SpendInv(1) /\ FaultInv /\ [Next]_vars => FaultInv'
  BY <1>2, NextFaultInv
<1> QED BY <1>1, <1>3, <1>4, <1>5, InitFaultInv, TypedAlways, PTL DEF Spec

-----------------------------------------------------------------------------
(* GeminiFailover.  A request inside a stream keeps the types too, and the *)
(* slot its stream runs on is a slot of the pool it was acquired from.     *)
StreamDataOK ==
    /\ using \in [Requests -> [pool : Pools, idx : Nat]]
    /\ \A r \in Requests : using[r].idx \in Slots(using[r].pool)
    /\ hop \in [Requests -> Nat]
    /\ turns \in [Requests -> Nat]
    /\ heard \in [Requests -> {"nothing", "headers", "valid"}]

StreamTyped == Typed /\ StreamDataOK

\* The places of a request before and after a step of its stream.
LEMMA StreamMoves ==
    ASSUME Typed, NEW r \in Requests, Stream(r)
    PROVE  \E label \in AllPcs : pc' = [pc EXCEPT ![r] = label]
<1>1. pc = [pc EXCEPT ![r] = pc[r]] /\ pc[r] \in AllPcs
  BY DEF Typed
<1>2. UNCHANGED pc \/ \E label \in AllPcs : Goto(r, label)
  BY DEF Stream, OpenStream, RefuseStream, Emit, EndStream, BreakStream, Rescan,
     RefuseOffer, Resume, Exhaust, Close, Goto, AllPcs, StreamPcs, Pcs
<1> QED BY <1>1, <1>2 DEF Goto

\* A stream starts with nothing said, on no slot of its own.
LEMMA InitStreamTyped == StreamInit => StreamTyped
<1> SUFFICES ASSUME StreamInit PROVE StreamTyped
  OBVIOUS
<1>1. TypeOK
  BY InitTypeOK DEF StreamInit
<1>2. Typed
  BY <1>1 DEF TypeOK, Typed, AllPcs
<1>3. StreamDataOK
  BY <1>1 DEF StreamInit, StreamDataOK, TypeOK, DataOK, PickOK
<1> QED BY <1>2, <1>3 DEF StreamTyped

\* The scans of the ring and the least penalised slot are slots of the pool.
LEMMA ScannedSlots ==
    ASSUME NEW p, NEW base, NEW cl
    PROVE  FirstOpen(p, base, cl) \subseteq Slots(p)
           /\ LeastPenalized(p, cl) \subseteq Slots(p)
BY DEF FirstOpen, Open, LeastPenalized

\* Every step of a stream keeps the engine's types.
LEMMA StreamStepTyped ==
    ASSUME StreamTyped, NEW r \in Requests, Stream(r)
    PROVE  Typed'
<1> USE DEF StreamTyped, Typed, DataOK
<1>1. pc' \in [Requests -> AllPcs]
  BY StreamMoves
<1>2. PickOK'
  BY DEF Stream, OpenStream, RefuseStream, Emit, EndStream, BreakStream, Rescan,
     RefuseOffer, Resume, Exhaust, Close, PickOK, loopVars
<1>3. LoopOK'
  <2>1. CASE BreakStream(r) \/ RefuseOffer(r) \/ Rescan(r)
    <3>1. PICK p \in Pools : at' = [at EXCEPT ![r] = p] \/ UNCHANGED at
      BY <2>1, PoolAssumption DEF BreakStream, RefuseOffer, Rescan, LoopOK
    <3>2. at' \in [Requests -> Pools]
      BY <3>1 DEF LoopOK
    <3>3. UNCHANGED <<want, pool, tried, triedPools, spins, rest>>
      BY <2>1 DEF BreakStream, RefuseOffer, Rescan
    <3> QED BY <3>2, <3>3 DEF LoopOK
  <2>2. CASE UNCHANGED loopVars
    BY <2>2 DEF loopVars, LoopOK
  <2> QED
    BY <2>1, <2>2
    DEF Stream, OpenStream, RefuseStream, Emit, EndStream, Resume, Exhaust, Close
<1>4. ReplyOK'
  <2>1. CASE RefuseStream(r) \/ Close(r)
    <3>1. reply' \in [Requests -> [status : Nat, body : Bodies]]
      <4>1. PICK n \in Nat :
              reply' = [reply EXCEPT ![r] = [status |-> n, body |-> "plain"]]
        BY <2>1 DEF RefuseStream, Close
      <4>2. [status |-> n, body |-> "plain"] \in [status : Nat, body : Bodies]
        BY DEF Bodies
      <4> QED BY <4>1, <4>2 DEF ReplyOK
    <3> QED BY <2>1, <3>1 DEF RefuseStream, Close, ReplyOK
  <2>2. CASE Emit(r)
    <3>1. answers' \in [Requests -> Seq(Nat)]
      BY <2>2 DEF Emit, ReplyOK
    <3> QED BY <2>2, <3>1 DEF Emit, ReplyOK
  <2>3. CASE Resume(r)
    BY <2>3 DEF Resume, ReplyOK
  <2>4. CASE UNCHANGED <<replyVars, cancelled>>
    BY <2>4 DEF replyVars, ReplyOK
  <2> QED
    BY <2>1, <2>2, <2>3, <2>4
    DEF Stream, OpenStream, EndStream, BreakStream, Rescan, RefuseOffer, Exhaust
<1>5. PoolsOK'
  <2>1. CASE BreakStream(r) \/ RefuseOffer(r)
    <3>1. PICK t \in 0..MaxCool : cool' = SetSlot(pool[r], using[r].idx, t, cool)
      BY <2>1, RetryAssumption, TicksAssumption
      DEF BreakStream, RefuseOffer, PenalizeBroken
    <3>2. pool[r] \in Pools /\ using[r].idx \in Nat
      BY DEF LoopOK, StreamDataOK
    <3>3. cool' \in [Creds -> 0..MaxCool]
      BY <3>1, <3>2, SetSlotInRange DEF PoolsOK
    <3> QED BY <2>1, <3>3 DEF BreakStream, RefuseOffer, PoolsOK
  <2>2. CASE Rescan(r)
    <3>1. (cursor[at[r]] + 1) % TotalCount(at[r]) \in Nat
      BY RingSize DEF PoolsOK, LoopOK
    <3> QED BY <2>2, <3>1 DEF Rescan, PoolsOK
  <2>3. CASE UNCHANGED poolVars
    BY <2>3 DEF poolVars, PoolsOK
  <2> QED
    BY <2>1, <2>2, <2>3
    DEF Stream, OpenStream, RefuseStream, Emit, EndStream, Resume, Exhaust, Close
<1> QED BY <1>1, <1>2, <1>3, <1>4, <1>5

\* And its own.
LEMMA StreamStepData ==
    ASSUME StreamTyped, NEW r \in Requests, Stream(r)
    PROVE  StreamDataOK'
<1> USE DEF StreamTyped, Typed, DataOK
<1>1. using' \in [Requests -> [pool : Pools, idx : Nat]]
      /\ \A s \in Requests : using'[s].idx \in Slots(using'[s].pool)
  <2>1. CASE OpenStream(r)
    <3>1. using' = [using EXCEPT ![r] = pick[r]]
      BY <2>1 DEF OpenStream
    <3> QED BY <3>1 DEF PickOK, StreamDataOK
  <2>2. CASE Rescan(r) /\ using' # using
    <3>1. \E p \in {at[r], pool[r]} : \E i \in Slots(p) :
            using' = [using EXCEPT ![r] = [pool |-> p, idx |-> i]]
      BY <2>2, ScannedSlots DEF Rescan
    <3>2. PICK p \in Pools : \E i \in Slots(p) :
            using' = [using EXCEPT ![r] = [pool |-> p, idx |-> i]]
      BY <3>1 DEF LoopOK
    <3>3. PICK i \in Slots(p) : using' = [using EXCEPT ![r] = [pool |-> p, idx |-> i]]
      BY <3>2
    <3>4. i \in Nat
      BY SlotHoldsCredential
    <3> QED BY <3>3, <3>4 DEF StreamDataOK
  <2>3. CASE UNCHANGED using
    BY <2>3 DEF StreamDataOK
  <2> QED
    BY <2>1, <2>2, <2>3
    DEF Stream, RefuseStream, Emit, EndStream, BreakStream, RefuseOffer, Resume,
        Exhaust, Close, streamVars
<1>2. hop' \in [Requests -> Nat]
  BY DEF Stream, OpenStream, RefuseStream, Emit, EndStream, BreakStream, Rescan,
     RefuseOffer, Resume, Exhaust, Close, streamVars, StreamDataOK
<1>3. turns' \in [Requests -> Nat]
  <2>1. PICK n \in Nat : UNCHANGED turns \/ turns' = [turns EXCEPT ![r] = n]
    BY DEF Stream, OpenStream, RefuseStream, Emit, EndStream, BreakStream, Rescan,
       RefuseOffer, Resume, Exhaust, Close, streamVars, StreamDataOK
  <2> QED BY <2>1 DEF StreamDataOK
<1>4. heard' \in [Requests -> {"nothing", "headers", "valid"}]
  <2>1. PICK n \in {"nothing", "headers", "valid"} : UNCHANGED heard \/ heard' = [heard EXCEPT ![r] = n]
    BY DEF Stream, OpenStream, RefuseStream, Emit, EndStream, BreakStream, Rescan,
       RefuseOffer, Resume, Exhaust, Close, streamVars, StreamDataOK
  <2> QED BY <2>1 DEF StreamDataOK
<1> QED BY <1>1, <1>2, <1>3, <1>4 DEF StreamDataOK

\* Every step of the streaming engine keeps the types.
LEMMA StreamNextTyped == StreamTyped /\ [StreamNext]_allVars => StreamTyped'
<1> SUFFICES ASSUME StreamTyped, [StreamNext]_allVars PROVE StreamTyped'
  OBVIOUS
<1>1. CASE [Next]_vars /\ UNCHANGED streamVars
  <2>1. Typed'
    BY <1>1, NextTyped DEF StreamTyped
  <2>2. StreamDataOK'
    BY <1>1 DEF StreamTyped, StreamDataOK, streamVars
  <2> QED BY <2>1, <2>2 DEF StreamTyped
<1>2. ASSUME NEW r \in Requests, Stream(r) PROVE StreamTyped'
  BY <1>2, StreamStepTyped, StreamStepData DEF StreamTyped
<1> QED BY <1>1, <1>2 DEF StreamNext, allVars

\* The types hold in every run of the streaming engine.
LEMMA StreamTypedAlways == StreamSpec => []StreamTyped
BY InitStreamTyped, StreamNextTyped, PTL DEF StreamSpec

-----------------------------------------------------------------------------
(* A streaming request is answered as its first chunk goes out, long       *)
(* before the retry loop has a reply: what the client heard and what was   *)
(* written for it agree for as long as the stream, and its reply, last.    *)
HeardInvOf(r) ==
    /\ heard[r] # "nothing" => answers[r] # <<>>
    /\ pc[r] \in StreamPcs \/ (pc[r] = "replied" /\ SdkStream(r)) =>
          (answers[r] # <<>> => heard[r] # "nothing")

HeardInv == \A r \in Requests : HeardInvOf(r)

LEMMA AppendNotEmpty ==
    ASSUME NEW s \in Seq(Nat), NEW n \in Nat
    PROVE  Append(s, n) # <<>>
<1>1. Len(Append(s, n)) = Len(s) + 1 /\ Len(s) \in Nat /\ Len(<<>>) = 0
  OBVIOUS
<1> QED BY <1>1

\* Nothing is heard at first.
LEMMA InitHeardInv == StreamInit => AnswerInv /\ HeardInv
<1> SUFFICES ASSUME StreamInit PROVE AnswerInv /\ HeardInv
  OBVIOUS
<1>1. AnswerInv
  BY InitAnswerInv DEF StreamInit
<1>2. HeardInv
  BY DEF StreamInit, Init, HeardInv, HeardInvOf, StreamPcs
<1> QED BY <1>1, <1>2

\* What the engine's own steps keep of it.
LEMMA NextHeardInv ==
    ASSUME Typed, HeardInv, [Next]_vars, UNCHANGED heard
    PROVE  HeardInv'
<1> SUFFICES ASSUME NEW r \in Requests PROVE HeardInvOf(r)'
  BY DEF HeardInv
<1>s. HeardInvOf(r)
  BY DEF HeardInv
<1>q. ASSUME answers[r] # <<>> => answers'[r] # <<>>,
             \/ UNCHANGED <<pc[r], pick[r], answers[r]>>
             \/ pc'[r] \notin StreamPcs \cup {"replied"}
             \/ pc'[r] = "replied" /\ ~SdkStream(r)'
      PROVE  HeardInvOf(r)'
  <2>1. heard'[r] # "nothing" => answers'[r] # <<>>
    BY <1>s, <1>q DEF HeardInvOf
  <2>2. CASE UNCHANGED <<pc[r], pick[r], answers[r]>>
    <3>1. SdkStream(r)' <=> SdkStream(r)
      BY <2>2 DEF SdkStream, Picked
    <3> QED BY <1>s, <2>1, <2>2, <3>1 DEF HeardInvOf
  <2>3. CASE pc'[r] \notin StreamPcs \cup {"replied"}
    BY <2>1, <2>3 DEF HeardInvOf
  <2>4. CASE pc'[r] = "replied" /\ ~SdkStream(r)'
    BY <2>1, <2>4 DEF HeardInvOf, StreamPcs
  <2> QED BY <1>q, <2>2, <2>3, <2>4
<1>1. ASSUME NEW q \in Requests, q # r, Arrive(q) \/ Cancel(q) \/ Engine(q)
      PROVE  UNCHANGED <<pc[r], pick[r], answers[r]>>
  BY SMTT(30), <1>1
  DEF Engine, Acquire, Settle, Arrive, Cancel, SpendPool, AbortLoop, Spin, Scan,
      Least, Wake, SkipLimited, SkipTried, Dispatch, Forward, AbortReplied,
      Succeed, RotateKeyFault, AbortPayloadFault, AbortLimitedAlone,
      RotateFailure, SwitchPool, GiveUp, RecordFailure, Failed, Goto, Finish,
      FinishCancelled,
      loopVars, replyVars, Typed, DataOK, PickOK, LoopOK, ReplyOK
<1>2. ASSUME Arrive(r) \/ Cancel(r) \/ Acquire(r) \/ Settle(r)
      PROVE  \/ UNCHANGED <<pc[r], pick[r]>>
             \/ pc'[r] \notin StreamPcs \cup {"replied"}
  BY <1>2
  DEF Acquire, Settle, Arrive, Cancel, SpendPool, AbortLoop, Spin, Scan,
      Least, Wake, SkipLimited, SkipTried, Dispatch, AbortReplied,
      Succeed, RotateKeyFault, AbortPayloadFault, AbortLimitedAlone,
      RotateFailure, SwitchPool, GiveUp, RecordFailure, Failed, Goto, Finish,
      FinishCancelled,
      loopVars, Typed, StreamPcs
<1>3. ASSUME Arrive(r) \/ Cancel(r) \/ Acquire(r) \/ Settle(r)
      PROVE  UNCHANGED answers \/ (answers'[r] # <<>> /\ pc'[r] = "done")
  BY <1>3
  DEF Acquire, Settle, Arrive, Cancel, SpendPool, AbortLoop, Spin, Scan,
      Least, Wake, SkipLimited, SkipTried, Dispatch, AbortReplied,
      Succeed, RotateKeyFault, AbortPayloadFault, AbortLimitedAlone,
      RotateFailure, SwitchPool, GiveUp, RecordFailure, Failed, Goto, Finish,
      FinishCancelled,
      replyVars, Typed, DataOK, ReplyOK
<1>4. ASSUME Arrive(r) \/ Cancel(r) \/ Acquire(r) \/ Settle(r) PROVE HeardInvOf(r)'
  BY <1>2, <1>3, <1>4, <1>q DEF StreamPcs
<1>5. ASSUME Forward(r) PROVE HeardInvOf(r)'
  <2>1. PICK rep \in Replies :
          answers' = [answers EXCEPT
                ![r] = IF Ok(rep.status) THEN Append(@, rep.status) ELSE @]
    BY <1>5 DEF Forward
  <2>2. answers[r] # <<>> => answers'[r] # <<>>
    <3>1. answers[r] \in Seq(Nat) /\ rep.status \in Nat
      BY RetryAssumption DEF Typed, DataOK, ReplyOK
    <3>2. Append(answers[r], rep.status) # <<>>
      BY <3>1, AppendNotEmpty
    <3> QED BY <2>1, <3>2 DEF Typed, DataOK, ReplyOK
  <2>3. pc'[r] = "replied" /\ ~SdkStream(r)'
    BY <1>5 DEF Forward, Goto, loopVars, SdkStream, Picked, Typed
  <2> QED BY <2>2, <2>3, <1>q
<1>6. ASSUME UNCHANGED <<pc, pick, answers>> PROVE HeardInvOf(r)'
  BY <1>6, <1>q
<1>7. (\E c \in Shared : PeerEvent(c)) \/ Tick \/ UNCHANGED vars
        => UNCHANGED <<pc, pick, answers>>
  BY DEF PeerEvent, Tick, vars, loopVars, replyVars
<1> QED
  BY <1>1, <1>4, <1>5, <1>6, <1>7, <1>q DEF Next, Engine

\* A step of a stream that writes nothing and reports nothing yet.
LEMMA SilentStep ==
    ASSUME Typed, AnswerInv, HeardInv, NEW r \in Requests,
           pc[r] \in StreamPcs, NEW label \in StreamPcs,
           Goto(r, label), UNCHANGED <<answers, reply, pick, heard>>
    PROVE  AnswerInv' /\ HeardInv'
<1>1. label \notin {"replied", "done"} /\ pc[r] # "done" /\ pc[r] # "replied"
  BY DEF StreamPcs
<1>2. AnswerInv'
  BY <1>1 DEF AnswerInv, Goto, Typed
<1>3. HeardInv'
  <2> SUFFICES ASSUME NEW s \in Requests PROVE HeardInvOf(s)'
    BY DEF HeardInv
  <2>1. pc'[s] = pc[s] \/ (s = r /\ pc'[s] \in StreamPcs)
    BY DEF Goto, Typed
  <2> QED BY <2>1 DEF HeardInv, HeardInvOf, SdkStream, Picked
<1> QED BY <1>2, <1>3

\* A stream reports a 2xx to the retry loop if, and only if, it was heard.
LEMMA ReportingStep ==
    ASSUME Typed, AnswerInv, HeardInv, NEW r \in Requests, NEW status \in Nat,
           pc[r] # "done", Goto(r, "replied"),
           reply' = [reply EXCEPT ![r] = [status |-> status, body |-> "plain"]],
           answers[r] # <<>> => Len(answers[r]) = 1,
           Ok(status) <=> answers[r] # <<>>, answers[r] # <<>> => heard[r] # "nothing",
           UNCHANGED <<answers, pick, heard>>
    PROVE  AnswerInv' /\ HeardInv'
<1>1. reply'[r].status = status /\ pc'[r] = "replied"
  BY DEF Goto, Typed, DataOK, ReplyOK
<1>2. \A s \in Requests : s # r => pc'[s] = pc[s] /\ reply'[s] = reply[s]
  BY DEF Goto, Typed, DataOK, ReplyOK
<1>3. AnswerInv'
  BY <1>1, <1>2 DEF AnswerInv
<1>4. HeardInv'
  BY <1>1, <1>2 DEF HeardInv, HeardInvOf, SdkStream, Picked
<1> QED BY <1>3, <1>4

\* No step of a stream breaks the agreement of what is heard and written.
LEMMA StreamStepHeard ==
    ASSUME StreamTyped, AnswerInv, HeardInv, NEW r \in Requests, Stream(r)
    PROVE  AnswerInv' /\ HeardInv'
<1> USE DEF StreamTyped
<1>1. CASE OpenStream(r)
  <2>1. answers[r] = <<>> /\ pc[r] = "flight"
    BY <1>1 DEF OpenStream, AnswerInv, StreamPcs
  <2>2. UNCHANGED <<answers, reply, pick>>
    BY <1>1 DEF OpenStream, loopVars, replyVars
  <2>3. heard' = [heard EXCEPT ![r] = "nothing"] /\ Goto(r, "stream")
    BY <1>1 DEF OpenStream
  <2>4. AnswerInv'
    BY <2>1, <2>2, <2>3, QuietStep
  <2>5. HeardInv'
    BY <2>1, <2>2, <2>3
    DEF HeardInv, HeardInvOf, SdkStream, Picked, Goto, Typed, StreamDataOK
  <2> QED BY <2>4, <2>5
<1>2. CASE RefuseStream(r)
  <2>1. answers[r] = <<>> /\ pc[r] = "flight"
    BY <1>2 DEF RefuseStream, AnswerInv, StreamPcs
  <2>2. ~Ok(500)
    BY DEF Ok
  <2>3. UNCHANGED <<answers, pick, heard>>
    BY <1>2 DEF RefuseStream, loopVars, streamVars
  <2>4. /\ Goto(r, "replied")
        /\ reply' = [reply EXCEPT ![r] = [status |-> 500, body |-> "plain"]]
    BY <1>2 DEF RefuseStream
  <2>5. /\ 500 \in Nat /\ pc[r] # "done"
        /\ Ok(500) <=> answers[r] # <<>>
        /\ answers[r] # <<>> => Len(answers[r]) = 1 /\ heard[r] # "nothing"
    BY <2>1, <2>2
  <2> QED BY ZenonT(40), <2>3, <2>4, <2>5, ReportingStep
<1>3. CASE Emit(r)
  <2>1. PICK h \in {"headers", "valid"} : heard' = [heard EXCEPT ![r] = h]
    BY <1>3 DEF Emit
  <2>2. /\ pc[r] = "stream" /\ UNCHANGED <<pc, pick, reply>>
        /\ answers' = [answers EXCEPT
                ![r] = IF heard[r] = "nothing" THEN Append(@, 200) ELSE @]
    BY <1>3 DEF Emit, loopVars
  <2>3. heard[r] = "nothing" <=> answers[r] = <<>>
    BY <2>2 DEF HeardInv, HeardInvOf, StreamPcs
  <2>4. Len(answers'[r]) = 1 /\ answers'[r] # <<>>
    <3>1. CASE answers[r] = <<>>
      BY <2>2, <2>3, <3>1 DEF Typed, DataOK, ReplyOK
    <3>2. CASE answers[r] # <<>>
      BY <2>2, <2>3, <3>2 DEF AnswerInv, Typed, DataOK, ReplyOK
    <3> QED BY <3>1, <3>2
  <2>5. heard'[r] # "nothing"
    BY <2>1 DEF StreamDataOK
  <2>6. \A s \in Requests : s # r => answers'[s] = answers[s] /\ heard'[s] = heard[s]
    BY <2>1, <2>2 DEF StreamDataOK, Typed, DataOK, ReplyOK
  <2>7. AnswerInv'
    BY <2>2, <2>4, <2>6 DEF AnswerInv, StreamPcs
  <2>8. HeardInv'
    BY <2>2, <2>4, <2>5, <2>6 DEF HeardInv, HeardInvOf, SdkStream, Picked
  <2> QED BY <2>7, <2>8
<1>4. CASE EndStream(r) \/ BreakStream(r) \/ RefuseOffer(r) \/ Resume(r) \/ Exhaust(r)
  <2>1. pc[r] \in StreamPcs /\ UNCHANGED <<answers, reply, pick, heard>>
    BY <1>4
    DEF EndStream, BreakStream, RefuseOffer, Resume, Exhaust, StreamPcs, loopVars,
        replyVars, streamVars
  <2>2. PICK label \in StreamPcs : Goto(r, label)
    BY <1>4 DEF EndStream, BreakStream, RefuseOffer, Resume, Exhaust, StreamPcs
  <2> QED BY <2>1, <2>2, SilentStep
<1>5. CASE Rescan(r)
  <2>1. pc[r] \in StreamPcs /\ UNCHANGED <<answers, reply, pick, heard>>
    BY <1>5 DEF Rescan, StreamPcs, replyVars
  <2>2. Goto(r, "offered") \/ UNCHANGED pc
    BY <1>5 DEF Rescan
  <2>3. Goto(r, "offered") \/ Goto(r, pc[r])
    BY <2>2 DEF Goto, Typed
  <2>4. "offered" \in StreamPcs
    BY DEF StreamPcs
  <2> QED BY <2>1, <2>3, <2>4, SilentStep
<1>6. CASE Close(r)
  <2>1. pc[r] = "closing" /\ Goto(r, "replied") /\ UNCHANGED <<answers, pick, heard>>
    BY <1>6 DEF Close, loopVars, streamVars
  <2>2. heard[r] = "nothing" <=> answers[r] = <<>>
    BY <2>1 DEF HeardInv, HeardInvOf, StreamPcs
  <2>3. answers[r] # <<>> => Len(answers[r]) = 1
    BY DEF AnswerInv
  <2>4. CASE heard[r] = "nothing"
    <3>1. reply' = [reply EXCEPT ![r] = [status |-> 502, body |-> "plain"]]
      BY <1>6, <2>4 DEF Close
    <3>2. /\ 502 \in Nat /\ pc[r] # "done"
          /\ Ok(502) <=> answers[r] # <<>>
          /\ answers[r] # <<>> => Len(answers[r]) = 1 /\ heard[r] # "nothing"
      BY <2>1, <2>2, <2>4 DEF Ok
    <3> QED BY <2>1, <3>1, <3>2, ReportingStep
  <2>5. CASE heard[r] # "nothing"
    <3>1. reply' = [reply EXCEPT ![r] = [status |-> 200, body |-> "plain"]]
      BY <1>6, <2>5 DEF Close
    <3>2. /\ 200 \in Nat /\ pc[r] # "done"
          /\ Ok(200) <=> answers[r] # <<>>
          /\ answers[r] # <<>> => Len(answers[r]) = 1 /\ heard[r] # "nothing"
      BY <2>1, <2>2, <2>3, <2>5 DEF Ok
    <3> QED BY <2>1, <3>1, <3>2, ReportingStep
  <2> QED BY <2>4, <2>5
<1> QED BY <1>1, <1>2, <1>3, <1>4, <1>5, <1>6 DEF Stream

\* The agreement is kept by every step.
LEMMA StreamNextHeard ==
    StreamTyped /\ AnswerInv /\ HeardInv /\ [StreamNext]_allVars
        => AnswerInv' /\ HeardInv'
<1> SUFFICES ASSUME StreamTyped, AnswerInv, HeardInv, [StreamNext]_allVars
             PROVE  AnswerInv' /\ HeardInv'
  OBVIOUS
<1>1. CASE [Next]_vars /\ UNCHANGED streamVars
  BY <1>1, NextAnswerInv, NextHeardInv DEF StreamTyped, streamVars
<1>2. ASSUME NEW r \in Requests, Stream(r) PROVE AnswerInv' /\ HeardInv'
  BY <1>2, StreamStepHeard
<1> QED BY <1>1, <1>2 DEF StreamNext, allVars

LEMMA HeardAlways == StreamSpec => [](AnswerInv /\ HeardInv)
BY InitHeardInv, StreamNextHeard, StreamTypedAlways, PTL DEF StreamSpec

(* However often its stream breaks and is resumed under the same response, *)
(* a client gets one answer.                                               *)
THEOREM StreamOneAnswer == StreamSpec => []AnsweredOnce
<1>1. StreamTyped /\ AnswerInv => AnsweredOnce
  BY AnswerInvSuffices DEF StreamTyped
<1> QED BY <1>1, HeardAlways, StreamTypedAlways, PTL

(* A stream nobody heard of is never a success, and one that was heard of  *)
(* is never tried again.                                                   *)
THEOREM HeardStaysFinal == StreamSpec => HeardIsFinal
<1>1. StreamTyped /\ AnswerInv /\ HeardInv /\ [StreamNext]_allVars =>
        [\A r \in Requests :
          pc[r] = "replied" /\ SdkStream(r) /\ ~cancelled[r] =>
              /\ pc'[r] = "done" => heard[r] # "nothing"
              /\ pc'[r] = "failed" => heard[r] = "nothing"]_allVars
  <2> SUFFICES ASSUME StreamTyped, AnswerInv, HeardInv, StreamNext,
                      NEW r \in Requests,
                      pc[r] = "replied", SdkStream(r), ~cancelled[r]
               PROVE  /\ pc'[r] = "done" => heard[r] # "nothing"
                      /\ pc'[r] = "failed" => heard[r] = "nothing"
    OBVIOUS
  <2>1. Ok(reply[r].status) <=> heard[r] # "nothing"
    BY DEF AnswerInv, HeardInv, HeardInvOf
  <2>2. ASSUME NEW q \in Requests,
               Stream(q) \/ Arrive(q) \/ Cancel(q) \/ Acquire(q) \/ Forward(q)
                 \/ SwitchPool(q) \/ GiveUp(q) \/ AbortReplied(q)
        PROVE  pc'[r] = pc[r]
    BY <2>2
    DEF Stream, OpenStream, RefuseStream, Emit, EndStream, BreakStream, Rescan,
        RefuseOffer, Resume, Exhaust, Close, Acquire, Arrive, Cancel, SpendPool,
        AbortLoop, Spin, Scan, Least, Wake, SkipLimited, SkipTried, Dispatch,
        Forward, AbortReplied, SwitchPool, GiveUp, Goto, Finish, FinishCancelled,
        StreamTyped, Typed
  <2>3. ASSUME NEW q \in Requests, Succeed(q)
        PROVE  pc'[r] = pc[r] \/ (Ok(reply[r].status) /\ pc'[r] = "done")
    BY <2>3 DEF Succeed, Goto, StreamTyped, Typed
  <2>4. ASSUME NEW q \in Requests,
               \/ RecordFailure(q) \/ RotateKeyFault(q) \/ AbortPayloadFault(q)
               \/ AbortLimitedAlone(q) \/ RotateFailure(q)
        PROVE  pc'[r] = pc[r] \/ (~Ok(reply[r].status) /\ pc'[r] # "done")
    BY <2>4
    DEF RecordFailure, RotateKeyFault, AbortPayloadFault, AbortLimitedAlone,
        RotateFailure, Failed, Goto, StreamTyped, Typed
  <2>5. (\E c \in Shared : PeerEvent(c)) \/ Tick => pc' = pc
    BY DEF PeerEvent, Tick
  <2> QED
    BY <2>1, <2>2, <2>3, <2>4, <2>5 DEF StreamNext, Next, Engine, Settle
<1> QED BY <1>1, HeardAlways, StreamTypedAlways, PTL DEF StreamSpec, HeardIsFinal

-----------------------------------------------------------------------------
(* A slot pays for MaxFailovers upstream calls: the first of them is made  *)
(* as the request is dispatched, and each stream opened by the call takes  *)
(* one more, so hop has to be part of what is kept.                        *)
HopInvOf(r) ==
    pc[r] \in StreamPcs =>
        /\ hop[r] \in 1..MaxFailovers
        /\ sends[r] + MaxFailovers - hop[r] <= MaxFailovers * Allowed(r)

StreamSpendInv == SpendInv(MaxFailovers) /\ \A r \in Requests : HopInvOf(r)

\* Nothing is spent at first.
LEMMA InitStreamSpendInv == StreamInit => StreamSpendInv
<1> SUFFICES ASSUME StreamInit PROVE StreamSpendInv
  OBVIOUS
<1>1. SpendInv(MaxFailovers)
  BY FailoverAssumption, InitSpendInv DEF StreamInit
<1>2. \A r \in Requests : HopInvOf(r)
  BY DEF StreamInit, Init, HopInvOf, StreamPcs
<1> QED BY <1>1, <1>2 DEF StreamSpendInv

\* The engine's own steps leave a request in its stream as it is.
LEMMA NextHopInv ==
    ASSUME Typed, [Next]_vars, UNCHANGED hop, NEW r \in Requests, HopInvOf(r)
    PROVE  HopInvOf(r)'
<1>1. ASSUME UNCHANGED <<pc[r], sends[r], tried[r], triedPools[r]>>
      PROVE  HopInvOf(r)'
  BY <1>1 DEF HopInvOf, Allowed, TriedCount
<1>2. ASSUME pc'[r] \notin StreamPcs PROVE HopInvOf(r)'
  BY <1>2 DEF HopInvOf
<1>3. ASSUME NEW q \in Requests, Arrive(q) \/ Cancel(q) \/ Engine(q), pc'[r] \in StreamPcs
      PROVE  UNCHANGED <<pc[r], sends[r], tried[r], triedPools[r]>>
  BY SMTT(30), <1>3
  DEF Engine, Acquire, Settle, Arrive, Cancel, SpendPool, AbortLoop, Spin, Scan,
      Least, Wake, SkipLimited, SkipTried, Dispatch, Forward, AbortReplied,
      Succeed, RotateKeyFault, AbortPayloadFault, AbortLimitedAlone,
      RotateFailure, SwitchPool, GiveUp, RecordFailure, Failed, Goto, Finish,
      FinishCancelled,
      loopVars, replyVars, Typed, DataOK, LoopOK, ReplyOK, StreamPcs
<1>4. (\E c \in Shared : PeerEvent(c)) \/ Tick \/ UNCHANGED vars
        => UNCHANGED <<pc, sends, tried, triedPools>>
  BY DEF PeerEvent, Tick, vars, loopVars, replyVars
<1> QED BY <1>1, <1>2, <1>3, <1>4 DEF Next

\* What a step of a stream costs, if it costs anything.
LEMMA StreamStepSpend ==
    ASSUME StreamTyped, StreamSpendInv, NEW r \in Requests, Stream(r)
    PROVE  StreamSpendInv'
<1> USE DEF StreamTyped
<1>c. UNCHANGED <<tried, triedPools, pool>>
  BY DEF Stream, OpenStream, RefuseStream, Emit, EndStream, BreakStream, Rescan,
     RefuseOffer, Resume, Exhaust, Close, loopVars
<1>s. SpendInvOf(r, MaxFailovers) /\ HopInvOf(r)
  BY DEF StreamSpendInv, SpendInv
<1>t. /\ sends[r] \in Nat /\ hop[r] \in Nat /\ MaxFailovers \in Nat
      /\ MaxFailovers * Allowed(r) \in Int
  BY <1>s, CountsTyped, FeeStep, FailoverAssumption DEF SpendInvOf, StreamDataOK
<1>m. pc[r] \in StreamPcs \cup {"flight"} /\ pc'[r] \in StreamPcs \cup {"replied"}
  BY DEF Stream, OpenStream, RefuseStream, Emit, EndStream, BreakStream, Rescan,
     RefuseOffer, Resume, Exhaust, Close, Goto, Typed, StreamPcs
<1>1. ASSUME NEW s \in Requests, s # r
      PROVE  SpendInvOf(s, MaxFailovers)' /\ HopInvOf(s)'
  <2>1. UNCHANGED <<pc[s], sends[s], hop[s]>>
    BY SMTT(30), <1>1
    DEF Stream, OpenStream, RefuseStream, Emit, EndStream, BreakStream, Rescan,
        RefuseOffer, Resume, Exhaust, Close, Goto, replyVars, streamVars, Typed,
        DataOK, ReplyOK, StreamDataOK
  <2>2. SpendInvOf(s, MaxFailovers)'
    BY <1>c, <2>1, OthersSpend DEF StreamSpendInv, SpendInv
  <2>3. HopInvOf(s)'
    BY <1>c, <2>1 DEF StreamSpendInv, HopInvOf, Allowed, TriedCount
  <2> QED BY <2>2, <2>3
<1>2. TriedInv(r)'
  BY <1>c, <1>m, <1>s DEF SpendInvOf, TriedInv, TriedCount, Trying, StreamPcs
<1>3. Allowed(r)' = Allowed(r)
  BY <1>c DEF Allowed, TriedCount
<1>4. ASSUME OpenStream(r) PROVE SpendInvOf(r, MaxFailovers)' /\ HopInvOf(r)'
  <2>1. pc[r] = "flight" /\ pc'[r] = "stream" /\ hop'[r] = 1 /\ sends' = sends
    BY <1>4 DEF OpenStream, Goto, replyVars, Typed, StreamDataOK
  <2>2. sends[r] + MaxFailovers - 1 <= MaxFailovers * Allowed(r)
    BY <1>s, <2>1 DEF SpendInvOf
  <2>3. HopInvOf(r)'
    BY <1>t, <1>3, <2>1, <2>2, FailoverAssumption DEF HopInvOf
  <2> QED BY <1>2, <2>1, <2>3 DEF SpendInvOf, StreamPcs
<1>5. ASSUME RefuseStream(r) PROVE SpendInvOf(r, MaxFailovers)' /\ HopInvOf(r)'
  <2>1. pc[r] = "flight" /\ pc'[r] = "replied" /\ sends' = sends
    BY <1>5 DEF RefuseStream, Goto, Typed
  <2> QED BY <1>s, <1>2, <1>3, <2>1 DEF SpendInvOf, HopInvOf, StreamPcs
<1>6. ASSUME Close(r) PROVE SpendInvOf(r, MaxFailovers)' /\ HopInvOf(r)'
  <2>1. pc[r] = "closing" /\ pc'[r] = "replied" /\ sends' = sends
    BY <1>6 DEF Close, Goto, Typed
  <2>2. sends[r] <= MaxFailovers * Allowed(r)
    BY <1>s, <1>t, <2>1 DEF HopInvOf, StreamPcs
  <2> QED BY <1>2, <1>3, <2>1, <2>2 DEF SpendInvOf, HopInvOf, StreamPcs
<1>7. ASSUME Resume(r) PROVE SpendInvOf(r, MaxFailovers)' /\ HopInvOf(r)'
  <2>1. /\ pc[r] = "offered" /\ pc'[r] = "stream" /\ hop[r] < MaxFailovers
        /\ hop'[r] = hop[r] + 1 /\ sends'[r] = sends[r] + 1
    BY <1>7 DEF Resume, Goto, Typed, DataOK, ReplyOK, StreamDataOK
  <2>2. hop[r] >= 1 /\ sends[r] + MaxFailovers - hop[r] <= MaxFailovers * Allowed(r)
    BY <1>s, <2>1 DEF HopInvOf, StreamPcs
  <2>3. HopInvOf(r)'
    BY <1>t, <1>3, <2>1, <2>2 DEF HopInvOf
  <2> QED BY <1>2, <2>1, <2>3 DEF SpendInvOf, StreamPcs
<1>8. ASSUME \/ Emit(r) \/ EndStream(r) \/ BreakStream(r) \/ Rescan(r)
             \/ RefuseOffer(r) \/ Exhaust(r)
      PROVE  SpendInvOf(r, MaxFailovers)' /\ HopInvOf(r)'
  <2>1. pc[r] \in StreamPcs /\ pc'[r] \in StreamPcs /\ hop' = hop /\ sends' = sends
    BY <1>8
    DEF Emit, EndStream, BreakStream, Rescan, RefuseOffer, Exhaust, Goto, Typed,
        StreamPcs, replyVars, streamVars
  <2>2. HopInvOf(r)'
    BY <1>s, <1>3, <2>1 DEF HopInvOf
  <2> QED BY <1>2, <2>1, <2>2 DEF SpendInvOf, StreamPcs
<1>9. SpendInvOf(r, MaxFailovers)' /\ HopInvOf(r)'
  BY <1>4, <1>5, <1>6, <1>7, <1>8 DEF Stream
<1> QED BY <1>1, <1>9 DEF StreamSpendInv, SpendInv

(* Failing over in mid-stream multiplies what a request may spend by the   *)
(* failover cap, and by no more, however often it changes pools.           *)
THEOREM StreamSpendIsBounded == StreamSpec => []StreamSpendBounded
<1>1. StreamTyped /\ StreamSpendInv => StreamSpendBounded
  <2> SUFFICES ASSUME StreamTyped, StreamSpendInv, NEW r \in Requests
               PROVE  sends[r] <= MaxFailovers * Allowed(r)
    BY DEF StreamSpendBounded, Allowed
  <2>1. SpendInvOf(r, MaxFailovers) /\ HopInvOf(r)
    BY DEF StreamSpendInv, SpendInv
  <2>2. /\ sends[r] \in Nat /\ hop[r] \in Nat /\ MaxFailovers \in Nat
        /\ MaxFailovers * Allowed(r) \in Int
    BY <2>1, CountsTyped, FeeStep, FailoverAssumption
    DEF SpendInvOf, StreamTyped, StreamDataOK
  <2> QED BY <2>1, <2>2 DEF SpendInvOf, HopInvOf
<1>2. StreamTyped /\ StreamSpendInv /\ [StreamNext]_allVars => StreamSpendInv'
  <2> SUFFICES ASSUME StreamTyped, StreamSpendInv, [StreamNext]_allVars
               PROVE  StreamSpendInv'
    OBVIOUS
  <2>1. CASE [Next]_vars /\ UNCHANGED streamVars
    <3>1. SpendInv(MaxFailovers)'
      BY <2>1, NextSpendInv, FailoverAssumption DEF StreamSpendInv, StreamTyped
    <3>2. \A r \in Requests : HopInvOf(r)'
      BY <2>1, NextHopInv DEF StreamSpendInv, StreamTyped, streamVars
    <3> QED BY <3>1, <3>2 DEF StreamSpendInv
  <2>2. ASSUME NEW r \in Requests, Stream(r) PROVE StreamSpendInv'
    BY <2>2, StreamStepSpend
  <2> QED BY <2>1, <2>2 DEF StreamNext, allVars
<1> QED BY <1>1, <1>2, InitStreamSpendInv, StreamTypedAlways, PTL DEF StreamSpec

-----------------------------------------------------------------------------
(* A broken stream's key is penalised in the pool of the request, whatever *)
(* pool the key was acquired from: one that the request's pool leads to.   *)
StreamLinkedOf(r) == LinkedOf(r) /\ (pc[r] \in StreamPcs => using[r].pool \in Chain(pool[r]))

StreamLinked == \A r \in Requests : StreamLinkedOf(r)

\* The engine's own steps leave a request in its stream as it is.
LEMMA NextStreamLinked ==
    ASSUME Typed, StreamLinked, [Next]_vars, UNCHANGED using
    PROVE  StreamLinked'
<1>1. Linked'
  BY NextLinked DEF StreamLinked, StreamLinkedOf, Linked
<1>2. ASSUME NEW r \in Requests, pc'[r] \in StreamPcs
      PROVE  using'[r].pool \in Chain(pool'[r])
  <2>1. ASSUME NEW q \in Requests, Arrive(q) \/ Cancel(q) \/ Engine(q)
        PROVE  UNCHANGED <<pc[r], pool[r]>>
    BY SMTT(30), <1>2, <2>1
    DEF Engine, Acquire, Settle, Arrive, Cancel, SpendPool, AbortLoop, Spin, Scan,
        Least, Wake, SkipLimited, SkipTried, Dispatch, Forward, AbortReplied,
        Succeed, RotateKeyFault, AbortPayloadFault, AbortLimitedAlone,
        RotateFailure, SwitchPool, GiveUp, RecordFailure, Failed, Goto, Finish,
        FinishCancelled, loopVars, Typed, DataOK, LoopOK, StreamPcs
  <2>2. (\E c \in Shared : PeerEvent(c)) \/ Tick \/ UNCHANGED vars
          => UNCHANGED <<pc, pool>>
    BY DEF PeerEvent, Tick, vars, loopVars
  <2>3. UNCHANGED <<pc[r], pool[r]>>
    BY <2>1, <2>2 DEF Next
  <2> QED BY <1>2, <2>3 DEF StreamLinked, StreamLinkedOf
<1> QED BY <1>1, <1>2 DEF StreamLinked, StreamLinkedOf, Linked

\* A stream looks for another key where the engine does.
LEMMA StreamStepLinked ==
    ASSUME StreamTyped, StreamLinked, NEW r \in Requests, Stream(r)
    PROVE  StreamLinked'
<1> USE DEF StreamTyped
<1>c. pool' = pool /\ pick' = pick
  BY DEF Stream, OpenStream, RefuseStream, Emit, EndStream, BreakStream, Rescan,
     RefuseOffer, Resume, Exhaust, Close, loopVars
<1>s. StreamLinkedOf(r) /\ pool[r] \in Pools
  BY DEF StreamLinked, Typed, DataOK, LoopOK
<1>1. ASSUME NEW s \in Requests, s # r PROVE StreamLinkedOf(s)'
  <2>1. UNCHANGED <<pc[s], at[s], using[s]>>
    BY <1>1
    DEF Stream, OpenStream, RefuseStream, Emit, EndStream, BreakStream, Rescan,
        RefuseOffer, Resume, Exhaust, Close, Goto, loopVars, streamVars, Typed,
        DataOK, LoopOK, StreamDataOK
  <2> QED BY <1>c, <2>1 DEF StreamLinked, StreamLinkedOf, LinkedOf
<1>2. ASSUME OpenStream(r) PROVE StreamLinkedOf(r)'
  <2>1. pc[r] = "flight" /\ pc'[r] = "stream" /\ using'[r] = pick[r]
    BY <1>2 DEF OpenStream, Goto, Typed, StreamDataOK
  <2>2. using'[r].pool \in Chain(pool[r])
    BY <1>s, <2>1 DEF StreamLinkedOf, LinkedOf
  <2> QED BY <1>c, <2>1, <2>2 DEF StreamLinkedOf, LinkedOf, StreamPcs
<1>3. ASSUME RefuseStream(r) \/ Close(r) PROVE StreamLinkedOf(r)'
  <2>1. pc'[r] = "replied"
    BY <1>3 DEF RefuseStream, Close, Goto, Typed
  <2> QED BY <2>1 DEF StreamLinkedOf, LinkedOf, StreamPcs
<1>4. ASSUME Emit(r) \/ EndStream(r) \/ Resume(r) \/ Exhaust(r) PROVE StreamLinkedOf(r)'
  <2>1. pc[r] \in StreamPcs /\ pc'[r] \in StreamPcs \ {"rescan"} /\ using' = using
    BY <1>4 DEF Emit, EndStream, Resume, Exhaust, Goto, streamVars, Typed, StreamPcs
  <2> QED BY <1>c, <1>s, <2>1 DEF StreamLinkedOf, LinkedOf, StreamPcs
<1>5. ASSUME BreakStream(r) \/ RefuseOffer(r) PROVE StreamLinkedOf(r)'
  <2>1. /\ pc[r] \in StreamPcs /\ pc'[r] \in StreamPcs
        /\ using' = using /\ at'[r] = pool[r]
    BY <1>5
    DEF BreakStream, RefuseOffer, Goto, Typed, DataOK, LoopOK, StreamPcs
  <2>2. pool[r] \in Chain(pool[r])
    BY <1>s, ChainBegins
  <2> QED BY <1>c, <1>s, <2>1, <2>2 DEF StreamLinkedOf, LinkedOf, StreamPcs
<1>6. ASSUME Rescan(r) PROVE StreamLinkedOf(r)'
  <2>1. pc[r] = "rescan" /\ at[r] \in Chain(pool[r])
    BY <1>s, <1>6 DEF Rescan, StreamLinkedOf, LinkedOf
  <2>2. ASSUME NEW p \in Chain(pool[r]), Goto(r, "offered"),
               \E i : using' = [using EXCEPT ![r] = [pool |-> p, idx |-> i]]
        PROVE  StreamLinkedOf(r)'
    <3>1. using'[r].pool = p /\ pc'[r] = "offered"
      BY <2>2 DEF StreamDataOK, Goto, Typed
    <3> QED BY <1>c, <2>2, <3>1 DEF StreamLinkedOf, LinkedOf, StreamPcs
  <2>3. CASE /\ Fallback[at[r]] # NoPool
             /\ at' = [at EXCEPT ![r] = Fallback[at[r]]]
             /\ UNCHANGED <<using, pc>>
    <3>1. at'[r] \in Chain(pool[r])
      BY <1>s, <2>1, <2>3, ChainGoesOn DEF Typed, DataOK, LoopOK
    <3> QED BY <1>c, <1>s, <2>1, <2>3, <3>1 DEF StreamLinkedOf, LinkedOf, StreamPcs
  <2>4. pool[r] \in Chain(pool[r])
    BY <1>s, ChainBegins
  <2> QED BY <1>6, <2>1, <2>2, <2>3, <2>4 DEF Rescan
<1>7. StreamLinkedOf(r)'
  BY <1>2, <1>3, <1>4, <1>5, <1>6 DEF Stream
<1> QED BY <1>1, <1>7 DEF StreamLinked

(* What breaks a stream cools down the key it was running on or, where     *)
(* that is a key of a fallback pool, the one in its slot of the request's  *)
(* own pool; and no other.                                                 *)
THEOREM StreamPenaltyIsIsolated == StreamSpec => StreamPenaltyIsolated
<1>1. StreamInit => StreamLinked
  BY DEF StreamInit, Init, StreamLinked, StreamLinkedOf, LinkedOf, StreamPcs
<1>2. StreamTyped /\ StreamLinked /\ [StreamNext]_allVars => StreamLinked'
  <2> SUFFICES ASSUME StreamTyped, StreamLinked, [StreamNext]_allVars PROVE StreamLinked'
    OBVIOUS
  <2>1. CASE [Next]_vars /\ UNCHANGED streamVars
    BY <2>1, NextStreamLinked DEF StreamTyped, streamVars
  <2>2. ASSUME NEW r \in Requests, Stream(r) PROVE StreamLinked'
    BY <2>2, StreamStepLinked
  <2> QED BY <2>1, <2>2 DEF StreamNext, allVars
<1>3. StreamTyped /\ StreamLinked /\ [StreamNext]_allVars =>
        [\A r \in Requests, c \in Creds :
          pc[r] \in StreamPcs /\ pc'[r] # pc[r] /\ cool'[c] > cool[c] =>
              \/ c = Using(r)
              \/ /\ using[r].pool \in Chain(pool[r]) \ {pool[r]}
                 /\ c = At(pool[r], using[r].idx)]_allVars
  <2> SUFFICES ASSUME StreamTyped, StreamLinked, StreamNext,
                      NEW r \in Requests, NEW c \in Creds,
                      pc[r] \in StreamPcs, pc'[r] # pc[r], cool'[c] > cool[c]
               PROVE  \/ c = Using(r)
                      \/ /\ using[r].pool \in Chain(pool[r]) \ {pool[r]}
                         /\ c = At(pool[r], using[r].idx)
    OBVIOUS
  <2>1. Typed /\ Typed'
    BY StreamNextTyped DEF StreamTyped
  <2>2. cool[c] \in Nat /\ cool'[c] \in Nat /\ cool'[c] # cool[c]
    BY <2>1 DEF Typed, DataOK, PoolsOK
  <2>3. ASSUME NEW q \in Requests, Arrive(q) \/ Cancel(q) \/ Engine(q) PROVE FALSE
    BY <2>1, <2>3
    DEF Engine, Acquire, Settle, Arrive, Cancel, SpendPool, AbortLoop, Spin, Scan,
        Least, Wake, SkipLimited, SkipTried, Dispatch, Forward, AbortReplied,
        Succeed, RotateKeyFault, AbortPayloadFault, AbortLimitedAlone,
        RotateFailure, SwitchPool, GiveUp, RecordFailure, Failed, Goto, Finish,
        FinishCancelled,
        Typed, StreamPcs
  <2>4. ~\E d \in Shared : PeerEvent(d)
    BY DEF PeerEvent
  <2>5. ~Tick
    BY DEF Tick
  <2>6. PICK q \in Requests : Stream(q)
    BY <2>3, <2>4, <2>5 DEF StreamNext, Next
  <2>7. q = r
    BY <2>1, <2>6
    DEF Stream, OpenStream, RefuseStream, Emit, EndStream, BreakStream, Rescan,
        RefuseOffer, Resume, Exhaust, Close, Goto, Typed
  <2>8. ~UNCHANGED cool
    BY <2>2
  <2>9. BreakStream(r) \/ RefuseOffer(r)
    BY <2>6, <2>7, <2>8
    DEF Stream, OpenStream, RefuseStream, Emit, EndStream, Rescan, Resume, Exhaust,
        Close, poolVars
  <2>10. PICK t : cool' = SetSlot(pool[r], using[r].idx, t, cool)
    BY <2>9 DEF BreakStream, RefuseOffer, PenalizeBroken
  <2>11. c = At(pool[r], using[r].idx)
    <3>1. cool \in [Creds -> 0..MaxCool] /\ pool[r] \in Pools /\ using[r].idx \in Nat
      BY <2>1 DEF Typed, DataOK, PoolsOK, LoopOK, StreamTyped, StreamDataOK
    <3>2. SetSlot(pool[r], using[r].idx, t, cool)[c] # cool[c]
      BY <2>2, <2>10
    <3> QED BY <3>1, <3>2, SetSlotIsolated
  <2>12. using[r].pool \in Chain(pool[r])
    BY DEF StreamLinked, StreamLinkedOf
  <2> QED BY <2>11, <2>12 DEF Using
<1> QED
  BY <1>1, <1>2, <1>3, StreamTypedAlways, PTL DEF StreamSpec, StreamPenaltyIsolated

-----------------------------------------------------------------------------
(* The promise of AnswerPromise, kept by the loop and by its streams.  A   *)
(* request is asked for before it is in flight, and only one that wants a  *)
(* stream is ever in one.                                                  *)
PaidInvOf(r) ==
    /\ pc[r] \in {"flight"} \cup StreamPcs => sends[r] > 0
    /\ pc[r] \in StreamPcs => r \in Streaming

PaidInv == \A r \in Requests : PaidInvOf(r)

Stages == [r \in Requests |-> Stage(r)]

\* Nobody is in flight at first.
LEMMA InitPaid == Init => PaidInv
BY DEF Init, PaidInv, PaidInvOf, StreamPcs

\* The engine pays as it dispatches.
LEMMA NextPaid == Typed /\ PaidInv /\ [Next]_vars => PaidInv'
<1> SUFFICES ASSUME Typed, PaidInv, [Next]_vars, NEW r \in Requests
             PROVE  PaidInvOf(r)'
  BY DEF PaidInv
<1>s. PaidInvOf(r) /\ sends[r] \in Nat
  BY DEF PaidInv, Typed, DataOK, ReplyOK
<1>1. ASSUME UNCHANGED <<pc[r], sends[r]>> PROVE PaidInvOf(r)'
  BY <1>s, <1>1 DEF PaidInvOf
<1>2. ASSUME pc'[r] \notin StreamPcs, pc'[r] = "flight" => sends'[r] > 0
      PROVE  PaidInvOf(r)'
  BY <1>2 DEF PaidInvOf
<1>3. ASSUME NEW q \in Requests, Arrive(q) \/ Cancel(q) \/ Engine(q)
      PROVE  \/ UNCHANGED <<pc[r], sends[r]>>
             \/ pc'[r] \notin StreamPcs \cup {"flight"}
             \/ Dispatch(r)
  BY SMTT(30), <1>3
  DEF Engine, Acquire, Settle, Arrive, Cancel, SpendPool, AbortLoop, Spin, Scan,
      Least, Wake, SkipLimited, SkipTried, Dispatch, Forward, AbortReplied,
      Succeed, RotateKeyFault, AbortPayloadFault, AbortLimitedAlone,
      RotateFailure, SwitchPool, GiveUp, RecordFailure, Failed, Goto, Finish,
      FinishCancelled,
      replyVars, Typed, DataOK, ReplyOK, StreamPcs
<1>4. ASSUME Dispatch(r) PROVE pc'[r] = "flight" /\ sends'[r] > 0
  BY <1>s, <1>4 DEF Dispatch, Goto, Typed, DataOK, ReplyOK
<1>5. (\E c \in Shared : PeerEvent(c)) \/ Tick \/ UNCHANGED vars
        => UNCHANGED <<pc, sends>>
  BY DEF PeerEvent, Tick, vars, replyVars
<1> QED BY <1>1, <1>2, <1>3, <1>4, <1>5 DEF Next, StreamPcs

\* A step of one request changes the stage of no other.
LEMMA StageMoves ==
    ASSUME NEW r \in Requests, NEW s, Stage(r)' = s,
           \A q \in Requests : q # r => UNCHANGED <<pc[q], answers[q]>>
    PROVE  Stages' = [Stages EXCEPT ![r] = s]
<1>1. \A q \in Requests : q # r => Stage(q)' = Stage(q)
  BY DEF Stage
<1> QED BY <1>1 DEF Stages

\* A step that neither writes nor leaves, nor asks, is none of the promise's.
LEMMA Stutters ==
    ASSUME NEW r \in Requests, UNCHANGED <<answers, sends>>,
           \A q \in Requests : q # r => UNCHANGED pc[q],
           pc[r] # "done", pc'[r] # "done"
    PROVE  UNCHANGED Promise!promiseVars
<1>1. \A q \in Requests : Stage(q)' = Stage(q)
  BY DEF Stage
<1> QED BY <1>1 DEF Promise!promiseVars

\* A request leaves with what was written, or an error.
LEMMA LeavesWithError ==
    ASSUME Typed, AnswerInv, NEW r \in Requests, NEW code \in 400..599,
           Goto(r, "done"), pc[r] # "done", UNCHANGED sends, answers[r] = <<>>,
           answers' = [answers EXCEPT ![r] = <<code>>]
    PROVE  Promise!PromiseNext
<1>1. Stage(r) = "open" /\ Stage(r)' = "over"
  BY DEF Stage, Goto, Typed
<1>2. \A q \in Requests : q # r => UNCHANGED <<pc[q], answers[q]>>
  BY DEF Goto, Typed, DataOK, ReplyOK
<1>3. Stages' = [Stages EXCEPT ![r] = "over"]
  BY <1>1, <1>2, StageMoves
<1>4. Promise!Fail(r)
  BY <1>1, <1>3 DEF Promise!Fail, Promise!Pass, Promise!Write, Stages
<1> QED BY <1>4 DEF Promise!PromiseNext

LEMMA LeavesAnswered ==
    ASSUME Typed, AnswerInv, NEW r \in Requests,
           Goto(r, "done"), pc[r] # "done", UNCHANGED <<answers, sends>>,
           answers[r] # <<>>
    PROVE  Promise!PromiseNext
<1>1. Stage(r) = "answered" /\ Stage(r)' = "over"
  BY DEF Stage, Goto, Typed
<1>2. \A q \in Requests : q # r => UNCHANGED <<pc[q], answers[q]>>
  BY DEF Goto, Typed
<1>3. Stages' = [Stages EXCEPT ![r] = "over"]
  BY <1>1, <1>2, StageMoves
<1>4. Promise!End(r)
  BY <1>1, <1>3 DEF Promise!End, Promise!Pass, Stages
<1> QED BY <1>4 DEF Promise!PromiseNext

\* A success is written once the provider was asked.
LEMMA Answers ==
    ASSUME Typed, NEW r \in Requests, NEW code \in 200..299, NEW label,
           pc' = [pc EXCEPT ![r] = label], label # "done", pc[r] # "done",
           answers[r] = <<>>, sends[r] > 0, UNCHANGED sends,
           answers' = [answers EXCEPT ![r] = <<code>>]
    PROVE  Promise!PromiseNext
<1>1. Stage(r) = "open"
  BY DEF Stage
<1>2. pc'[r] = label /\ answers'[r] = <<code>>
  BY DEF Typed, DataOK, ReplyOK
<1>3. Stage(r)' = "answered"
  BY <1>2 DEF Stage
<1>4. \A q \in Requests : q # r => UNCHANGED <<pc[q], answers[q]>>
  BY DEF Typed, DataOK, ReplyOK
<1>5. Stages' = [Stages EXCEPT ![r] = "answered"]
  BY <1>3, <1>4, StageMoves
<1>6. Promise!Answer(r)
  BY <1>1, <1>5 DEF Promise!Answer, Promise!Pass, Promise!Write, Stages
<1> QED BY <1>6 DEF Promise!PromiseNext

\* A client that left is told so, unless it was told something before.
LEMMA CancellingAnswers ==
    ASSUME Typed, AnswerInv, NEW r \in Requests, pc[r] # "done",
           FinishCancelled(r), UNCHANGED sends
    PROVE  Promise!PromiseNext
<1>1. CASE answers[r] = <<>>
  <2>1. answers' = [answers EXCEPT ![r] = <<504>>] /\ Goto(r, "done")
    BY <1>1 DEF FinishCancelled
  <2>2. 504 \in 400..599
    OBVIOUS
  <2> QED BY ZenonT(60), <1>1, <2>1, <2>2, LeavesWithError
<1>2. CASE answers[r] # <<>>
  <2>1. UNCHANGED answers
    BY <1>2 DEF FinishCancelled, Typed, DataOK, ReplyOK
  <2> QED BY <1>2, <2>1, LeavesAnswered DEF FinishCancelled
<1> QED BY <1>1, <1>2

\* What each step of the loop is to the client.
LEMMA StepKeepsAnswer ==
    Typed /\ AnswerInv /\ PaidInv /\ [Next]_vars
        => [Promise!PromiseNext]_(Promise!promiseVars)
<1> SUFFICES ASSUME Typed, AnswerInv, PaidInv, [Next]_vars
             PROVE  Promise!PromiseNext \/ UNCHANGED Promise!promiseVars
  OBVIOUS
<1>1. ASSUME NEW r \in Requests,
             \/ Arrive(r) \/ SpendPool(r) \/ Spin(r) \/ Scan(r) \/ Least(r)
             \/ Wake(r) \/ SkipLimited(r) \/ SkipTried(r) \/ SwitchPool(r)
             \/ RotateKeyFault(r) \/ AbortPayloadFault(r) \/ AbortLimitedAlone(r)
             \/ RotateFailure(r) \/ RecordFailure(r) \/ Cancel(r)
      PROVE  UNCHANGED Promise!promiseVars
  <2>1. UNCHANGED <<answers, sends>> /\ pc[r] # "done"
    BY <1>1
    DEF Arrive, SpendPool, Spin, Scan, Least, Wake, SkipLimited, SkipTried,
        SwitchPool, RotateKeyFault, AbortPayloadFault, AbortLimitedAlone,
        RotateFailure, RecordFailure, Failed, Cancel, replyVars
  <2>2. pc'[r] # "done" /\ \A q \in Requests : q # r => UNCHANGED pc[q]
    BY <1>1, <2>1
    DEF Arrive, SpendPool, Spin, Scan, Least, Wake, SkipLimited, SkipTried,
        SwitchPool, RotateKeyFault, AbortPayloadFault, AbortLimitedAlone,
        RotateFailure, RecordFailure, Failed, Cancel, Goto, Typed
  <2> QED BY <2>1, <2>2, Stutters
<1>2. ASSUME NEW r \in Requests, Dispatch(r) PROVE Promise!PromiseNext
  <2>1. Stage(r) = "open"
    BY <1>2 DEF Dispatch, AnswerInv, Stage, StreamPcs
  <2>2. \A q \in Requests : Stage(q)' = Stage(q)
    BY <1>2 DEF Dispatch, Stage, Goto, Typed
  <2>3. Promise!Ask(r)
    BY <1>2, <2>1, <2>2 DEF Dispatch, Promise!Ask
  <2> QED BY <2>3 DEF Promise!PromiseNext
<1>3. ASSUME NEW r \in Requests, Forward(r)
      PROVE  Promise!PromiseNext \/ UNCHANGED Promise!promiseVars
  <2>1. PICK rep \in Replies :
          answers' = [answers EXCEPT
                ![r] = IF Ok(rep.status) THEN Append(@, rep.status) ELSE @]
    BY <1>3 DEF Forward
  <2>p. pc[r] = "flight" /\ Goto(r, "replied") /\ UNCHANGED sends
    BY <1>3 DEF Forward
  <2>a. answers[r] = <<>>
    BY <2>p DEF AnswerInv, StreamPcs
  <2>2. sends[r] > 0
    BY <2>p DEF PaidInv, PaidInvOf
  <2>3. CASE Ok(rep.status)
    <3>1. answers' = [answers EXCEPT ![r] = <<rep.status>>]
      BY <2>1, <2>a, <2>3
    <3>2. rep.status \in 200..299
      BY <2>3 DEF Ok
    <3> QED BY <2>p, <2>a, <2>2, <3>1, <3>2, Answers DEF Goto
  <2>4. CASE ~Ok(rep.status)
    <3>1. UNCHANGED answers
      BY <2>1, <2>4 DEF Typed, DataOK, ReplyOK
    <3>2. pc'[r] # "done" /\ \A q \in Requests : q # r => UNCHANGED pc[q]
      BY <2>p DEF Goto, Typed
    <3> QED BY <2>p, <3>1, <3>2, Stutters
  <2> QED BY <2>3, <2>4
<1>4. ASSUME NEW r \in Requests, AbortLoop(r) \/ AbortReplied(r)
      PROVE  Promise!PromiseNext
  BY <1>4, CancellingAnswers DEF AbortLoop, AbortReplied
<1>5. ASSUME NEW r \in Requests, Succeed(r) PROVE Promise!PromiseNext
  <2>1. /\ Goto(r, "done") /\ pc[r] = "replied" /\ Ok(reply[r].status)
        /\ UNCHANGED <<answers, sends>>
    BY <1>5 DEF Succeed, replyVars
  <2>2. answers[r] # <<>>
    BY <2>1 DEF AnswerInv
  <2> QED BY <2>1, <2>2, LeavesAnswered
<1>6. ASSUME NEW r \in Requests, GiveUp(r) PROVE Promise!PromiseNext
  <2>1. answers[r] = <<>> /\ pc[r] = "switch"
    BY <1>6 DEF GiveUp, AnswerInv, StreamPcs
  <2>2. ErrorStatus(last[r]) \in 400..599
    BY DEF ErrorStatus
  <2>3. /\ answers' = [answers EXCEPT ![r] = <<ErrorStatus(last[r])>>]
        /\ Goto(r, "done") /\ UNCHANGED sends
    BY <1>6, <2>1 DEF GiveUp, Finish
  <2>4. pc[r] # "done"
    BY <2>1
  <2> QED BY ZenonT(60), <2>1, <2>2, <2>3, <2>4, LeavesWithError
<1>7. ASSUME UNCHANGED <<pc, answers, sends>>
      PROVE  UNCHANGED Promise!promiseVars
  BY <1>7 DEF Promise!promiseVars, Stage
<1>8. (\E c \in Shared : PeerEvent(c)) \/ Tick \/ UNCHANGED vars
        => UNCHANGED <<pc, answers, sends>>
  BY DEF PeerEvent, Tick, vars, replyVars
<1> QED
  BY <1>1, <1>2, <1>3, <1>4, <1>5, <1>6, <1>7, <1>8
  DEF Next, Engine, Acquire, Settle

\* Nobody is answered at first.
LEMMA InitKeepsAnswer == Init => Promise!PromiseInit
BY DEF Init, Promise!PromiseInit, Stage

(* The retry loop keeps the promise a client is given, whatever it goes    *)
(* through: an answer comes of a provider that was asked and ends the      *)
(* asking, and an error comes of nothing else having come.                 *)
THEOREM AnswerIsKept == Spec => KeepsAnswer
<1>1. Spec => []AnswerInv
  BY InitAnswerInv, NextAnswerInv, TypedAlways, PTL DEF Spec
<1>2. Spec => []PaidInv
  BY InitPaid, NextPaid, TypedAlways, PTL DEF Spec
<1>3. Spec => Promise!PromiseSpec
  BY <1>1, <1>2, InitKeepsAnswer, StepKeepsAnswer, TypedAlways, PTL
  DEF Spec, Promise!PromiseSpec
<1> QED BY <1>3 DEF KeepsAnswer

\* What is promised without resuming is promised with it.
LEMMA PromisesMore ==
    [Promise!PromiseNext]_(Promise!promiseVars)
        => [StreamPromise!PromiseNext]_(StreamPromise!promiseVars)
BY ZenonT(40)
DEF Promise!PromiseNext, Promise!promiseVars, StreamPromise!PromiseNext,
   StreamPromise!promiseVars, Promise!Ask, Promise!Answer, Promise!End, Promise!Fail,
   Promise!Pass, Promise!Write, StreamPromise!Ask, StreamPromise!Answer,
   StreamPromise!End, StreamPromise!Fail, StreamPromise!Pass, StreamPromise!Write

\* Only who wants a stream is in one, and it was paid for.
LEMMA StreamPaid ==
    ASSUME StreamTyped, PaidInv, NEW r \in Requests, Stream(r) PROVE PaidInv'
<1> SUFFICES ASSUME NEW q \in Requests PROVE PaidInvOf(q)'
  BY DEF PaidInv
<1>1. PaidInvOf(q) /\ sends[q] \in Nat
  BY DEF PaidInv, StreamTyped, Typed, DataOK, ReplyOK
<1>2. CASE q # r
  <2>1. UNCHANGED <<pc[q], sends[q]>>
    BY <1>2
    DEF Stream, OpenStream, RefuseStream, Emit, EndStream, BreakStream, Rescan,
        RefuseOffer, Resume, Exhaust, Close, Goto, replyVars, StreamTyped, Typed,
        DataOK, ReplyOK
  <2> QED BY <1>1, <2>1 DEF PaidInvOf
<1>3. CASE q = r
  <2>1. /\ pc[r] \in {"flight"} \cup StreamPcs
        /\ pc[r] = "flight" /\ pc'[r] \in StreamPcs => r \in Streaming
    BY DEF Stream, OpenStream, RefuseStream, Emit, EndStream, BreakStream, Rescan,
       RefuseOffer, Resume, Exhaust, Close, StreamPcs, SdkStream, Goto,
       StreamTyped, Typed
  <2>2. sends'[r] \in {sends[r], sends[r] + 1} /\ pc'[r] # "flight"
    BY DEF Stream, OpenStream, RefuseStream, Emit, EndStream, BreakStream, Rescan,
       RefuseOffer, Resume, Exhaust, Close, Goto, replyVars, StreamTyped, Typed,
       DataOK, ReplyOK
  <2> QED BY <1>1, <1>3, <2>1, <2>2 DEF PaidInvOf
<1> QED BY <1>2, <1>3

\* What each step of a stream is to the client.
LEMMA StreamStepKeepsAnswer ==
    ASSUME StreamTyped, AnswerInv, HeardInv, PaidInv, NEW r \in Requests, Stream(r)
    PROVE  [StreamPromise!PromiseNext]_(StreamPromise!promiseVars)
<1>t. Typed
  BY DEF StreamTyped
<1>1. ASSUME \/ OpenStream(r) \/ RefuseStream(r) \/ EndStream(r) \/ BreakStream(r)
             \/ Rescan(r) \/ RefuseOffer(r) \/ Exhaust(r) \/ Close(r)
      PROVE  UNCHANGED Promise!promiseVars
  <2>1. UNCHANGED <<answers, sends>> /\ pc[r] # "done"
    BY <1>1
    DEF OpenStream, RefuseStream, EndStream, BreakStream, Rescan, RefuseOffer,
        Exhaust, Close, replyVars
  <2>2. pc'[r] # "done" /\ \A q \in Requests : q # r => UNCHANGED pc[q]
    BY <1>t, <1>1, <2>1
    DEF OpenStream, RefuseStream, EndStream, BreakStream, Rescan, RefuseOffer,
        Exhaust, Close, Goto, Typed
  <2> QED BY <2>1, <2>2, Stutters
<1>2. ASSUME Emit(r) PROVE Promise!PromiseNext \/ UNCHANGED Promise!promiseVars
  <2>1. /\ pc[r] = "stream" /\ UNCHANGED <<pc, sends>>
        /\ answers' = [answers EXCEPT
                ![r] = IF heard[r] = "nothing" THEN Append(@, 200) ELSE @]
    BY <1>2 DEF Emit
  <2>2. heard[r] = "nothing" <=> answers[r] = <<>>
    BY <2>1 DEF HeardInv, HeardInvOf, StreamPcs
  <2>5. sends[r] > 0
    BY <2>1 DEF PaidInv, PaidInvOf, StreamPcs
  <2>3. CASE answers[r] = <<>>
    <3>1. answers' = [answers EXCEPT ![r] = Append(@, 200)]
      BY <2>1, <2>2, <2>3
    <3>2. Append(answers[r], 200) = <<200>> /\ 200 \in 200..299
      BY <2>3
    <3>3. answers' = [answers EXCEPT ![r] = <<200>>]
      BY Zenon, <3>1, <3>2
    <3>4. pc' = [pc EXCEPT ![r] = "stream"] /\ "stream" # "done" /\ pc[r] # "done"
      BY <1>t, <2>1 DEF Typed
    <3> QED BY Zenon, <1>t, <2>1, <2>3, <2>5, <3>2, <3>3, <3>4, Answers
  <2>4. CASE answers[r] # <<>>
    <3>1. UNCHANGED answers
      BY <1>t, <2>1, <2>2, <2>4 DEF Typed, DataOK, ReplyOK
    <3> QED BY <2>1, <3>1, Stutters
  <2> QED BY <2>3, <2>4
<1>3. ASSUME Resume(r) PROVE StreamPromise!PromiseNext
  <2>1. Stage(r) \in {"open", "answered"} /\ r \in Streaming
    BY <1>3 DEF Resume, Stage, PaidInv, PaidInvOf, StreamPcs
  <2>2. \A q \in Requests : Stage(q)' = Stage(q)
    BY <1>t, <1>3 DEF Resume, Stage, Goto, Typed
  <2>3. StreamPromise!Ask(r)
    BY <1>3, <2>1, <2>2 DEF Resume, StreamPromise!Ask
  <2> QED BY <2>3 DEF StreamPromise!PromiseNext
<1>4. CASE [Promise!PromiseNext]_(Promise!promiseVars)
  BY <1>4, PromisesMore
<1> QED BY <1>1, <1>2, <1>3, <1>4 DEF Stream

(* So does the engine with its streams, for which the only thing asked of  *)
(* a provider after an answer is to go on with it.                         *)
THEOREM StreamAnswerIsKept == StreamSpec => StreamKeepsAnswer
<1>1. StreamInit => PaidInv /\ StreamPromise!PromiseInit
  <2>1. Init => StreamPromise!PromiseInit
    BY DEF Init, StreamPromise!PromiseInit, Stage
  <2> QED BY <2>1, InitPaid DEF StreamInit
<1>2. StreamTyped /\ PaidInv /\ [StreamNext]_allVars => PaidInv'
  <2> SUFFICES ASSUME StreamTyped, PaidInv, [StreamNext]_allVars PROVE PaidInv'
    OBVIOUS
  <2>1. CASE [Next]_vars
    BY <2>1, NextPaid DEF StreamTyped
  <2> QED BY <2>1, StreamPaid DEF StreamNext, allVars
<1>3. StreamTyped /\ AnswerInv /\ HeardInv /\ PaidInv /\ [StreamNext]_allVars
        => [StreamPromise!PromiseNext]_(StreamPromise!promiseVars)
  <2> SUFFICES ASSUME StreamTyped, AnswerInv, HeardInv, PaidInv, [StreamNext]_allVars
               PROVE  [StreamPromise!PromiseNext]_(StreamPromise!promiseVars)
    OBVIOUS
  <2>1. CASE [Next]_vars
    <3>1. [Promise!PromiseNext]_(Promise!promiseVars)
      BY <2>1, StepKeepsAnswer DEF StreamTyped
    <3> QED BY <3>1, PromisesMore
  <2> QED BY <2>1, StreamStepKeepsAnswer DEF StreamNext, allVars
<1>4. StreamSpec => StreamPromise!PromiseSpec
  BY <1>1, <1>2, <1>3, HeardAlways, StreamTypedAlways, PTL
  DEF StreamSpec, StreamPromise!PromiseSpec
<1> QED BY <1>4 DEF StreamKeepsAnswer
=============================================================================
