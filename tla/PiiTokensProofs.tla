-------------------------- MODULE PiiTokensProofs ---------------------------
(***************************************************************************)
(* What the token map keeps true, for any sets of names, accounts and      *)
(* threads: two threads may be given one token, but no token ever stands   *)
(* for something else later than when it was given out alone, and none     *)
(* gets past the translation while its map lives.                          *)
(***************************************************************************)
EXTENDS PiiTokens, TLAPS

Registering == {"look_up", "count", "bump", "make", "forward", "reverse"}

(* What a call holds at each of its stages.                                *)
CallOK(t) ==
  /\ tool[t] = "none" => pc[t] = "done" /\ token[t] = 0
  /\ turn # "tools" => tool[t] = "none"
  /\ pc[t] = "arguments" =>
       IF tool[t] = "write"
       THEN text[t] \in Strings /\ (text[t] \in Tokens => text[t] \in seen \cup foreign)
       ELSE text[t] = NoText
  /\ pc[t] = "run" /\ tool[t] = "write" => text[t] \in Strings
  /\ pc[t] \in Registering => text[t] \in Strings
  /\ pc[t] = "done" /\ token[t] # 0 => text[t] \in Strings
  /\ pc[t] = "bump" => token[t] < MaxTokens
  /\ pc[t] = "make" => counter > 0
  /\ pc[t] \in {"forward", "reverse"} => token[t] > 0
  /\ pc[t] \in {"arguments", "run", "look_up", "count", "raised"} => token[t] = 0

(* The calls that have written one dictionary and not yet the other.       *)
Pending(k, s) == \E t \in Threads : pc[t] = "reverse" /\ token[t] = k /\ text[t] = s

Exactly(k, s) == k \in doubtful \/ (k \in DOMAIN reverse /\ reverse[k] = s)

(* A token the map or a call gives for a string is swapped back for it, or *)
(* will be when a call has completed it, unless it is doubtful.  What the  *)
(* conversation has been given is complete.                                *)
Means(k, s) == Exactly(k, s) \/ Pending(k, s)

Agreement ==
  /\ \A s \in DOMAIN forward : Means(forward[s], s)
  /\ \A t \in Threads : pc[t] = "done" /\ token[t] # 0 => Means(token[t], text[t])
  /\ \A i \in issued : Exactly(i[1], i[2])

(* A new token is past every token that must keep its meaning.             *)
Fresh ==
  \A k \in DOMAIN reverse \ doubtful :
    /\ k <= counter
    /\ \A t \in Threads :
         /\ pc[t] = "bump" => k <= token[t]
         /\ pc[t] = "make" => k < counter
         /\ pc[t] \in {"forward", "reverse"} => k < token[t]

(* A call that is not raced has the counter to itself.                     *)
Unshared ==
  \A t \in Threads : Making(t) /\ t \notin raced =>
    /\ \A u \in Threads : Making(u) => u = t
    /\ pc[t] \in {"forward", "reverse"} => token[t] <= counter

(* A token of the conversation that cannot be swapped back was lost.       *)
Translation ==
  /\ doubtful \subseteq DOMAIN reverse
  /\ seen \subseteq DOMAIN reverse \cup lost

(* A token among the names, or among the values of the map, was lost or is *)
(* none of a map.                                                          *)
Settled(s) == s \in Tokens => s \in lost \cup foreign

Values ==
  /\ \A a \in DOMAIN names : Settled(names[a])
  /\ \A k \in DOMAIN reverse : Settled(reverse[k])
  /\ \A t \in Threads : pc[t] # "arguments" => Settled(text[t])
  /\ Settled(shown)

IInv ==
  /\ TypeOK
  /\ \A t \in Threads : CallOK(t)
  /\ Agreement
  /\ Fresh
  /\ Unshared
  /\ Translation
  /\ Values

-----------------------------------------------------------------------------
(* Steps of a call                                                         *)

(* An argument is translated: what the map does not know was lost.         *)
LEMMA DetokeniseStep ==
  ASSUME IInv, NEW t \in Threads, Detokenise(t)
  PROVE  IInv'
<1> USE TextAssumption DEF IInv, TypeOK, CallOK, Goto, Tokens, Strings, map,
                           around, Detokenise
<1>1. TypeOK'
  BY DEF Translate
<1>2. \A u \in Threads : CallOK(u)'
  BY DEF Registering, Translate, Translation
<1>3. Agreement'
  BY DEF Agreement, Means, Exactly, Pending
<1>4. Fresh'
  BY DEF Fresh
<1>5. Unshared'
  BY DEF Unshared, Making
<1>6. Translation'
  BY DEF Translation
<1>7. Values'
  BY DEF Values, Settled, Translate, Translation
<1> QED
  BY <1>1, <1>2, <1>3, <1>4, <1>5, <1>6, <1>7

(* The name a call writes is a translated one.                             *)
LEMMA RunWritesStep ==
  ASSUME IInv, NEW t \in Threads, RunWrites(t)
  PROVE  IInv'
<1> USE TextAssumption DEF IInv, TypeOK, CallOK, Goto, Tokens, Strings, map,
                           around, RunWrites
<1>1. TypeOK'
  BY DEF With
<1>2. \A u \in Threads : CallOK(u)'
  BY DEF Registering
<1>3. Agreement'
  BY DEF Agreement, Means, Exactly, Pending
<1>4. Fresh'
  BY DEF Fresh
<1>5. Unshared'
  BY DEF Unshared, Making
<1>6. Translation'
  BY DEF Translation
<1>7. Values'
  BY DEF Values, Settled, With
<1> QED
  BY <1>1, <1>2, <1>3, <1>4, <1>5, <1>6, <1>7

(* A call reads a name that was written.                                   *)
LEMMA RunReadsStep ==
  ASSUME IInv, NEW t \in Threads, RunReads(t)
  PROVE  IInv'
<1> USE TextAssumption DEF IInv, TypeOK, CallOK, Goto, Tokens, Strings, map,
                           around, RunReads
<1>1. TypeOK'
  OBVIOUS
<1>2. \A u \in Threads : CallOK(u)'
  BY DEF Registering
<1>3. Agreement'
  BY DEF Agreement, Means, Exactly, Pending
<1>4. Fresh'
  BY DEF Fresh
<1>5. Unshared'
  BY DEF Unshared, Making
<1>6. Translation'
  BY DEF Translation
<1>7. Values'
  BY DEF Values, Settled
<1> QED
  BY <1>1, <1>2, <1>3, <1>4, <1>5, <1>6, <1>7

(* A call that fails returns no token.                                     *)
LEMMA RunFailsStep ==
  ASSUME IInv, NEW t \in Threads, RunFails(t)
  PROVE  IInv'
<1> USE TextAssumption DEF IInv, TypeOK, CallOK, Goto, Tokens, Strings, map,
                           around, RunFails
<1>1. TypeOK'
  OBVIOUS
<1>2. \A u \in Threads : CallOK(u)'
  BY DEF Registering
<1>3. Agreement'
  BY DEF Agreement, Means, Exactly, Pending
<1>4. Fresh'
  BY DEF Fresh
<1>5. Unshared'
  BY DEF Unshared, Making
<1>6. Translation'
  BY DEF Translation
<1>7. Values'
  BY DEF Values, Settled
<1> QED
  BY <1>1, <1>2, <1>3, <1>4, <1>5, <1>6, <1>7

(* The token found in _forward means the name it is found under.           *)
LEMMA LookUpKnownStep ==
  ASSUME IInv, NEW t \in Threads, LookUpKnown(t)
  PROVE  IInv'
<1> USE TextAssumption DEF IInv, TypeOK, CallOK, Goto, Tokens, Strings, map,
                           around, LookUpKnown
<1>1. TypeOK'
  OBVIOUS
<1>2. \A u \in Threads : CallOK(u)'
  BY DEF Registering
<1>3. Agreement'
  BY DEF Agreement, Means, Exactly, Pending
<1>4. Fresh'
  BY DEF Fresh
<1>5. Unshared'
  BY DEF Unshared, Making
<1>6. Translation'
  BY DEF Translation
<1>7. Values'
  BY DEF Values, Settled
<1> QED
  BY <1>1, <1>2, <1>3, <1>4, <1>5, <1>6, <1>7

(* Nothing is returned yet.                                                *)
LEMMA LookUpNewStep ==
  ASSUME IInv, NEW t \in Threads, LookUpNew(t)
  PROVE  IInv'
<1> USE TextAssumption DEF IInv, TypeOK, CallOK, Goto, Tokens, Strings, map,
                           around, LookUpNew
<1>1. TypeOK'
  OBVIOUS
<1>2. \A u \in Threads : CallOK(u)'
  BY DEF Registering
<1>3. Agreement'
  BY DEF Agreement, Means, Exactly, Pending
<1>4. Fresh'
  BY DEF Fresh
<1>5. Unshared'
  BY DEF Unshared, Making
<1>6. Translation'
  BY DEF Translation
<1>7. Values'
  BY DEF Values, Settled
<1> QED
  BY <1>1, <1>2, <1>3, <1>4, <1>5, <1>6, <1>7

(* The number read is past every token that must keep its meaning.         *)
LEMMA ReadCounterStep ==
  ASSUME IInv, NEW t \in Threads, ReadCounter(t)
  PROVE  IInv'
<1> USE TextAssumption DEF IInv, TypeOK, CallOK, Goto, Tokens, Strings, map,
                           around, ReadCounter
<1>1. TypeOK'
  OBVIOUS
<1>2. \A u \in Threads : CallOK(u)'
  BY DEF Registering
<1>3. Agreement'
  BY DEF Agreement, Means, Exactly, Pending
<1>4. Fresh'
  BY DEF Fresh
<1>5. Unshared'
  BY DEF Unshared, Making
<1>6. Translation'
  BY DEF Translation
<1>7. Values'
  BY DEF Values, Settled
<1> QED
  BY <1>1, <1>2, <1>3, <1>4, <1>5, <1>6, <1>7

(* The counter may go back, but not below those tokens.                    *)
LEMMA BumpCounterStep ==
  ASSUME IInv, NEW t \in Threads, BumpCounter(t)
  PROVE  IInv'
<1> USE TextAssumption DEF IInv, TypeOK, CallOK, Goto, Tokens, Strings, map,
                           around, BumpCounter
<1>1. TypeOK'
  OBVIOUS
<1>2. \A u \in Threads : CallOK(u)'
  BY DEF Registering
<1>3. Agreement'
  BY DEF Agreement, Means, Exactly, Pending
<1>4. Fresh'
  BY DEF Fresh
<1>5. Unshared'
  BY DEF Unshared, Making
<1>6. Translation'
  BY DEF Translation
<1>7. Values'
  BY DEF Values, Settled
<1> QED
  BY <1>1, <1>2, <1>3, <1>4, <1>5, <1>6, <1>7

(* The token is a new one.                                                 *)
LEMMA MakeTokenStep ==
  ASSUME IInv, NEW t \in Threads, MakeToken(t)
  PROVE  IInv'
<1> USE TextAssumption DEF IInv, TypeOK, CallOK, Goto, Tokens, Strings, map,
                           around, MakeToken
<1>1. TypeOK'
  OBVIOUS
<1>2. \A u \in Threads : CallOK(u)'
  BY DEF Registering
<1>3. Agreement'
  BY DEF Agreement, Means, Exactly, Pending
<1>4. Fresh'
  BY DEF Fresh
<1>5. Unshared'
  BY DEF Unshared, Making
<1>6. Translation'
  BY DEF Translation
<1>7. Values'
  BY DEF Values, Settled
<1> QED
  BY <1>1, <1>2, <1>3, <1>4, <1>5, <1>6, <1>7

(* The name's token is about to be completed.                              *)
LEMMA SetForwardStep ==
  ASSUME IInv, NEW t \in Threads, SetForward(t)
  PROVE  IInv'
<1> USE TextAssumption DEF IInv, TypeOK, CallOK, Goto, Tokens, Strings, map,
                           around, SetForward
<1>1. TypeOK'
  <2>1. text[t] \in Strings /\ token[t] \in Tokens
    BY DEF Registering
  <2>2. /\ DOMAIN forward' \subseteq Strings
        /\ \A s \in DOMAIN forward' : forward'[s] \in Tokens
    BY <2>1 DEF With
  <2> QED
    BY <2>2
<1>2. \A u \in Threads : CallOK(u)'
  BY DEF Registering
<1>3. Agreement'
  BY DEF Agreement, Means, Exactly, Pending, With
<1>4. Fresh'
  BY DEF Fresh
<1>5. Unshared'
  BY DEF Unshared, Making
<1>6. Translation'
  BY DEF Translation, With
<1>7. Values'
  BY DEF Values, Settled
<1> QED
  BY <1>1, <1>2, <1>3, <1>4, <1>5, <1>6, <1>7

(* Only a doubtful token can be given another meaning.                     *)
LEMMA SetReverseStep ==
  ASSUME IInv, NEW t \in Threads, SetReverse(t)
  PROVE  IInv'
<1> USE TextAssumption DEF IInv, TypeOK, CallOK, Goto, Tokens, Strings, map,
                           around, SetReverse
<1>1. TypeOK'
  <2>1. text[t] \in Strings /\ token[t] \in Tokens
    BY DEF Registering
  <2>2. /\ DOMAIN reverse' \subseteq Tokens
        /\ \A k \in DOMAIN reverse' : reverse'[k] \in Strings
    BY <2>1 DEF With
  <2>3. issued' \subseteq Tokens \X Strings
    BY <2>1
  <2>4. doubtful' \subseteq Tokens
    BY <2>1
  <2> QED
    BY <2>2, <2>3, <2>4
<1>2. \A u \in Threads : CallOK(u)'
  BY DEF Registering
<1>3. Agreement'
  BY DEF Agreement, Means, Exactly, Pending, With, Fresh
<1>4. Fresh'
  BY DEF Fresh, With, Unshared, Making
<1>5. Unshared'
  BY DEF Unshared, Making
<1>6. Translation'
  <2>1. DOMAIN reverse' = DOMAIN reverse \cup {token[t]}
    BY DEF With
  <2> QED
    BY <2>1 DEF Translation
<1>7. Values'
  BY DEF Values, Settled, With
<1> QED
  BY <1>1, <1>2, <1>3, <1>4, <1>5, <1>6, <1>7

-----------------------------------------------------------------------------
(* Steps of the conversation                                               *)

(* The tokens put into the message can be translated.                      *)
LEMMA MessageStep ==
  ASSUME IInv, NEW m \in SUBSET DOMAIN forward, Message(m)
  PROVE  IInv'
<1> USE TextAssumption DEF IInv, TypeOK, CallOK, Tokens, Strings, map,
                           calls, history, Message
<1>1. TypeOK'
  <2>1. \A s \in m : s \in Strings /\ forward[s] \in Tokens
    OBVIOUS
  <2>2. seen' \subseteq Tokens
    BY <2>1
  <2>3. issued' \subseteq Tokens \X Strings
    BY <2>1
  <2> QED
    BY <2>2, <2>3
<1>2. \A u \in Threads : CallOK(u)'
  BY DEF Registering
<1>3. Agreement'
  BY DEF Agreement, Means, Exactly, Pending
<1>4. Fresh'
  BY DEF Fresh
<1>5. Unshared'
  BY DEF Unshared, Making
<1>6. Translation'
  <2>1. \A s \in m : Means(forward[s], s) /\ ~Pending(forward[s], s)
    BY DEF Agreement, Pending
  <2>2. \A s \in m : forward[s] \in DOMAIN reverse
    BY <2>1 DEF Means, Exactly, Translation
  <2>3. {forward[s] : s \in m} \subseteq DOMAIN reverse
    BY <2>2
  <2> QED
    BY <2>3 DEF Translation
<1>7. Values'
  BY DEF Values, Settled
<1> QED
  BY <1>1, <1>2, <1>3, <1>4, <1>5, <1>6, <1>7

(* New calls begin with what the conversation holds.                       *)
LEMMA ModelCallsStep ==
  ASSUME IInv, ModelCalls
  PROVE  IInv'
<1> USE TextAssumption DEF IInv, TypeOK, CallOK, Tokens, Strings, map,
                           calls, history, ModelCalls
<1>1. TypeOK'
  <2>1. foreign' \subseteq Tokens
    BY DEF Foreign
  <2> QED
    BY <2>1
<1>2. \A u \in Threads : CallOK(u)'
  <2>1. \A u \in Threads : text'[u] \in Tokens => text'[u] \in seen' \cup foreign'
    BY DEF Foreign
  <2> QED
    BY <2>1 DEF Registering
<1>3. Agreement'
  BY DEF Agreement, Means, Exactly, Pending
<1>4. Fresh'
  BY DEF Fresh
<1>5. Unshared'
  BY DEF Unshared, Making
<1>6. Translation'
  BY DEF Translation
<1>7. Values'
  BY DEF Values, Settled
<1> QED
  BY <1>1, <1>2, <1>3, <1>4, <1>5, <1>6, <1>7

(* No call is about to complete a token any more.                          *)
LEMMA ToolsDoneStep ==
  ASSUME IInv, ToolsDone
  PROVE  IInv'
<1> USE TextAssumption DEF IInv, TypeOK, CallOK, Tokens, Strings, map,
                           calls, history
<1>0. \A t \in Threads : token[t] # 0 => Exactly(token[t], text[t])
  BY DEF Agreement, Means, Pending, ToolsDone
<1>a. \A t \in Returned :
        token[t] \in Tokens /\ text[t] \in Strings /\ Exactly(token[t], text[t])
  BY <1>0 DEF Returned, ToolsDone
<1>b. \/ UNCHANGED <<seen, issued>>
      \/ /\ seen' = seen \cup {token[t] : t \in Returned}
         /\ issued' = issued \cup {<<token[t], text[t]>> : t \in Returned}
  BY DEF ToolsDone
<1>c. UNCHANGED <<names, map, shown, doubtful, lost, foreign>> /\ NoCalls
  BY DEF ToolsDone
<1>d. turn' \in {"waiting", "model"}
  BY DEF ToolsDone
<1>1. TypeOK'
  <2>1. seen' \subseteq Tokens
    <3>1. {token[t] : t \in Returned} \subseteq Tokens
      BY <1>a
    <3> QED
      BY <3>1, <1>b
  <2>2. issued' \subseteq Tokens \X Strings
    <3>1. \A t \in Returned : <<token[t], text[t]>> \in Tokens \X Strings
      BY <1>a
    <3>2. {<<token[t], text[t]>> : t \in Returned} \subseteq Tokens \X Strings
      BY <3>1
    <3> QED
      BY <3>2, <1>b
  <2> QED
    BY <2>1, <2>2, <1>c, <1>d DEF NoCalls
<1>2. \A u \in Threads : CallOK(u)'
  BY <1>c DEF Registering, NoCalls
<1>3. Agreement'
  <2>1. \A k, s : Exactly(k, s)' <=> Exactly(k, s)
    BY <1>c DEF Exactly
  <2>2. \A s \in DOMAIN forward : Exactly(forward[s], s)
    BY DEF Agreement, Means, Pending, ToolsDone
  <2>3. \A i \in issued' : Exactly(i[1], i[2])
    BY <1>a, <1>b DEF Agreement
  <2> QED
    BY <2>1, <2>2, <2>3, <1>c DEF Agreement, Means, NoCalls
<1>4. Fresh'
  BY <1>c DEF Fresh, NoCalls
<1>5. Unshared'
  BY <1>c DEF Unshared, Making, NoCalls
<1>6. Translation'
  <2>1. \A t \in Returned : token[t] \in DOMAIN reverse
    BY <1>a DEF Exactly, Translation
  <2> QED
    BY <2>1, <1>b, <1>c DEF Translation
<1>7. Values'
  BY <1>c DEF Values, Settled, NoCalls
<1> QED
  BY <1>1, <1>2, <1>3, <1>4, <1>5, <1>6, <1>7

(* The reply is translated.                                                *)
LEMMA ModelRepliesStep ==
  ASSUME IInv, NEW s \in Strings, ModelReplies(s)
  PROVE  IInv'
<1> USE TextAssumption DEF IInv, TypeOK, CallOK, Tokens, Strings, map,
                           calls, history, ModelReplies
<1>1. TypeOK'
  BY DEF Translate, Foreign
<1>2. \A u \in Threads : CallOK(u)'
  BY DEF Registering
<1>3. Agreement'
  BY DEF Agreement, Means, Exactly, Pending
<1>4. Fresh'
  BY DEF Fresh
<1>5. Unshared'
  BY DEF Unshared, Making
<1>6. Translation'
  BY DEF Translation
<1>7. Values'
  BY DEF Values, Settled, Translate, Translation, Foreign
<1> QED
  BY <1>1, <1>2, <1>3, <1>4, <1>5, <1>6, <1>7

(* The customer writes a name.                                             *)
LEMMA RenameStep ==
  ASSUME IInv, NEW a \in Accounts, NEW s \in Strings, Rename(a, s)
  PROVE  IInv'
<1> USE TextAssumption DEF IInv, TypeOK, CallOK, Tokens, Strings, map,
                           calls, history, Rename
<1>1. TypeOK'
  OBVIOUS
<1>2. \A u \in Threads : CallOK(u)'
  BY DEF Registering
<1>3. Agreement'
  BY DEF Agreement, Means, Exactly, Pending
<1>4. Fresh'
  BY DEF Fresh
<1>5. Unshared'
  BY DEF Unshared, Making
<1>6. Translation'
  BY DEF Translation
<1>7. Values'
  BY DEF Values, Settled
<1> QED
  BY <1>1, <1>2, <1>3, <1>4, <1>5, <1>6, <1>7

(* What the conversation holds is lost.                                    *)
LEMMA RestartStep ==
  ASSUME IInv, Restart
  PROVE  IInv'
<1> USE TextAssumption DEF IInv, TypeOK, CallOK, Tokens, Strings, map,
                           calls, history, Restart
<1>1. TypeOK'
  <2>1. lost' \cup foreign' \subseteq Tokens
    OBVIOUS
  <2>2. pc' \in [Threads -> {"done"}] /\ tool' \in [Threads -> {"none"}]
    BY DEF NoCalls
  <2>3. text' \in [Threads -> {NoText}] /\ token' \in [Threads -> {0}]
    BY DEF NoCalls
  <2> QED
    BY <2>1, <2>2, <2>3 DEF NoCalls, ForgetMap
<1>2. \A u \in Threads : CallOK(u)'
  BY DEF Registering, NoCalls, ForgetMap
<1>3. Agreement'
  BY DEF Agreement, Means, Exactly, Pending, NoCalls, ForgetMap
<1>4. Fresh'
  BY DEF Fresh, NoCalls, ForgetMap
<1>5. Unshared'
  BY DEF Unshared, Making, NoCalls, ForgetMap
<1>6. Translation'
  BY DEF Translation, NoCalls, ForgetMap
<1>7. Values'
  BY DEF Values, Settled, NoCalls, ForgetMap
<1> QED
  BY <1>1, <1>2, <1>3, <1>4, <1>5, <1>6, <1>7

(* Conversation and map go together.                                       *)
LEMMA ExpireSessionStep ==
  ASSUME IInv, ExpireSession
  PROVE  IInv'
<1> USE TextAssumption DEF IInv, TypeOK, CallOK, Tokens, Strings, map,
                           calls, history, ExpireSession
<1>1. TypeOK'
  BY DEF ForgetMap
<1>2. \A u \in Threads : CallOK(u)'
  BY DEF Registering, ForgetMap
<1>3. Agreement'
  BY DEF Agreement, Means, Exactly, Pending, ForgetMap
<1>4. Fresh'
  BY DEF Fresh, ForgetMap
<1>5. Unshared'
  BY DEF Unshared, Making, ForgetMap
<1>6. Translation'
  BY DEF Translation, ForgetMap
<1>7. Values'
  BY DEF Values, Settled, ForgetMap
<1> QED
  BY <1>1, <1>2, <1>3, <1>4, <1>5, <1>6, <1>7

-----------------------------------------------------------------------------
(* The invariant                                                           *)

(* It holds with an empty map and no call.                                 *)
LEMMA InitOK == Init => IInv
<1> SUFFICES ASSUME Init PROVE IInv
  OBVIOUS
<1> USE TextAssumption DEF Init, Tokens, Strings
<1>1. TypeOK
  BY DEF TypeOK
<1>2. \A t \in Threads : CallOK(t)
  BY DEF CallOK, Registering
<1>3. Agreement /\ Fresh /\ Unshared
  BY DEF Agreement, Fresh, Unshared, Making
<1>4. Translation /\ Values
  BY DEF Translation, Values, Settled
<1> QED
  BY <1>1, <1>2, <1>3, <1>4 DEF IInv

(* Doing nothing keeps it.                                                 *)
LEMMA StutterStep ==
  ASSUME IInv, UNCHANGED vars
  PROVE  IInv'
<1> USE DEF IInv, vars, map, calls, history
<1>1. TypeOK' /\ \A t \in Threads : CallOK(t)'
  BY DEF TypeOK, CallOK
<1>2. Agreement' /\ Fresh' /\ Unshared'
  BY DEF Agreement, Means, Exactly, Pending, Fresh, Unshared, Making
<1>3. Translation' /\ Values'
  BY DEF Translation, Values, Settled
<1> QED
  BY <1>1, <1>2, <1>3

(* Every step keeps it.                                                    *)
LEMMA IInvStep == IInv /\ [Next]_vars => IInv'
<1> SUFFICES ASSUME IInv, [Next]_vars PROVE IInv'
  OBVIOUS
<1>1. ASSUME NEW t \in Threads, Call(t)
      PROVE  IInv'
  BY <1>1, DetokeniseStep, RunWritesStep, RunReadsStep, RunFailsStep,
     LookUpKnownStep, LookUpNewStep, ReadCounterStep, BumpCounterStep,
     MakeTokenStep, SetForwardStep, SetReverseStep DEF Call
<1> QED
  BY <1>1, MessageStep, ModelCallsStep, ToolsDoneStep,
     ModelRepliesStep, RenameStep, RestartStep, ExpireSessionStep,
     StutterStep DEF Next

(* The strengthened invariant holds with any number of threads.            *)
THEOREM Invariance == Spec => []IInv
BY InitOK, IInvStep, PTL DEF Spec

-----------------------------------------------------------------------------
(* Theorems                                                                *)

(* The variables keep their types.                                         *)
THEOREM TypeCorrect == Spec => []TypeOK
<1>1. IInv => TypeOK
  BY DEF IInv
<1> QED
  BY <1>1, Invariance, PTL

(* What the conversation was given can be swapped back.                    *)
THEOREM MeaningKept == Spec => []TokensKeepTheirMeaning
<1>1. IInv => TokensKeepTheirMeaning
  BY DEF IInv, Agreement, Exactly, TokensKeepTheirMeaning
<1> QED
  BY <1>1, Invariance, PTL

(* The tokens in the database were lost, or no map's when they were used.  *)
THEOREM NamesStored == Spec => []OnlyForeignTokensStored
<1>1. IInv => OnlyForeignTokensStored
  BY DEF IInv, Values, Settled, OnlyForeignTokensStored
<1> QED
  BY <1>1, Invariance, PTL

(* So were those the customer reads.                                       *)
THEOREM NamesShown == Spec => []OnlyForeignTokensShown
<1>1. IInv => OnlyForeignTokensShown
  BY DEF IInv, Values, Settled, OnlyForeignTokensShown
<1> QED
  BY <1>1, Invariance, PTL

(* Only the last step of a registration and the loss of the map are steps  *)
(* of the vault.                                                           *)
THEOREM VaultImplemented == Spec => ImplementsVault
<1>1. Init => Vault!Init
  BY DEF Init, Vault!Init
<1>2. IInv /\ [Next]_vars => [Vault!Next]_<<reverse, doubtful>>
  <2> SUFFICES ASSUME IInv, [Next]_vars
               PROVE  Vault!Next \/ UNCHANGED <<reverse, doubtful>>
    OBVIOUS
  <2>1. ASSUME NEW t \in Threads, SetReverse(t)
        PROVE  Vault!Next
    <3>1. token[t] \in Tokens /\ text[t] \in Strings
      BY <2>1, TextAssumption
         DEF IInv, TypeOK, CallOK, Registering, SetReverse, Tokens
    <3>2. token[t] \in DOMAIN reverse => token[t] \in doubtful
      BY <2>1, TextAssumption
         DEF IInv, Fresh, TypeOK, Tokens, SetReverse
    <3>3. Vault!Issue(token[t], text[t])
      BY <2>1, <3>2 DEF SetReverse, With, Vault!Issue
    <3> QED
      BY <3>1, <3>3 DEF Vault!Next
  <2>2. CASE Restart \/ ExpireSession
    BY <2>2 DEF Restart, ExpireSession, ForgetMap, Vault!Next, Vault!Forget
  <2>3. ASSUME NEW t \in Threads, Call(t), ~SetReverse(t)
        PROVE  UNCHANGED <<reverse, doubtful>>
    BY <2>3 DEF Call, Detokenise, RunWrites, RunReads, RunFails, LookUpKnown,
       LookUpNew, ReadCounter, BumpCounter, MakeToken, SetForward, map
  <2>4. ASSUME \/ \E m \in SUBSET DOMAIN forward : Message(m)
               \/ ModelCalls \/ ToolsDone
               \/ \E s \in Strings : ModelReplies(s)
               \/ \E a \in Accounts, s \in Strings : Rename(a, s)
               \/ UNCHANGED vars
        PROVE  UNCHANGED <<reverse, doubtful>>
    BY <2>4 DEF Message, ModelCalls, ToolsDone, ModelReplies, Rename, vars,
       map, history
  <2> QED
    BY <2>1, <2>2, <2>3, <2>4 DEF Next
<1> QED
  BY <1>1, <1>2, Invariance, PTL DEF Spec, ImplementsVault, Vault!Spec
=============================================================================
