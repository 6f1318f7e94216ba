------------------------------ MODULE PiiTokens -----------------------------
(***************************************************************************)
(* One conversation's token map (pii_guard.py).  Owner names are swapped   *)
(* for tokens before the model sees them, and back before a tool runs and  *)
(* before the customer reads the reply.  The map is a Python object in the *)
(* memory of the process; the tokens stay in the conversation's            *)
(* checkpoints, which survive a restart.                                   *)
(*                                                                         *)
(* Number k stands for the string "[OWNER_NAME_k]".  Nothing keeps such a  *)
(* string from being typed by the customer or made up by the model, so     *)
(* whatever they write is any of Strings.  The calls of one message run in *)
(* threads that share the map; a step is one operation on one of its       *)
(* dictionaries.                                                           *)
(***************************************************************************)
EXTENDS Naturals

CONSTANTS
  Names,     (* owner names                                                *)
  Accounts,  (* the accounts of the customer                               *)
  Threads,   (* the calls one message may hold                             *)
  NoText,    (* no string                                                  *)
  MaxTokens  (* bounds how many tokens one map issues                      *)

ASSUME TextAssumption ==
  /\ Names \cap Nat = {}
  /\ NoText \notin Names \cup Nat
  /\ MaxTokens \in Nat

Tokens == 1 .. MaxTokens
Strings == Names \cup Tokens

VARIABLES
  names,     (* accounts.owner_name                                        *)
  forward,   (* the map's _forward, _reverse                               *)
  reverse,
  counter,   (* and _counters                                              *)
  seen,      (* the tokens that maps have put into the conversation        *)
  turn,      (* "waiting" for the customer, in the "model", in the "tools" *)
  pc,        (* where the call of a thread is                              *)
  tool,      (* whether it reads or writes an account's name               *)
  account,   (* that account                                               *)
  text,      (* the name it is given, then the one it returns              *)
  token,     (* the counter it has read, then the token it returns         *)
  shown,     (* the name in the reply the customer reads                   *)
  raced,     (* history: the calls that make a token beside another one    *)
  issued,    (* history: which token of this map the conversation was      *)
             (* given for which value                                      *)
  doubtful,  (* history: the tokens of this map made by raced calls        *)
  lost,      (* history: the tokens in conversations whose map has gone    *)
  foreign    (* history: the tokens used that no map had put there         *)

map == <<forward, reverse, counter>>
calls == <<pc, tool, account, text, token, raced>>
history == <<issued, doubtful, lost, foreign>>
vars == <<names, map, seen, turn, calls, shown, history>>

Vault == INSTANCE TokenVault WITH meaning <- reverse, Values <- Strings

NoCalls ==
  /\ pc' = [t \in Threads |-> "done"]
  /\ tool' = [t \in Threads |-> "none"]
  /\ text' = [t \in Threads |-> NoText]
  /\ token' = [t \in Threads |-> 0]
  /\ raced' = {}
  /\ UNCHANGED account

Init ==
  /\ \E open \in SUBSET Accounts : names \in [open -> Names]
  /\ forward = << >> /\ reverse = << >> /\ counter = 0
  /\ seen = {}
  /\ turn = "waiting"
  /\ pc = [t \in Threads |-> "done"]
  /\ tool = [t \in Threads |-> "none"]
  /\ account \in [Threads -> Accounts]
  /\ text = [t \in Threads |-> NoText]
  /\ token = [t \in Threads |-> 0]
  /\ shown = NoText
  /\ raced = {} /\ issued = {} /\ doubtful = {} /\ lost = {} /\ foreign = {}

(* The tokens among the strings S that were typed or made up.              *)
Foreign(S) == (S \cap Tokens) \ seen

Goto(t, stage) == pc' = [pc EXCEPT ![t] = stage]

With(f, x, y) == [z \in DOMAIN f \cup {x} |-> IF z = x THEN y ELSE f[z]]

(* detokenize: a token the map does not know is left as it is.             *)
Translate(s) == IF s \in DOMAIN reverse THEN reverse[s] ELSE s

(* Mutants: the counter starts again under a dictionary that is kept.      *)
ForgetReverseOnly ==
  /\ reverse' = << >> /\ counter' = 0
  /\ issued' = {} /\ doubtful' = {}
  /\ UNCHANGED forward

ForgetForwardOnly ==
  /\ forward' = << >> /\ counter' = 0
  /\ issued' = {} /\ doubtful' = {}
  /\ UNCHANGED reverse

ForgetMap ==
  /\ forward' = << >> /\ reverse' = << >> /\ counter' = 0
  /\ issued' = {} /\ doubtful' = {}

-----------------------------------------------------------------------------
(* The turn                                                                *)

(* The values of the map that the customer's message mentions are replaced *)
(* by their tokens.  What else it says, the model may use in any case.     *)
Message(mentioned) ==
  /\ turn = "waiting"
  /\ turn' = "model"
  /\ seen' = seen \cup {forward[s] : s \in mentioned}
  /\ issued' = issued \cup {<<forward[s], s>> : s \in mentioned}
  /\ shown' = NoText
  /\ UNCHANGED <<names, map, calls, doubtful, lost, foreign>>

(* The model asks for calls, with whatever arguments.                      *)
ModelCalls ==
  /\ turn = "model"
  /\ turn' = "tools"
  /\ tool' \in [Threads -> {"none", "read", "write"}]
  /\ \E t \in Threads : tool'[t] # "none"
  /\ account' \in [Threads -> Accounts]
  /\ text' \in [Threads -> Strings \cup {NoText}]
  /\ \A t \in Threads : text'[t] = NoText <=> tool'[t] # "write"
  /\ pc' = [t \in Threads |-> IF tool'[t] = "none" THEN "done" ELSE "arguments"]
  /\ foreign' = foreign \cup Foreign({text'[t] : t \in Threads})
  /\ UNCHANGED <<names, map, seen, token, raced, shown, issued, doubtful, lost>>

(* The calls that have a token for their result.                           *)
Returned == {t \in Threads : token[t] \in Tokens}

(* The results enter the conversation when all calls are done, unless one  *)
(* of them ended the request.                                              *)
ToolsDone ==
  /\ turn = "tools"
  /\ \A t \in Threads : pc[t] \in {"done", "raised"}
  /\ \/ /\ \E t \in Threads : pc[t] = "raised"
        /\ turn' = "waiting"
        /\ UNCHANGED <<seen, issued>>
     \/ /\ \A t \in Threads : pc[t] = "done"
        /\ turn' = "model"
        /\ seen' = seen \cup {token[t] : t \in Returned}
        /\ issued' = issued \cup {<<token[t], text[t]>> : t \in Returned}
  /\ NoCalls
  /\ UNCHANGED <<names, map, shown, doubtful, lost, foreign>>

(* The reply names anything, and is translated for the customer.           *)
ModelReplies(s) ==
  /\ turn = "model"
  /\ turn' = "waiting"
  /\ shown' = Translate(s)
  /\ foreign' = foreign \cup Foreign({s})
  /\ UNCHANGED <<names, map, seen, calls, issued, doubtful, lost>>

-----------------------------------------------------------------------------
(* A call: pii_guard(tool_safe(server function))                           *)

(* What no step of a call changes.                                         *)
around == <<turn, seen, tool, account, shown, issued, lost, foreign>>

Detokenise(t) ==
  /\ pc[t] = "arguments"
  /\ text' = [text EXCEPT ![t] = Translate(@)]
  /\ Goto(t, "run")
  /\ UNCHANGED <<names, map, token, raced, doubtful, around>>

(* update_account, and create_account for an account not yet there.        *)
RunWrites(t) ==
  /\ pc[t] = "run" /\ tool[t] = "write"
  /\ names' = With(names, account[t], text[t])
  /\ Goto(t, "look_up")
  /\ UNCHANGED <<map, text, token, raced, doubtful, around>>

RunReads(t) ==
  /\ pc[t] = "run" /\ tool[t] = "read"
  /\ account[t] \in DOMAIN names
  /\ text' = [text EXCEPT ![t] = names[account[t]]]
  /\ Goto(t, "look_up")
  /\ UNCHANGED <<names, map, token, raced, doubtful, around>>

(* A refused call becomes a message, any other exception ends the request. *)
RunFails(t) ==
  /\ pc[t] = "run"
  /\ Goto(t, "done") \/ Goto(t, "raised")
  /\ text' = [text EXCEPT ![t] = NoText]
  /\ UNCHANGED <<names, map, token, raced, doubtful, around>>

(* The name has a token already.                                           *)
LookUpKnown(t) ==
  /\ pc[t] = "look_up" /\ text[t] \in DOMAIN forward
  /\ token' = [token EXCEPT ![t] = forward[text[t]]]
  /\ Goto(t, "done")
  /\ UNCHANGED <<names, map, text, raced, doubtful, around>>

Making(t) == pc[t] \in {"count", "bump", "make", "forward", "reverse"}

LookUpNew(t) ==
  /\ pc[t] = "look_up" /\ text[t] \notin DOMAIN forward
  /\ LET others == {u \in Threads \ {t} : Making(u)} IN
       raced' = IF others = {} THEN raced ELSE raced \cup others \cup {t}
  /\ Goto(t, "count")
  /\ UNCHANGED <<names, map, text, token, doubtful, around>>

(* The counter is read, written, and read again for the token.             *)
ReadCounter(t) ==
  /\ pc[t] = "count" /\ counter < MaxTokens
  /\ token' = [token EXCEPT ![t] = counter]
  /\ Goto(t, "bump")
  /\ UNCHANGED <<names, map, text, raced, doubtful, around>>

BumpCounter(t) ==
  /\ pc[t] = "bump"
  /\ counter' = token[t] + 1
  /\ Goto(t, "make")
  /\ UNCHANGED <<names, forward, reverse, text, token, raced, doubtful, around>>

(* Mutant: the token is made from the number before the increment.         *)
MakeTokenEarly(t) ==
  /\ pc[t] = "make"
  /\ Goto(t, "forward")
  /\ UNCHANGED <<names, map, text, token, raced, doubtful, around>>

MakeToken(t) ==
  /\ pc[t] = "make"
  /\ token' = [token EXCEPT ![t] = counter]
  /\ Goto(t, "forward")
  /\ UNCHANGED <<names, map, text, raced, doubtful, around>>

SetForward(t) ==
  /\ pc[t] = "forward"
  /\ forward' = With(forward, text[t], token[t])
  /\ Goto(t, "reverse")
  /\ UNCHANGED <<names, reverse, counter, text, token, raced, doubtful, around>>

(* Mutant: the way back is forgotten.                                      *)
SetReverseForgotten(t) ==
  /\ pc[t] = "reverse"
  /\ Goto(t, "done")
  /\ UNCHANGED <<names, map, text, token, raced, doubtful, around>>

SetReverse(t) ==
  /\ pc[t] = "reverse"
  /\ reverse' = With(reverse, token[t], text[t])
  /\ doubtful' = IF t \in raced THEN doubtful \cup {token[t]} ELSE doubtful
  /\ Goto(t, "done")
  /\ UNCHANGED <<names, forward, counter, text, token, raced, around>>

-----------------------------------------------------------------------------

(* PATCH /accounts/{id}: the owner renames an account, to any string.  The *)
(* process serves it between two turns.                                    *)
Rename(a, s) ==
  /\ turn = "waiting"
  /\ a \in DOMAIN names
  /\ names' = [names EXCEPT ![a] = s]
  /\ foreign' = foreign \cup ({s} \cap Tokens)
  /\ UNCHANGED <<map, seen, turn, calls, shown, issued, doubtful, lost>>

(* The process dies and is restarted: the map is gone, not its tokens.     *)
Restart ==
  /\ turn' = "waiting"
  /\ NoCalls
  /\ ForgetMap
  /\ lost' = lost \cup seen
  /\ UNCHANGED <<names, seen, shown, foreign>>

(* Mutant: map and conversation drift out of sync.                         *)
ExpireMapOnly ==
  /\ turn = "waiting"
  /\ ForgetMap
  /\ UNCHANGED <<names, seen, turn, calls, shown, lost, foreign>>

(* The idle session is expired, its checkpoints with it.                   *)
ExpireSession ==
  /\ turn = "waiting"
  /\ seen' = {}
  /\ shown' = NoText
  /\ ForgetMap
  /\ UNCHANGED <<names, turn, calls, lost, foreign>>

Call(t) ==
  \/ Detokenise(t)
  \/ RunWrites(t) \/ RunReads(t) \/ RunFails(t)
  \/ LookUpKnown(t) \/ LookUpNew(t)
  \/ ReadCounter(t) \/ BumpCounter(t) \/ MakeToken(t)
  \/ SetForward(t) \/ SetReverse(t)

Next ==
  \/ \E mentioned \in SUBSET DOMAIN forward : Message(mentioned)
  \/ ModelCalls \/ ToolsDone
  \/ \E s \in Strings : ModelReplies(s)
  \/ \E t \in Threads : Call(t)
  \/ \E a \in Accounts, s \in Strings : Rename(a, s)
  \/ Restart
  \/ ExpireSession

Spec == Init /\ [][Next]_vars

-----------------------------------------------------------------------------
(* Properties                                                              *)

(* The variables have their types; what a call returns, or is about to     *)
(* register, is a string.                                                  *)
TypeOK ==
  /\ DOMAIN names \subseteq Accounts
  /\ \A a \in DOMAIN names : names[a] \in Strings
  /\ DOMAIN forward \subseteq Strings
  /\ \A s \in DOMAIN forward : forward[s] \in Tokens
  /\ DOMAIN reverse \subseteq Tokens
  /\ \A k \in DOMAIN reverse : reverse[k] \in Strings
  /\ counter \in 0 .. MaxTokens
  /\ seen \subseteq Tokens
  /\ turn \in {"waiting", "model", "tools"}
  /\ pc \in [Threads -> {"arguments", "run", "look_up", "count", "bump",
                         "make", "forward", "reverse", "done", "raised"}]
  /\ tool \in [Threads -> {"none", "read", "write"}]
  /\ account \in [Threads -> Accounts]
  /\ text \in [Threads -> Strings \cup {NoText}]
  /\ token \in [Threads -> 0 .. MaxTokens]
  /\ shown \in Strings \cup {NoText}
  /\ issued \subseteq Tokens \X Strings
  /\ doubtful \subseteq Tokens
  /\ raced \subseteq Threads
  /\ lost \cup foreign \subseteq Tokens

(* "A real value is swapped for a stable per-conversation token"           *)
(* (pii_guard.py:2-3): a token that was put into the conversation can be   *)
(* swapped back, to the value it was put there for, for as long as the map *)
(* lives and whatever is registered later - but for a token made while     *)
(* another call was making one.                                            *)
TokensKeepTheirMeaning ==
  \A i \in issued :
    \/ i[1] \in doubtful
    \/ i[1] \in DOMAIN reverse /\ reverse[i[1]] = i[2]

(* Tokens are "swapped back ... right before a tool actually executes"     *)
(* (pii_guard.py:4-5): whatever the threads do, a token stands in an       *)
(* account's name only if somebody used one that no map had put into the   *)
(* conversation, or if a restart lost the map that had.                    *)
OnlyForeignTokensStored ==
  \A a \in DOMAIN names : names[a] \in Tokens => names[a] \in lost \cup foreign

(* "... and in the final reply text shown to the user" (pii_guard.py:5-6): *)
(* the customer reads such tokens only.                                    *)
OnlyForeignTokensShown == shown \in Tokens => shown \in lost \cup foreign

(* The map gives what a vault of tokens promises.                          *)
ImplementsVault == Vault!Spec
=============================================================================
