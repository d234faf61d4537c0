------------------------------- MODULE Memory -------------------------------
(***************************************************************************)
(* What the bot remembers (internal/memory, internal/personalization,      *)
(* internal/agent/memory.go): the recent messages of each conversation     *)
(* session, the lasting records, and the proposals to change them, which   *)
(* wait for "/memory confirm".  One person talks to the bot in several     *)
(* chats; the other members change the same workshop rule and composition. *)
(***************************************************************************)
EXTENDS Members, Naturals, SequencesExt

CONSTANTS
  Me,          \* whose chats these are
  Chat,        \* the person's chats: Telegram and the web
  Value,       \* what a record may say
  Nothing,     \* no record, no proposal
  Size,        \* token estimates of what may be said
  MaxTokens,   \* SHORT_TERM_MAX_TOKENS
  MaxMessages, \* SHORT_TERM_MAX_MESSAGES
  MaxSession   \* bound of the instance on the conversation sessions

VARIABLES
  session,     \* session[c]: the active conversation_sessions row, 0 when none
  started,     \* the number of sessions so far
  rows,        \* rows[c]: conversation_messages of that session, their tokens
  said,        \* said[c]: the tokens of the last MaxMessages messages said in it
  pending,     \* pending_actions of the person in this workshop
  shown,       \* the last proposal put to the person and neither answered nor expired
  kept         \* the records: long_term_memory, user_preferences, bom_items

talkVars == <<session, started, rows, said>>
memoryVars == <<memberVars, talkVars, pending, shown, kept>>

\* The workshop's rule, the person's preference, a quantity of a composition.
Subject == {"rule", "preference", "composition"}
Record == [Subject -> Value \cup {Nothing}]
\* Candidate: what the record will say; Nothing to switch it off.
Candidate == [of : Subject, value : Value \cup {Nothing}]
Proposal == [chat : Chat, session : 1 .. MaxSession, what : Candidate]

MemoryConstants ==
  /\ Me \in User
  /\ Nothing \notin Value \cup Proposal
  /\ {MaxTokens, MaxMessages, MaxSession} \subseteq Nat \ {0}
  /\ Size \subseteq Nat

-----------------------------------------------------------------------------
(* Short-term memory.                                                       *)

Total(s) == FoldSeq(+, 0, s)
LastOf(s, n) == SubSeq(s, Len(s) - n + 1, Len(s))

\* Variant TLC must refute: a long message is stored whole.
Whole(t) == t
\* AppendShortTerm: a message longer than the budget is cut.
Clipped(t) == IF t > MaxTokens THEN MaxTokens ELSE t

\* How many rows, from the newest back, come before the first that exceeds a limit.
Counted(s) ==
  LET fits(n) == n <= MaxMessages /\ Total(LastOf(s, n)) <= MaxTokens
  IN CHOOSE n \in 0 .. Len(s) :
       /\ \A k \in 1 .. n : fits(k)
       /\ n < Len(s) => ~fits(n + 1)

\* AppendShortTerm deletes what is older than the oldest row counted, if any.
Trimmed(s) == IF Counted(s) = 0 THEN s ELSE LastOf(s, Counted(s))
\* What the next prompt and the references of the next message are built from.
ShortTerm(c) == LastOf(rows[c], Counted(rows[c]))

\* AppendShortTerm for the question, the answer, or both: each in a transaction
\* of its own, and a failed one is only noted in the trace.
Says(c) ==
  \E sizes \in {<<>>} \cup {<<t>> : t \in Size} \cup (Size \X Size) :
    LET one == IF sizes = <<>> THEN rows[c]
               ELSE Trimmed(Append(rows[c], Clipped(sizes[1])))
        both == IF Len(sizes) < 2 THEN one ELSE Trimmed(Append(one, Clipped(sizes[2])))
        all == said[c] \o [i \in DOMAIN sizes |->
                             IF sizes[i] > MaxTokens THEN MaxTokens ELSE sizes[i]]
    IN /\ rows' = [rows EXCEPT ![c] = both]
       /\ said' = [said EXCEPT ![c] =
                     IF Len(all) > MaxMessages THEN LastOf(all, MaxMessages) ELSE all]

-----------------------------------------------------------------------------
(* Sessions.                                                                *)

Begin(c) ==
  /\ started < MaxSession
  /\ started' = started + 1
  /\ session' = [session EXCEPT ![c] = started + 1]

\* EnsureSession, at the head of every message.
Greet(c) ==
  /\ Authorized(Me) /\ session[c] = 0
  /\ Begin(c)
  /\ UNCHANGED <<memberVars, rows, said, pending, shown, kept>>

InSession(c) == Authorized(Me) /\ session[c] # 0

\* A session's messages are read only while it is active.
Forget(cs) ==
  /\ rows' = [c \in Chat |-> IF c \in cs THEN <<>> ELSE rows[c]]
  /\ said' = [c \in Chat |-> IF c \in cs THEN <<>> ELSE said[c]]

\* /session new: EndSession and EnsureSession.
NewSession(c) ==
  /\ InSession(c)
  /\ \/ Begin(c)
     \/ session' = [session EXCEPT ![c] = 0] /\ UNCHANGED started
  /\ Forget({c})
  /\ UNCHANGED <<memberVars, pending, shown, kept>>

\* The proposals put in other chats.
OfOtherChats(c) ==
  FoldLeft(LAMBDA others, p : IF p.chat = c THEN others ELSE Append(others, p),
           <<>>, pending)

\* clearChat.
Clear(c) ==
  /\ session' = [session EXCEPT ![c] = 0] /\ UNCHANGED started
  /\ Forget({c})
  /\ pending' = OfOtherChats(c)
  /\ UNCHANGED <<memberVars, shown, kept>>

\* setActive closes every session of the person.
Switch ==
  /\ SelectHere(Me) \/ SelectElsewhere(Me)
  /\ session' = [c \in Chat |-> 0] /\ UNCHANGED started
  /\ Forget(Chat)
  /\ UNCHANGED <<pending, shown, kept>>

-----------------------------------------------------------------------------
(* Proposals.                                                               *)

\* A message without a proposal.
Talk(c) ==
  /\ InSession(c)
  /\ Says(c)
  /\ UNCHANGED <<memberVars, session, started, pending, shown, kept>>

Needs(what) ==
  CASE what.of = "rule" -> "workshop.settings.manage"
    [] what.of = "composition" -> "bom.write"
    [] OTHER -> "workshop.read"

\* Variant TLC must refute: the earlier proposal stays.
Added(p) == Append(pending, p)
\* Propose: one proposal per person and workshop, whatever the chat.
Replaced(p) == <<p>>

\* HandleMessageForWorkshop and "/memory forget", which asks for no right: only a
\* composition's row cannot be switched off here.
Propose(c) ==
  /\ InSession(c)
  /\ \E what \in Candidate :
       /\ what.value = Nothing => what.of # "composition"
       /\ what.value # Nothing => Can(Me, Needs(what))
       /\ LET p == [chat |-> c, session |-> session[c], what |-> what]
          IN pending' = Replaced(p) /\ shown' = p
       /\ IF what.value = Nothing THEN UNCHANGED <<rows, said>> ELSE Says(c)
  /\ UNCHANGED <<memberVars, session, started, kept>>

\* TakeProposal: the newest of the chat, if it was made in this session.
Newest(c) ==
  LET own == {i \in DOMAIN pending : pending[i].chat = c}
  IN IF own = {} THEN 0 ELSE CHOOSE i \in own : \A j \in own : j <= i
Takes(c) ==
  /\ InSession(c)
  /\ Newest(c) # 0 /\ pending[Newest(c)].session = session[c]
  /\ pending' = RemoveAt(pending, Newest(c))
  /\ shown' = Nothing

\* The transactions of a confirmation ask for the right again.
\* SaveLongTermMemory, UpdateTx, SetBOMQuantity.
Saves(what) ==
  /\ what.value # Nothing
  /\ Can(Me, Needs(what))
  /\ kept' = [kept EXCEPT ![what.of] = what.value]

\* DeactivateLongTermMemory.
SwitchesOff(what) ==
  /\ what = [of |-> "rule", value |-> Nothing]
  /\ Can(Me, Needs(what))
  /\ kept.rule # Nothing
  /\ kept' = [kept EXCEPT !.rule = Nothing]

ForgetPreference(what) ==
  /\ what = [of |-> "preference", value |-> Nothing]
  /\ kept' = [kept EXCEPT !.preference = Nothing]

\* "/memory confirm": the proposal is taken, and then the record is changed; the
\* second transaction may be refused or never come.
Confirm(c) ==
  /\ Takes(c)
  /\ LET what == pending[Newest(c)].what
     IN Saves(what) \/ SwitchesOff(what) \/ ForgetPreference(what) \/ UNCHANGED kept
  /\ UNCHANGED <<memberVars, talkVars>>

Cancel(c) ==
  /\ Takes(c)
  /\ UNCHANGED <<memberVars, talkVars, kept>>

\* Fifteen minutes pass.
Expire ==
  /\ \E i \in DOMAIN pending :
       /\ pending' = RemoveAt(pending, i)
       /\ shown' = IF shown = pending[i] THEN Nothing ELSE shown
  /\ UNCHANGED <<memberVars, talkVars, kept>>

\* profile_set, profile_reset and "always answer briefly": no proposal.
SetPreference ==
  /\ \E v \in Value : kept' = [kept EXCEPT !["preference"] = v]
  /\ UNCHANGED <<memberVars, talkVars, pending, shown>>

\* The other members save and switch off the rule, and edit the composition.
OthersSave ==
  /\ \E u \in User \ {Me}, s \in {"rule", "composition"}, v \in Value \cup {Nothing} :
       /\ Can(u, Needs([of |-> s, value |-> v]))
       /\ kept' = [kept EXCEPT ![s] = v]
  /\ UNCHANGED <<memberVars, talkVars, pending, shown>>

RoleChange ==
  /\ MemberStep \/ LoseContext(Me)
  /\ UNCHANGED <<talkVars, pending, shown, kept>>

MemoryInit ==
  /\ \E owner \in User \ {Me} : MembersInit(owner)
  /\ session = [c \in Chat |-> 0] /\ started = 0
  /\ rows = [c \in Chat |-> <<>>] /\ said = [c \in Chat |-> <<>>]
  /\ pending = <<>> /\ shown = Nothing
  /\ kept = [s \in Subject |-> Nothing]

MemoryNext ==
  \/ \E c \in Chat : \/ Greet(c) \/ NewSession(c) \/ Clear(c)
                     \/ Talk(c) \/ Propose(c) \/ Confirm(c) \/ Cancel(c)
  \/ Switch \/ Expire \/ SetPreference \/ OthersSave \/ RoleChange

MemorySpec == MemoryInit /\ [][MemoryNext]_memoryVars

-----------------------------------------------------------------------------
MemoryTypeOK ==
  /\ MembersTypeOK
  /\ session \in [Chat -> 0 .. MaxSession] /\ started \in 0 .. MaxSession
  /\ \A c \in Chat : Len(rows[c]) <= MaxMessages /\ Len(said[c]) <= MaxMessages
  /\ \A i \in DOMAIN pending : pending[i] \in Proposal
  /\ shown \in Proposal \cup {Nothing}
  /\ kept \in Record

(* What is read of a session is the longest run of its last messages that     *)
(* respects both limits, however the rows were trimmed after each of them,    *)
(* and the newest message is always part of it (AppendShortTerm, ShortTerm).  *)
HistoryIsRecent ==
  \A c \in Chat :
    LET fits(n) == Total(LastOf(said[c], n)) <= MaxTokens
    IN \E n \in 0 .. Len(said[c]) :
         /\ ShortTerm(c) = LastOf(said[c], n) /\ fits(n)
         /\ n < Len(said[c]) => n > 0 /\ ~fits(n + 1)

(* And everything has its type.                                               *)
HistoriesAgree == MemoryTypeOK /\ HistoryIsRecent

SavesAsProposed ==
  pending' # pending =>
    /\ shown # Nothing /\ shown' = Nothing
    /\ session[shown.chat] = shown.session
    /\ Authorized(Me) /\ Can(Me, Needs(shown.what))
    /\ kept' = [kept EXCEPT ![shown.what.of] = shown.what.value]

(* A confirmation changes a record only as the last proposal put to the       *)
(* person says, once, in the session it was made in, before it expired, and   *)
(* by somebody who has the right at that moment: not by an earlier proposal   *)
(* that another one replaced, in whichever chat (Propose, TakeProposal;       *)
(* docs/day11-memory.md: a new session does not confirm an old proposal).     *)
SavedAsProposed == [][SavesAsProposed]_kept
=============================================================================
