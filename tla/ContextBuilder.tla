--------------------------- MODULE ContextBuilder ---------------------------
(***************************************************************************)
(* StandardContextBuilder of memory/context.py over an InMemoryMemoryStore *)
(* that other threads write: build() looks up each referenced record, then *)
(* searches, then cuts the conversation down to the token budget.  The     *)
(* store's lock is held within a look-up only.                             *)
(*                                                                         *)
(* A message is its role and its tokens (the structural overhead of        *)
(* estimate_message_tokens included).  The estimator is taken to be        *)
(* additive where the memory section is appended to the system message.    *)
(***************************************************************************)
EXTENDS InMemoryStore, FiniteSetsExt

CONSTANTS
  Conversations,     \* what State.messages may be
  RefLists,          \* what State.memory_refs may be
  MaxContextTokens,  \* max_context_tokens
  MaxMemoryRecords,  \* max_memory_records
  NoticeTokens,      \* tokens of the notice; 0 if truncate_notice is False
  HeaderTokens,      \* of the memory section without its records
  MaxWrites          \* bound: changes of the store

Message == [ role : { "system", "user", "other" }, tokens : Nat \ {0} ]

ASSUME ContextAssumption ==
  /\ Conversations \subseteq Seq(Message)
  /\ RefLists \subseteq Seq(Ids)
  /\ { MaxContextTokens, MaxMemoryRecords, NoticeTokens, HeaderTokens, MaxWrites }
       \subseteq Nat

VARIABLES
  pc,       \* of the thread in build(): "idle", "refs" or "built"
  msgs,     \* state.messages
  refs,     \* memory_refs still to look up
  found,    \* records_dict, in its order
  built,    \* the context: system (tokens), notice, kept (indices of msgs)
  writes,   \* changes of the store so far
  disturbed \* history: the store was changed since build() began

vars == << records, index, now, pc, msgs, refs, found, built, writes, disturbed >>

-----------------------------------------------------------------------------
(* _retrieve_memories *)

IdsOf(list) == { list[i].id : i \in DOMAIN list }

FoundIds == IdsOf(found)

\* records_dict[rec.id] = rec
Put(r) == IF r.id \in FoundIds
          THEN [ i \in DOMAIN found |-> IF found[i].id = r.id THEN r ELSE found[i] ]
          ELSE Append(found, r)

UserMessages == { i \in DOMAIN msgs : msgs[i].role = "user" }

\* Seeded fault: a search result is added although its id is there.
RetrievedTwice(hits) == IF UserMessages = {} THEN found ELSE found \o hits

\* References first, all of them; search results fill up to the limit.
Retrieved(hits) ==
  LET fill[n \in 0..Len(hits)] ==
        IF n = 0 THEN found
        ELSE IF hits[n].id \notin IdsOf(fill[n - 1]) /\ Len(fill[n - 1]) < MaxMemoryRecords
             THEN Append(fill[n - 1], hits[n]) ELSE fill[n - 1]
  IN IF UserMessages = {} THEN found ELSE fill[Len(hits)]

-----------------------------------------------------------------------------
(* build: the window *)

Tokens(S) == MapThenSumSet(LAMBDA i : msgs[i].tokens, S)

HasSystem == msgs # <<>> /\ msgs[1].role = "system"
History   == (IF HasSystem THEN 2 ELSE 1) .. Len(msgs)

SystemTokens(mem) ==
  (IF HasSystem THEN msgs[1].tokens ELSE 0)
  + (IF mem = <<>> THEN 0
     ELSE HeaderTokens + MapThenSumSet(LAMBDA i : mem[i].size, DOMAIN mem))

Minus(a, b) == IF a > b THEN a - b ELSE 0

\* The newest user message is kept whatever it costs.
LatestUser ==
  { i \in History : i \in UserMessages /\ \A j \in UserMessages : j <= i }

\* Seeded fault: it is kept only if it fits.
MandatoryIfItFits(budget) == { i \in LatestUser : msgs[i].tokens <= budget }

Mandatory(budget) == LatestUser

\* Seeded fault: the first message that does not fit ends the selection.
WindowStopping(budget) ==
  LET pick[i \in 1..Len(msgs) + 1] ==
        IF i > Len(msgs) THEN Mandatory(budget)
        ELSE IF /\ i \in History
                /\ History \cap (i+1..Len(msgs)) \subseteq pick[i + 1]
                /\ Tokens(pick[i + 1] \cup {i}) <= budget
             THEN pick[i + 1] \cup {i} ELSE pick[i + 1]
  IN pick[1]

\* From the newest message to the oldest, each one that still fits.
Window(budget) ==
  LET pick[i \in 1..Len(msgs) + 1] ==
        IF i > Len(msgs) THEN Mandatory(budget)
        ELSE IF i \in History /\ Tokens(pick[i + 1] \cup {i}) <= budget
             THEN pick[i + 1] \cup {i} ELSE pick[i + 1]
  IN pick[1]

\* Seeded fault: the notice is added to a selection that did not leave room.
SelectionBudgetNoNotice(available) == available

SelectionBudget(available) == Minus(available, NoticeTokens)

Context(mem) ==
  LET available == Minus(MaxContextTokens, SystemTokens(mem))
      window    == Window(SelectionBudget(available))
  IN IF Tokens(History) <= available
     THEN [ system |-> SystemTokens(mem), notice |-> 0, kept |-> History ]
     ELSE [ system |-> SystemTokens(mem),
            notice |-> IF window # History THEN NoticeTokens ELSE 0,
            kept   |-> IF window = {} THEN { Len(msgs) } ELSE window ]

-----------------------------------------------------------------------------
Init ==
  /\ StoreInit
  /\ pc = "idle"
  /\ msgs = <<>> /\ refs = <<>> /\ found = <<>>
  /\ built = [ system |-> 0, notice |-> 0, kept |-> {} ]
  /\ writes = 0
  /\ disturbed = FALSE

Build ==
  /\ pc = "idle"
  /\ msgs' \in Conversations
  /\ refs' \in RefLists
  /\ pc' = "refs"
  /\ disturbed' = FALSE
  /\ UNCHANGED << records, index, now, found, built, writes >>

LookUp ==
  /\ pc = "refs" /\ refs # <<>>
  /\ refs' = Tail(refs)
  /\ found' = IF Get(Head(refs)) = NoRecord THEN found ELSE Put(Get(Head(refs)))
  /\ UNCHANGED << records, index, now, pc, msgs, built, writes, disturbed >>

Compose ==
  /\ pc = "refs" /\ refs = <<>>
  /\ \E hits \in Search(MaxMemoryRecords) :
       /\ found' = Retrieved(hits)
       /\ built' = Context(Retrieved(hits))
  /\ pc' = "built"
  /\ UNCHANGED << records, index, now, msgs, refs, writes, disturbed >>

\* Other threads, and the clock.
Others ==
  /\ pc # "built"
  /\ \/ writes < MaxWrites /\ Change /\ writes' = writes + 1 /\ disturbed' = TRUE
     \/ Tick /\ UNCHANGED << writes, disturbed >>
  /\ UNCHANGED << pc, msgs, refs, found, built >>

Next == Build \/ LookUp \/ Compose \/ Others

Spec == Init /\ [][Next]_vars

-----------------------------------------------------------------------------
(* Properties *)

Total == built.system + built.notice + Tokens(built.kept)

\* All variables in their domains; a context holds only messages of the
\* conversation after the leading system message.
TypeOK ==
  /\ DOMAIN records \subseteq Ids
  /\ \A id \in DOMAIN records : records[id] \in Records /\ records[id].id = id
  /\ DOMAIN index \subseteq Slots
  /\ \A s \in DOMAIN index : index[s] \in Ids
  /\ now \in 0..MaxTime
  /\ pc \in { "idle", "refs", "built" }
  /\ msgs \in Conversations \cup { <<>> }
  /\ refs \in Seq(Ids)
  /\ found \in Seq(Records)
  /\ built.system \in Nat /\ built.notice \in { 0, NoticeTokens }
  /\ built.kept \subseteq History
  /\ writes \in 0..MaxWrites

\* However tight the budget, the context has the user's current question
\* (lines 166-181), and it is never empty of the conversation (line 209).
LatestUserKept ==
  pc = "built" => LatestUser \subseteq built.kept
                  /\ (History # {} => built.kept # {})

\* A context exceeds max_context_tokens only by what the builder adds
\* unconditionally: the system message with its memories, the notice, and one
\* message (lines 176-204).
OverBudgetOnlyByMandatory ==
  pc = "built" /\ Total > MaxContextTokens => Cardinality(built.kept) <= 1

\* A message is left out only if there was no room for it: the window is
\* maximal under the budget, the notice counted (lines 197-204).
NoNeedlessDrop ==
  pc = "built" =>
    \A i \in History \ built.kept :
      built.system + NoticeTokens + Tokens(built.kept \cup {i}) > MaxContextTokens

\* The memories of a context have distinct ids and, unless another thread
\* changed the store between the look-ups, distinct slots: no stale value is
\* shown beside the one that replaced it (lines 74-94; store.py line 42).
MemoriesFresh ==
  /\ Cardinality(FoundIds) = Len(found)
  /\ ~ disturbed => Cardinality({ found[i].slot : i \in DOMAIN found }) = Len(found)

\* max_context_tokens is a limit (docs/11-risk-register.md line 87: a hard
\* limit of the token budget).
HardBudget == pc = "built" => Total <= MaxContextTokens
=============================================================================
