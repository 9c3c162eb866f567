------------------------------ MODULE Assistant ------------------------------
(***************************************************************************)
(* The rule-based assistant (rust/src/ai/assistant.rs): a conversation     *)
(* history of bounded length and the rules that pick an answer.            *)
(*                                                                         *)
(* A query is the set of the rules' key words that occur in it, in one     *)
(* language; texts are left out.  A key word also occurs inside others:    *)
(* "hi" in "this" and "which", "encrypt" in "encryption".                  *)
(***************************************************************************)
EXTENDS Naturals, Sequences, FiniteSets

CONSTANTS
    max_history,  \* 20 in the code
    Titles,       \* titles of knowledge entries, words of the query like others
    MaxTurns      \* bound: entries made by chat

AssistantAssumption == max_history \in Nat \ {0} /\ MaxTurns \in Nat

VARIABLES
    conversation_history,  \* [role, turn]; turn 0 for an entry that chat did not make
    knowledge_base,        \* the titles added
    turns,                 \* calls of chat
    last                   \* the last query and what it was answered with

vars == <<conversation_history, knowledge_base, turns, last>>

Phrases == {"this", "hi", "what is zero", "encryption", "encrypt", "wallet", "btc",
            "network", "identity", "privacy"} \cup Titles

Occurring(q) ==
    q \cup (IF "this" \in q THEN {"hi"} ELSE {})
      \cup (IF "encryption" \in q THEN {"encrypt"} ELSE {})

\* build_context: the topics with something to say, and the entries whose title the
\* query contains.  (Queries that are a part of a title are left out.)
build_context(q) ==
    {t \in {"encrypt", "network", "identity", "privacy"} : t \in q}
    \cup (IF q \cap {"wallet", "btc"} # {} THEN {"wallet"} ELSE {})
    \cup (q \cap knowledge_base)

\* Slip: the context is looked at only for queries about the wallet.
generate_response_without_context(q, context) ==
    CASE "hi" \in q -> "greeting"
      [] "hi" \notin q /\ "what is zero" \in q -> "zero"
      [] q \cap {"hi", "what is zero"} = {} /\ "encrypt" \in q -> "encryption"
      [] q \cap {"hi", "what is zero", "encrypt"} = {} /\ "wallet" \in q -> "wallet"
      [] OTHER -> "help"

\* generate_response: the first rule that matches.
generate_response(q, context) ==
    CASE "hi" \in q -> "greeting"
      [] "hi" \notin q /\ "what is zero" \in q -> "zero"
      [] q \cap {"hi", "what is zero"} = {} /\ "encrypt" \in q -> "encryption"
      [] q \cap {"hi", "what is zero", "encrypt"} = {} /\ "wallet" \in q -> "wallet"
      [] OTHER -> IF context # {} THEN "knowledge" ELSE "help"

\* simulate_ai_response of the integration tests, with rules of its own.
simulate_ai_response(q) ==
    CASE "encrypt" \in q -> "encryption"
      [] "encrypt" \notin q /\ "wallet" \in q -> "wallet"
      [] q \cap {"encrypt", "wallet"} = {} /\ "hi" \in q -> "greeting"
      [] OTHER -> "help"

\* Pushed first; then, when there is one too many, the oldest is removed.
add_to_history(h, entry) ==
    IF Len(h) + 1 > max_history THEN Tail(Append(h, entry)) ELSE Append(h, entry)

Entry(role, turn) == [role |-> role, turn |-> turn]

Init ==
    /\ conversation_history = <<>>
    /\ knowledge_base = {}
    /\ turns = 0
    /\ last = [query |-> {}, response |-> "help"]

chat(words) ==
    /\ turns < MaxTurns
    /\ turns' = turns + 1
    /\ LET q == Occurring(words)
           asked == add_to_history(conversation_history, Entry("user", turns')) IN
        /\ conversation_history' = add_to_history(asked, Entry("assistant", turns'))
        /\ last' = [query |-> q, response |-> generate_response(q, build_context(q))]
    /\ UNCHANGED knowledge_base

\* An entry added by a caller other than chat.
AddToHistory(role) ==
    /\ conversation_history' = add_to_history(conversation_history, Entry(role, 0))
    /\ UNCHANGED <<knowledge_base, turns, last>>

clear_history ==
    /\ conversation_history' = <<>>
    /\ UNCHANGED <<knowledge_base, turns, last>>

add_knowledge(t) ==
    /\ knowledge_base' = knowledge_base \cup {t}
    /\ UNCHANGED <<conversation_history, turns, last>>

Next ==
    \/ \E words \in SUBSET Phrases : Cardinality(words) <= 2 /\ chat(words)
    \/ \E role \in {"user", "assistant"} : AddToHistory(role)
    \/ clear_history
    \/ \E t \in Titles : add_knowledge(t)

Spec == Init /\ [][Next]_vars

-----------------------------------------------------------------------------
\* A question that is still in the history has its answer right after it, and an
\* answer has its question right before it unless it is the oldest entry: dropping
\* old entries never leaves a question unanswered.
AnswersFollowQuestions ==
    LET h == conversation_history IN
    \A i \in 1..Len(h) : h[i].turn > 0 =>
        IF h[i].role = "user"
        THEN i < Len(h) /\ h[i + 1] = Entry("assistant", h[i].turn)
        ELSE i = 1 \/ h[i - 1] = Entry("user", h[i].turn)

\* A query about one of the seven topics that are built in is not sent away with the
\* general help text; a greeting in it, or the word "this", hides its topic.  Nothing
\* is said of entries that were added to the knowledge base.
KnownTopicIsAnswered ==
    last.query \cap {"what is zero", "encrypt", "wallet", "btc", "network",
                    "identity", "privacy"} # {} =>
        last.response # "help"

\* The integration tests check the rules on a copy: the assistant answers as it does.
AnswersAsTheTests ==
    last.query \cap {"encrypt", "wallet"} # {} =>
        last.response = simulate_ai_response(last.query)

\* The history implements a bounded queue that drops its oldest; a chat brings two.
History == INSTANCE BoundedQueue WITH
    Items <- [role : {"user", "assistant"}, turn : 0..MaxTurns],
    Capacity <- max_history, Burst <- 2, queue <- conversation_history
IsBoundedQueue == History!Spec
==============================================================================
