--------------------------- MODULE ResponseStream ---------------------------
(***************************************************************************)
(* The answer of the model as the provider reads it from the connection    *)
(* (crates/llm/src/openai.rs, stream_messages and parse_sse_block) and the *)
(* agent collects it (respond in crates/agents/src/llm.rs; complete in     *)
(* crates/llm/src/lib.rs is the same loop).  The server sends events, each *)
(* a block of text closed by an empty line; the connection delivers them   *)
(* in chunks cut anywhere, also within a character or between the two      *)
(* newlines, and may fail.                                                 *)
(***************************************************************************)
EXTENDS Integers, SequencesExt, FiniteSetsExt

CONSTANTS
    ServerEvents,    \* the events a server may send: [kind, item, name, ok]
    Items,           \* the ids of function calls
    MaxEvents        \* bound: events in an answer

(* An event is text, blank text, the start, a piece or the end of a call,   *)
(* or another.  It has the name of its call or none, and the start has one. *)
EventKinds == {"text", "blank", "added", "delta", "done", "other"}
ASSUME StreamAssumption ==
    /\ MaxEvents \in Nat
    /\ \A e \in ServerEvents :
          /\ e.kind \in EventKinds /\ e.item \in Items /\ e.ok \in BOOLEAN
          /\ e.kind = "added" => e.name # ""

VARIABLES
    reply,      \* the events of the answer
    missing,    \* how many of the last newlines the server leaves out
    arrived,    \* units of text read from the connection
    buffer,     \* text not yet parsed
    names,      \* the names of the function calls begun; "" if unknown
    content,    \* the text collected
    call,       \* the first finished call
    status      \* "open", "closed", or what went wrong

streamVars == <<reply, missing, arrived, buffer, names, content, call, status>>

Texts == {"text", "blank"}
NoCall == [item |-> 0, name |-> ""]

(***************************************************************************)
(* The text on the connection.  A unit is the head of an event, which is   *)
(* its lines up to the text in it, one of the two bytes of that text's     *)
(* only character, or a newline that ends a block.                         *)
(***************************************************************************)
Newline == <<0, "newline">>
Body(i) ==
    IF reply[i].kind = "text" THEN <<<<i, "head">>, <<i, "lead">>, <<i, "tail">>>>
    ELSE <<<<i, "head">>>>
Sent ==
    LET sent[n \in 0 .. Len(reply)] ==
            IF n = 0 THEN <<>> ELSE sent[n - 1] \o (Body(n) \o <<Newline, Newline>>)
    IN  sent
Blocks == Sent[Len(reply)]
Wire == SubSeq(Blocks, 1, Len(Blocks) - missing)

(***************************************************************************)
(* Parsing                                                                 *)
(***************************************************************************)
BlockEnds(text) == {p \in 1 .. Len(text) - 1 : text[p] = Newline /\ text[p + 1] = Newline}
FirstBlock(text) == SubSeq(text, 1, Min(BlockEnds(text)) - 1)

(* A mutant: what follows the first block of a chunk is dropped with it.    *)
NothingRemains(text) == <<>>

Remainder(text) == SubSeq(text, Min(BlockEnds(text)) + 2, Len(text))

Trimmed(text) ==
    LET kept == {p \in DOMAIN text : text[p] # Newline}
    IN  IF kept = {} THEN <<>> ELSE SubSeq(text, Min(kept), Max(kept))

(* A block without the line that names its event says nothing; one that is *)
(* not a whole event holds no valid JSON.                                  *)
SaysNothing(block) == \A p \in DOMAIN block : block[p][2] # "head"
IsEvent(block) == ~ SaysNothing(block) /\ block = Body(block[1][1])

KnownName(e) == IF e.name # "" THEN e.name ELSE names[e.item]
Refuses(e) ==
    \/ e.kind \in {"delta", "done"} /\ KnownName(e) = ""
    \/ e.kind = "done" /\ ~ e.ok

(* What the agent does with an event: it collects text and takes the first *)
(* call; the start of a call and its pieces are only shown.                *)
Collect(e) ==
    /\ names' = IF e.kind = "added" THEN [names EXCEPT ![e.item] = e.name]
                ELSE IF e.kind = "done" THEN [names EXCEPT ![e.item] = ""]
                ELSE names
    /\ content' = IF e.kind \in Texts THEN Append(content, e.kind) ELSE content
    /\ call' = IF e.kind = "done" /\ call = NoCall
               THEN [item |-> e.item, name |-> KnownName(e)] ELSE call

Parse(block, next) ==
    IF SaysNothing(block)
    THEN status' = next /\ UNCHANGED <<names, content, call>>
    ELSE IF ~ IsEvent(block) \/ Refuses(reply[block[1][1]])
    THEN status' = "refused" /\ UNCHANGED <<names, content, call>>
    ELSE status' = next /\ Collect(reply[block[1][1]])

(***************************************************************************)
(* The stream                                                              *)
(***************************************************************************)
StreamInit ==
    /\ reply \in SeqOf(ServerEvents, MaxEvents) /\ missing \in {0, 1, 2}
    /\ missing <= 2 * Len(reply)
    /\ arrived = 0 /\ buffer = <<>>
    /\ names = [i \in Items |-> ""] /\ content = <<>> /\ call = NoCall
    /\ status = "open"

Reading == status = "open" /\ BlockEnds(buffer) = {}

(* A chunk must be UTF-8 by itself.                                        *)
ChunkArrives(n) ==
    LET chunk == SubSeq(Wire, arrived + 1, arrived + n)
    IN  /\ Reading /\ arrived + n <= Len(Wire)
        /\ arrived' = arrived + n
        /\ IF chunk[1][2] = "tail" \/ chunk[n][2] = "lead"
           THEN status' = "not UTF-8" /\ UNCHANGED buffer
           ELSE buffer' = buffer \o chunk /\ UNCHANGED status
        /\ UNCHANGED <<reply, missing, names, content, call>>

ParseBlock ==
    /\ status = "open" /\ BlockEnds(buffer) # {}
    /\ Parse(FirstBlock(buffer), "open")
    /\ buffer' = Remainder(buffer)
    /\ UNCHANGED <<reply, missing, arrived>>

(* At the end of the stream what is left is a block as well.               *)
StreamEnds ==
    /\ Reading /\ arrived = Len(Wire)
    /\ Parse(Trimmed(buffer), "closed")
    /\ buffer' = <<>>
    /\ UNCHANGED <<reply, missing, arrived>>

ConnectionFails ==
    /\ Reading
    /\ status' = "lost"
    /\ UNCHANGED <<reply, missing, arrived, buffer, names, content, call>>

StreamNext ==
    \/ \E n \in 1 .. 5 * MaxEvents : ChunkArrives(n)
    \/ ParseBlock \/ StreamEnds \/ ConnectionFails

StreamSpec == StreamInit /\ [][StreamNext]_streamVars

(* The agent's decision: the call, or the text as its final message.       *)
Response ==
    IF call # NoCall THEN <<"call", call>>
    ELSE IF \A p \in DOMAIN content : content[p] = "blank" THEN <<"message", <<"[empty response]">>>>
    ELSE <<"message", content>>

(***************************************************************************)
(* Properties                                                              *)
(***************************************************************************)
(* The name of the call that event k of an answer speaks of: its own, or   *)
(* the one the call was begun with last, if it has not been finished since. *)
Begun(k) ==
    {j \in 1 .. k - 1 :
        /\ reply[j].kind = "added" /\ reply[j].item = reply[k].item
        /\ \A i \in j + 1 .. k - 1 :
              reply[i].item = reply[k].item => reply[i].kind \notin {"added", "done"}}
HasName(k) == reply[k].name # "" \/ Begun(k) # {}
NameOf(k) == IF reply[k].name # "" THEN reply[k].name ELSE reply[CHOOSE j \in Begun(k) : TRUE].name

Malformed ==
    \E k \in DOMAIN reply :
        \/ reply[k].kind \in {"delta", "done"} /\ ~ HasName(k)
        \/ reply[k].kind = "done" /\ ~ reply[k].ok

(* The texts in the first events of the answer.                            *)
TextsTo ==
    LET texts[n \in 0 .. Len(reply)] ==
            IF n = 0 THEN <<>>
            ELSE IF reply[n].kind \in Texts THEN Append(texts[n - 1], reply[n].kind)
                 ELSE texts[n - 1]
    IN  texts
Answer ==
    LET finished == {k \in DOMAIN reply : reply[k].kind = "done"}
        text == TextsTo[Len(reply)]
    IN  IF finished # {}
        THEN <<"call", [item |-> reply[Min(finished)].item, name |-> NameOf(Min(finished))]>>
        ELSE IF "text" \in ToSet(text) THEN <<"message", text>>
        ELSE <<"message", <<"[empty response]">>>>

(* However the connection cuts the answer, the agent decides on all of it:  *)
(* every text in order, or the first call under the name it was begun with, *)
(* also when the last block is not closed.  A well-formed answer is refused *)
(* only if the connection fails, or cuts a character (openai.rs:121), and a *)
(* malformed one is never taken.                                            *)
AnswerIsWhole ==
    /\ status = "closed" => ~ Malformed /\ Response = Answer
    /\ status = "refused" => Malformed
    /\ status = "not UTF-8" => \E i \in DOMAIN reply : reply[i].kind = "text"
=============================================================================
