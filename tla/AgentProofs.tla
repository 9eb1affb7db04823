---------------------------- MODULE AgentProofs -----------------------------
(***************************************************************************)
(* Proofs about the agent and what it leaves behind: that it decides on    *)
(* the whole answer of its model, that the model is shown calls and        *)
(* results that pair up, and that a passing verdict on its trajectories    *)
(* means what the evaluation says.                                         *)
(***************************************************************************)
EXTENDS ResponseStream, AgentPrompt, Evaluation, LoopTheorems, FiniteSetTheorems, SequenceTheorems

(***************************************************************************)
(* THE ANSWER OF THE MODEL                                                 *)
(***************************************************************************)
(* That the agent decides on the whole answer of its model, for answers of *)
(* any length, cut anywhere.  The text on the connection is made of blocks;*)
(* the buffer always begins where a block does, and what was collected is  *)
(* what the blocks before it say.                                          *)
(***************************************************************************)

(***************************************************************************)
(* The text on the connection                                              *)
(***************************************************************************)
Units == Nat \X {"head", "lead", "tail", "newline"}

LEMMA BodyIs ==
    ASSUME NEW i \in Nat, i # 0
    PROVE  /\ Body(i) \in Seq(Units) /\ Len(Body(i)) \in Nat /\ Len(Body(i)) >= 1
           /\ Body(i)[1] = <<i, "head">>
           /\ \A p \in 1 .. Len(Body(i)) : Body(i)[p] # Newline
           /\ \A p \in 1 .. Len(Body(i)) :
                Body(i)[p][2] \in {"lead", "tail"} => reply[i].kind = "text"
<1>1. <<i, "head">> \in Units /\ <<i, "lead">> \in Units /\ <<i, "tail">> \in Units BY DEF Units
<1>2. /\ <<i, "head">> # Newline /\ <<i, "lead">> # Newline /\ <<i, "tail">> # Newline
  BY DEF Newline
<1>3. CASE reply[i].kind = "text"
  <2> DEFINE s == <<<<i, "head">>, <<i, "lead">>, <<i, "tail">>>>
  <2>1. Body(i) = s BY <1>3 DEF Body
  <2>2. s \in Seq(Units) BY <1>1
  <2>3. Len(s) = 3 /\ s[1] = <<i, "head">> /\ s[2] = <<i, "lead">> /\ s[3] = <<i, "tail">>
    OBVIOUS
  <2> HIDE DEF s
  <2>4. \A p \in 1 .. 3 : p = 1 \/ p = 2 \/ p = 3 OBVIOUS
  <2>5. \A p \in 1 .. 3 : s[p] # Newline BY <1>2, <2>3, <2>4
  <2>6. QED BY <1>3, <2>1, <2>2, <2>3, <2>5
<1>4. CASE reply[i].kind # "text"
  <2> DEFINE s == <<<<i, "head">>>>
  <2>1. Body(i) = s BY <1>4 DEF Body
  <2>2. s \in Seq(Units) BY <1>1
  <2>3. Len(s) = 1 /\ s[1] = <<i, "head">> OBVIOUS
  <2>4. s[1][2] = "head" OBVIOUS
  <2> HIDE DEF s
  <2>5. \A p \in 1 .. 1 : p = 1 OBVIOUS
  <2>6. \A p \in 1 .. 1 : s[p] # Newline BY <1>2, <2>3, <2>5
  <2>7. \A p \in 1 .. 1 : s[p][2] \notin {"lead", "tail"} BY <2>4, <2>5
  <2>8. QED BY <2>1, <2>2, <2>3, <2>6, <2>7
<1>5. QED BY <1>3, <1>4

(* A block is closed by an empty line.                                     *)
Block(n) == Body(n) \o <<Newline, Newline>>

LEMMA BlockIs ==
    ASSUME NEW n \in Nat, n # 0
    PROVE  /\ Block(n) \in Seq(Units) /\ Len(Block(n)) = Len(Body(n)) + 2
           /\ \A p \in 1 .. Len(Body(n)) : Block(n)[p] = Body(n)[p]
           /\ Block(n)[Len(Body(n)) + 1] = Newline /\ Block(n)[Len(Body(n)) + 2] = Newline
<1> DEFINE b == Body(n) e == <<Newline, Newline>>
<1>1. b \in Seq(Units) /\ Len(b) \in Nat BY BodyIs
<1>2. Newline \in Units BY DEF Newline, Units
<1>3. e \in Seq(Units) /\ Len(e) = 2 /\ e[1] = Newline /\ e[2] = Newline BY <1>2
<1>4. Block(n) = b \o e BY DEF Block
<1> HIDE DEF b, e
<1>5. /\ b \o e \in Seq(Units) /\ Len(b \o e) = Len(b) + Len(e)
      /\ \A p \in 1 .. Len(b) + Len(e) :
           (b \o e)[p] = IF p <= Len(b) THEN b[p] ELSE e[p - Len(b)]
  BY <1>1, <1>3, ConcatProperties
<1>6. \A p \in 1 .. Len(b) : (b \o e)[p] = b[p] BY <1>1, <1>3, <1>5
<1>7. (b \o e)[Len(b) + 1] = Newline
  <2>1. /\ Len(b) + 1 \in 1 .. Len(b) + Len(e) /\ ~ (Len(b) + 1 <= Len(b))
        /\ Len(b) + 1 - Len(b) = 1
    BY <1>1, <1>3
  <2>2. QED BY <1>3, <1>5, <2>1
<1>8. (b \o e)[Len(b) + 2] = Newline
  <2>1. /\ Len(b) + 2 \in 1 .. Len(b) + Len(e) /\ ~ (Len(b) + 2 <= Len(b))
        /\ Len(b) + 2 - Len(b) = 2
    BY <1>1, <1>3
  <2>2. QED BY <1>3, <1>5, <2>1
<1>9. QED BY <1>3, <1>4, <1>5, <1>6, <1>7, <1>8 DEF b

(* The blocks, one after the other.                                        *)
LEMMA SentIs ==
    ASSUME reply \in Seq(ServerEvents)
    PROVE  /\ Sent \in [0 .. Len(reply) -> Seq(Units)] /\ Sent[0] = <<>>
           /\ \A n \in 1 .. Len(reply) : Sent[n] = Sent[n - 1] \o Block(n)
<1> DEFINE N == Len(reply)
           F == [n \in 1 .. N |-> [s \in Seq(Units) |-> s \o Block(n)]]
           Turn(k, n) == IF n = 0 THEN <<>> ELSE k[n - 1] \o Block(n)
           Made(k) == k = [n \in 0 .. N |-> Turn(k, n)]
<1>1. N \in Nat BY LenProperties
<1>2. F \in [1 .. N -> [Seq(Units) -> Seq(Units)]]
  <2>1. \A n \in 1 .. N : n \in Nat /\ n # 0 BY <1>1
  <2>2. ASSUME NEW n \in 1 .. N, NEW s \in Seq(Units) PROVE s \o Block(n) \in Seq(Units)
    BY <2>1, BlockIs, ConcatProperties
  <2> HIDE DEF N
  <2>3. QED BY <2>2
<1>3. \A n \in 1 .. N, s \in Seq(Units) : F[n][s] = s \o Block(n) OBVIOUS
<1>4. Sent = CHOOSE k : Made(k) BY DEF Sent, Block
<1> HIDE DEF F, N
<1>5. <<>> \in Seq(Units) OBVIOUS
<1>6. PICK g : IsLoop(g, N, Seq(Units), <<>>, F) BY <1>1, <1>2, <1>5, LoopExists
<1>7. g \in [0 .. N -> Seq(Units)] /\ g[0] = <<>> BY <1>6 DEF IsLoop
<1>8. ASSUME NEW n \in 1 .. N PROVE g[n] = g[n - 1] \o Block(n)
  <2>1. n - 1 \in 0 .. N BY <1>1
  <2>2. g[n - 1] \in Seq(Units) BY <1>7, <2>1
  <2>3. QED BY <1>3, <1>6, <2>2 DEF IsLoop
<1>9. ASSUME NEW n \in 0 .. N PROVE g[n] = Turn(g, n)
  <2>1. CASE n = 0 BY <1>7, <2>1
  <2>2. CASE n # 0
    <3>1. n \in 1 .. N BY <1>1, <2>2
    <3>2. QED BY <1>8, <2>2, <3>1
  <2>3. QED BY <2>1, <2>2
<1>10. Made(g)
  <2> HIDE DEF Turn
  <2>1. QED BY <1>7, <1>9
<1>11. Made(Sent)
  <2> HIDE DEF Made
  <2>1. QED BY <1>4, <1>10
<1> DEFINE S == {n \in 0 .. N : Sent[n] = g[n]}
<1>12. 0 \in S BY <1>1, <1>7, <1>11
<1>13. ASSUME NEW n \in 1 .. N, n - 1 \in S PROVE n \in S
  <2>1. n \in 0 .. N BY <1>1
  <2>2. Sent[n] = Turn(Sent, n) BY <1>11, <2>1
  <2>3. Turn(Sent, n) = Turn(g, n) BY <1>13
  <2> HIDE DEF Turn
  <2>4. QED BY <1>9, <2>1, <2>2, <2>3
<1> HIDE DEF S
<1>14. \A n \in 0 .. N : n \in S BY <1>1, <1>12, <1>13, BoundedInduction
<1>15. \A n \in 0 .. N : Sent[n] = g[n] BY <1>14 DEF S
<1>16. Sent = g
  <2>1. Sent = [n \in 0 .. N |-> Sent[n]] BY <1>11
  <2>2. QED BY <1>7, <1>15, <2>1
<1>17. QED BY <1>7, <1>8, <1>16 DEF N

(* Where the first n blocks end.                                           *)
Offset(n) == Len(Sent[n])

LEMMA OffsetIs ==
    ASSUME reply \in Seq(ServerEvents)
    PROVE  /\ \A n \in 0 .. Len(reply) : Offset(n) \in Nat
           /\ Offset(0) = 0 /\ Len(Blocks) = Offset(Len(reply)) /\ Blocks \in Seq(Units)
           /\ \A n \in 1 .. Len(reply) : Offset(n) = Offset(n - 1) + (Len(Body(n)) + 2)
<1>1. Len(reply) \in Nat BY LenProperties
<1>2. \A n \in 0 .. Len(reply) : Sent[n] \in Seq(Units) /\ Offset(n) \in Nat
  BY SentIs, LenProperties DEF Offset
<1>3. Offset(0) = 0 BY SentIs DEF Offset
<1>4. ASSUME NEW n \in 1 .. Len(reply) PROVE Offset(n) = Offset(n - 1) + (Len(Body(n)) + 2)
  <2>1. n \in Nat /\ n # 0 /\ n - 1 \in 0 .. Len(reply) BY <1>1
  <2>2. Sent[n - 1] \in Seq(Units) /\ Block(n) \in Seq(Units) /\ Len(Block(n)) = Len(Body(n)) + 2
    BY <1>2, <2>1, BlockIs
  <2>3. Sent[n] = Sent[n - 1] \o Block(n) BY SentIs
  <2>4. Len(Sent[n - 1] \o Block(n)) = Len(Sent[n - 1]) + Len(Block(n))
    BY <2>2, ConcatProperties
  <2>5. QED BY <2>2, <2>3, <2>4 DEF Offset
<1>5. Len(reply) \in 0 .. Len(reply) BY <1>1
<1>6. Blocks \in Seq(Units) /\ Len(Blocks) = Offset(Len(reply)) BY <1>2, <1>5 DEF Blocks, Offset
<1>7. QED BY <1>2, <1>3, <1>4, <1>6

(* Every block is found after the ones before it.                          *)
LEMMA BlocksAt ==
    ASSUME reply \in Seq(ServerEvents), NEW n \in 1 .. Len(reply)
    PROVE  /\ Offset(n) <= Len(Blocks)
           /\ \A p \in 1 .. Len(Body(n)) + 2 : Blocks[Offset(n - 1) + p] = Block(n)[p]
<1> DEFINE N == Len(reply) b == Len(Body(n)) + 2
           Has(m) == /\ Offset(n) <= Offset(m)
                     /\ \A p \in 1 .. b : Sent[m][Offset(n - 1) + p] = Block(n)[p]
           S == {m \in 0 .. N : n <= m => Has(m)}
<1>1. N \in Nat /\ n \in Nat /\ n # 0 BY LenProperties
<1>2. /\ Len(Body(n)) \in Nat /\ Block(n) \in Seq(Units) /\ Len(Block(n)) = b
  BY <1>1, BodyIs, BlockIs
<1>3. /\ \A m \in 0 .. N : Offset(m) \in Nat /\ Sent[m] \in Seq(Units) /\ Len(Sent[m]) = Offset(m)
      /\ Offset(n) = Offset(n - 1) + b
  BY OffsetIs, SentIs DEF Offset
<1> HIDE DEF N, b
<1>4. n - 1 \in 0 .. N BY <1>1 DEF N
<1>5. 0 \in S BY <1>1
<1>6. ASSUME NEW m \in 1 .. N, m - 1 \in S PROVE m \in S
  <2>1. SUFFICES ASSUME n <= m PROVE Has(m) BY <1>1
  <2>2. m \in Nat /\ m # 0 /\ m - 1 \in 0 .. N /\ m \in 0 .. N BY <1>1
  <2>3. /\ Block(m) \in Seq(Units) /\ Len(Block(m)) = Len(Body(m)) + 2 /\ Len(Body(m)) \in Nat
    BY <2>2, BodyIs, BlockIs
  <2> DEFINE s == Sent[m - 1] t == Block(m)
  <2>4. Sent[m] = s \o t BY SentIs DEF N
  <2>5. s \in Seq(Units) /\ Len(s) = Offset(m - 1) /\ Offset(m - 1) \in Nat BY <1>3, <2>2
  <2>6. t \in Seq(Units) /\ Len(t) \in Nat BY <2>3
  <2> HIDE DEF s, t
  <2>7. /\ Len(s \o t) = Len(s) + Len(t)
        /\ \A p \in 1 .. Len(s) + Len(t) :
             (s \o t)[p] = IF p <= Len(s) THEN s[p] ELSE t[p - Len(s)]
    BY <2>5, <2>6, ConcatProperties
  <2>8. Offset(m) = Offset(m - 1) + Len(t) BY <1>3, <2>2, <2>4, <2>5, <2>7
  <2>9. CASE n = m
    <3>1. t = Block(n) /\ s = Sent[n - 1] /\ Len(t) = b BY <1>2, <2>9 DEF s, t
    <3>2. Offset(n - 1) = Len(s) BY <2>5, <2>9
    <3>3. ASSUME NEW p \in 1 .. b PROVE Sent[m][Offset(n - 1) + p] = Block(n)[p]
      <4>1. /\ Len(s) + p \in 1 .. Len(s) + Len(t) /\ ~ (Len(s) + p <= Len(s))
            /\ Len(s) + p - Len(s) = p
        BY <2>5, <2>6, <3>1
      <4>2. (s \o t)[Len(s) + p] = t[p] BY <2>7, <4>1
      <4>3. QED BY <2>4, <3>1, <3>2, <4>2
    <3>4. Offset(n) <= Offset(m) BY <1>3, <2>2, <2>9
    <3>5. QED BY <3>3, <3>4
  <2>10. CASE n # m
    <3>1. n <= m - 1 BY <1>1, <2>1, <2>2, <2>10
    <3>2. Has(m - 1) BY <1>6, <3>1
    <3>3. Offset(n) <= Offset(m)
      <4>1. Offset(n) <= Offset(m - 1) BY <3>2
      <4>2. n \in 0 .. N BY <1>1 DEF N
      <4>3. Offset(n) \in Nat BY <1>3, <4>2
      <4>4. QED BY <2>5, <2>6, <2>8, <4>1, <4>3
    <3>4. ASSUME NEW p \in 1 .. b PROVE Sent[m][Offset(n - 1) + p] = Block(n)[p]
      <4>1. Offset(n - 1) \in Nat BY <1>3, <1>4
      <4>2. Offset(n - 1) + b <= Len(s) BY <1>3, <2>5, <3>2
      <4>3. b \in Nat BY <1>2 DEF b
      <4>4. Offset(n - 1) + p \in 1 .. Len(s) + Len(t) /\ Offset(n - 1) + p <= Len(s)
        BY <2>5, <2>6, <4>1, <4>2, <4>3
      <4>5. (s \o t)[Offset(n - 1) + p] = s[Offset(n - 1) + p] BY <2>7, <4>4
      <4>6. s[Offset(n - 1) + p] = Block(n)[p] BY <3>2 DEF s
      <4>7. QED BY <2>4, <4>5, <4>6
    <3>5. QED BY <3>3, <3>4
  <2>11. QED BY <2>9, <2>10
<1> HIDE DEF S
<1>7. \A m \in 0 .. N : m \in S BY <1>1, <1>5, <1>6, BoundedInduction
<1>8. n <= N /\ N \in 0 .. N BY <1>1 DEF N
<1>9. Has(N) BY <1>7, <1>8 DEF S
<1>10. Blocks = Sent[N] /\ Len(Blocks) = Offset(N) BY OffsetIs DEF Blocks, N
<1>11. QED BY <1>9, <1>10 DEF b

(* The bytes of a character are in the block of a text.                    *)
LEMMA BytesAreOfTexts ==
    ASSUME reply \in Seq(ServerEvents), NEW q \in 1 .. Len(Blocks),
           Blocks[q][2] \in {"lead", "tail"}
    PROVE  \E i \in DOMAIN reply : reply[i].kind = "text"
<1> DEFINE N == Len(reply)
           Texty == \E i \in DOMAIN reply : reply[i].kind = "text"
           S == {m \in 0 .. N :
                   \A x \in 1 .. Offset(m) : Sent[m][x][2] \in {"lead", "tail"} => Texty}
<1>1. N \in Nat /\ DOMAIN reply = 1 .. N BY LenProperties
<1>2. \A m \in 0 .. N : Offset(m) \in Nat /\ Sent[m] \in Seq(Units) /\ Len(Sent[m]) = Offset(m)
  BY OffsetIs, SentIs DEF Offset
<1>3. Offset(0) = 0 BY OffsetIs
<1> HIDE DEF N
<1>4. 0 \in S BY <1>1, <1>3
<1>5. ASSUME NEW m \in 1 .. N, m - 1 \in S PROVE m \in S
  <2>1. m \in Nat /\ m # 0 /\ m - 1 \in 0 .. N /\ m \in 0 .. N BY <1>1
  <2> DEFINE s == Sent[m - 1] t == Block(m) b == Len(Body(m))
  <2>2. /\ b \in Nat /\ t \in Seq(Units) /\ Len(t) = b + 2
        /\ t[b + 1] = Newline /\ t[b + 2] = Newline
        /\ \A p \in 1 .. b : t[p] = Body(m)[p]
        /\ \A p \in 1 .. b : Body(m)[p][2] \in {"lead", "tail"} => reply[m].kind = "text"
    BY <2>1, BodyIs, BlockIs
  <2>3. Sent[m] = s \o t BY SentIs DEF N
  <2>4. s \in Seq(Units) /\ Len(s) = Offset(m - 1) /\ Offset(m - 1) \in Nat BY <1>2, <2>1
  <2>5. Newline[2] = "newline" BY DEF Newline
  <2> HIDE DEF s, t, b
  <2>6. /\ Len(s \o t) = Len(s) + Len(t)
        /\ \A p \in 1 .. Len(s) + Len(t) :
             (s \o t)[p] = IF p <= Len(s) THEN s[p] ELSE t[p - Len(s)]
    BY <2>2, <2>4, ConcatProperties
  <2>7. Offset(m) = Len(s) + Len(t) BY <1>2, <2>1, <2>3, <2>6
  <2>8. ASSUME NEW x \in 1 .. Offset(m), Sent[m][x][2] \in {"lead", "tail"} PROVE Texty
    <3>1. CASE x <= Len(s)
      <4>1. x \in 1 .. Offset(m - 1) /\ x \in 1 .. Len(s) + Len(t) BY <2>4, <2>7, <3>1
      <4>2. Sent[m][x] = Sent[m - 1][x] BY <2>3, <2>6, <3>1, <4>1 DEF s
      <4>3. QED BY <1>5, <2>8, <4>1, <4>2
    <3>2. CASE ~ (x <= Len(s))
      <4> DEFINE p == x - Len(s)
      <4>1. p \in 1 .. b + 2 /\ x \in 1 .. Len(s) + Len(t) BY <2>2, <2>4, <2>7, <3>2
      <4>2. Sent[m][x] = t[p] BY <2>3, <2>6, <3>2, <4>1
      <4> HIDE DEF p
      <4>3. p \in 1 .. b \/ p = b + 1 \/ p = b + 2 BY <2>2, <4>1
      <4>4. CASE p \in 1 .. b
        <5>1. reply[m].kind = "text" BY <2>2, <2>8, <4>2, <4>4
        <5>2. QED BY <1>1, <5>1
      <4>5. CASE p = b + 1 \/ p = b + 2 BY <2>2, <2>5, <2>8, <4>2, <4>5
      <4>6. QED BY <4>3, <4>4, <4>5
    <3>3. QED BY <3>1, <3>2
  <2> HIDE DEF Texty
  <2>9. QED BY <2>1, <2>8
<1> HIDE DEF S
<1>6. \A m \in 0 .. N : m \in S BY <1>1, <1>4, <1>5, BoundedInduction
<1>7. N \in S /\ N \in 0 .. N BY <1>1, <1>6
<1>8. Blocks = Sent[N] /\ Len(Blocks) = Offset(N) BY OffsetIs DEF Blocks, N
<1>9. QED BY <1>7, <1>8 DEF S

(* What is on the connection of the blocks.                                *)
LEMMA WireIs ==
    ASSUME reply \in Seq(ServerEvents), missing \in {0, 1, 2}, missing <= 2 * Len(reply)
    PROVE  /\ Wire \in Seq(Units) /\ Len(Wire) = Len(Blocks) - missing
           /\ Len(Wire) \in Nat /\ Len(Blocks) \in Nat
           /\ \A q \in 1 .. Len(Wire) : Wire[q] = Blocks[q] /\ q \in 1 .. Len(Blocks)
<1>1. Len(reply) \in Nat BY LenProperties
<1>2. Blocks \in Seq(Units) /\ Len(Blocks) \in Nat /\ Len(Blocks) = Offset(Len(reply))
  BY OffsetIs, LenProperties
<1>3. missing <= Len(Blocks)
  <2>1. CASE Len(reply) = 0 BY <1>1, <1>2, <2>1
  <2>2. CASE Len(reply) # 0
    <3> DEFINE n == Len(reply)
    <3>1. n \in 1 .. Len(reply) /\ n - 1 \in 0 .. Len(reply) /\ n \in Nat /\ n # 0 BY <1>1, <2>2
    <3>2. Offset(n) = Offset(n - 1) + (Len(Body(n)) + 2) /\ Offset(n - 1) \in Nat
      BY <3>1, OffsetIs
    <3>3. Len(Body(n)) \in Nat BY <3>1, BodyIs
    <3>4. QED BY <1>2, <3>2, <3>3
  <2>3. QED BY <2>1, <2>2
<1> DEFINE M == Len(Blocks) - missing
<1>4. M \in Nat /\ M <= Len(Blocks) BY <1>2, <1>3
<1>5. Wire = SubSeq(Blocks, 1, M) BY DEF Wire
<1> HIDE DEF M
<1>6. \A q \in 1 .. M : Blocks[q] \in Units /\ q \in 1 .. Len(Blocks)
  BY <1>2, <1>4, ElementOfSeq
<1>7. /\ SubSeq(Blocks, 1, M) \in Seq(Units)
      /\ Len(SubSeq(Blocks, 1, M)) = IF 1 <= M THEN M - 1 + 1 ELSE 0
      /\ \A i \in 1 .. M - 1 + 1 : SubSeq(Blocks, 1, M)[i] = Blocks[1 + i - 1]
  BY <1>4, <1>6, SubSeqProperties
<1>8. Len(Wire) = M BY <1>4, <1>5, <1>7
<1>9. ASSUME NEW q \in 1 .. M PROVE Wire[q] = Blocks[q]
  <2>1. q \in 1 .. M - 1 + 1 /\ 1 + q - 1 = q BY <1>4
  <2>2. QED BY <1>5, <1>7, <2>1
<1>10. QED BY <1>2, <1>4, <1>5, <1>6, <1>7, <1>8, <1>9 DEF M

(***************************************************************************)
(* The buffer                                                              *)
(***************************************************************************)
(* The first k blocks are parsed, and the buffer is what arrived after.    *)
Held(k, got, text) ==
    /\ text \in Seq(Units) /\ got \in Nat /\ got <= Len(Wire)
    /\ Offset(k) + Len(text) = got
    /\ \A p \in 1 .. Len(text) : text[p] = Blocks[Offset(k) + p]

Sane ==
    reply \in Seq(ServerEvents) /\ missing \in {0, 1, 2} /\ missing <= 2 * Len(reply)

(* What the buffer begins with is a block that has been cut off at most.   *)
LEMMA HeldBlock ==
    ASSUME Sane, NEW k \in 0 .. Len(reply) - 1, Held(k, arrived, buffer)
    PROVE  /\ k + 1 \in 1 .. Len(reply) /\ k + 1 \in Nat /\ k + 1 # 0
           /\ Len(Body(k + 1)) \in Nat /\ Len(Body(k + 1)) >= 1 /\ Len(buffer) \in Nat
           /\ Offset(k) \in Nat /\ Offset(k + 1) = Offset(k) + (Len(Body(k + 1)) + 2)
           /\ Offset(k + 1) <= Len(Blocks)
           /\ \A p \in 1 .. Len(buffer) :
                /\ p <= Len(Body(k + 1)) => buffer[p] = Body(k + 1)[p] /\ buffer[p] # Newline
                /\ p = Len(Body(k + 1)) + 1 \/ p = Len(Body(k + 1)) + 2 => buffer[p] = Newline
<1> DEFINE n == k + 1 b == Len(Body(n))
<1>1. reply \in Seq(ServerEvents) /\ Len(reply) \in Nat BY LenProperties DEF Sane
<1>2. n \in 1 .. Len(reply) /\ n \in Nat /\ n # 0 /\ n - 1 = k /\ k \in 0 .. Len(reply) BY <1>1
<1>3. /\ b \in Nat /\ b >= 1 /\ \A p \in 1 .. b : Body(n)[p] # Newline
      /\ \A p \in 1 .. b : Block(n)[p] = Body(n)[p]
      /\ Block(n)[b + 1] = Newline /\ Block(n)[b + 2] = Newline
  BY <1>2, BodyIs, BlockIs
<1>4. /\ Offset(n) <= Len(Blocks)
      /\ \A p \in 1 .. b + 2 : Blocks[Offset(n - 1) + p] = Block(n)[p]
  BY <1>1, <1>2, BlocksAt
<1>5. Offset(k) \in Nat /\ Offset(n) = Offset(n - 1) + (b + 2) BY <1>1, <1>2, OffsetIs
<1>6. buffer \in Seq(Units) /\ \A p \in 1 .. Len(buffer) : buffer[p] = Blocks[Offset(k) + p]
  BY DEF Held
<1>7. Len(buffer) \in Nat BY <1>6, LenProperties
<1> HIDE DEF b, n
<1>8. ASSUME NEW p \in 1 .. Len(buffer), p \in 1 .. b + 2 PROVE buffer[p] = Block(n)[p]
  BY <1>2, <1>4, <1>6, <1>8
<1>9. ASSUME NEW p \in 1 .. Len(buffer), p <= b PROVE buffer[p] = Body(n)[p] /\ buffer[p] # Newline
  <2>1. p \in 1 .. b /\ p \in 1 .. b + 2 BY <1>3, <1>7, <1>9
  <2>2. QED BY <1>3, <1>8, <2>1
<1>10. ASSUME NEW p \in 1 .. Len(buffer), p = b + 1 \/ p = b + 2 PROVE buffer[p] = Newline
  <2>1. p \in 1 .. b + 2 BY <1>3, <1>10
  <2>2. QED BY <1>3, <1>8, <1>10, <2>1
<1>11. QED BY <1>2, <1>3, <1>4, <1>5, <1>7, <1>9, <1>10 DEF n, b

(* After the last block there is nothing.                                  *)
LEMMA HeldLast ==
    ASSUME Sane, Held(Len(reply), arrived, buffer)
    PROVE  Len(buffer) = 0 /\ (arrived = Len(Wire) => missing = 0)
<1>1. /\ reply \in Seq(ServerEvents) /\ missing \in {0, 1, 2} /\ missing <= 2 * Len(reply)
  BY DEF Sane
<1>2. /\ Len(Wire) = Len(Blocks) - missing /\ Len(Wire) \in Nat /\ Len(Blocks) \in Nat
  BY <1>1, WireIs
<1>3. Len(Blocks) = Offset(Len(reply)) BY <1>1, OffsetIs
<1>4. /\ buffer \in Seq(Units) /\ arrived \in Nat /\ arrived <= Len(Wire)
      /\ Offset(Len(reply)) + Len(buffer) = arrived
  BY DEF Held
<1>5. Len(buffer) \in Nat BY <1>4, LenProperties
<1>6. QED BY <1>1, <1>2, <1>3, <1>4, <1>5

(* A buffer that holds the end of a block holds the whole of the next one, *)
(* and that block is the first.                                            *)
LEMMA FirstEnd ==
    ASSUME Sane, NEW k \in 0 .. Len(reply), Held(k, arrived, buffer)
    PROVE  /\ BlockEnds(buffer) # {} =>
                /\ k \in 0 .. Len(reply) - 1 /\ Len(Body(k + 1)) + 2 <= Len(buffer)
                /\ Min(BlockEnds(buffer)) = Len(Body(k + 1)) + 1
           /\ BlockEnds(buffer) = {} /\ k \in 0 .. Len(reply) - 1 =>
                Len(buffer) < Len(Body(k + 1)) + 2
<1> DEFINE b == Len(Body(k + 1))
<1>1. Len(reply) \in Nat BY LenProperties DEF Sane
<1>2. \A q : q \in BlockEnds(buffer) <=>
        q \in 1 .. Len(buffer) - 1 /\ buffer[q] = Newline /\ buffer[q + 1] = Newline
  BY DEF BlockEnds
<1>3. CASE k = Len(reply)
  <2>1. Len(buffer) = 0 BY <1>3, HeldLast
  <2>2. BlockEnds(buffer) = {} BY <1>2, <2>1
  <2>3. k \notin 0 .. Len(reply) - 1 BY <1>1, <1>3
  <2>4. QED BY <2>2, <2>3
<1>4. CASE k # Len(reply)
  <2>1. k \in 0 .. Len(reply) - 1 BY <1>1, <1>4
  <2>2. /\ b \in Nat /\ b >= 1 /\ Len(buffer) \in Nat
        /\ \A p \in 1 .. Len(buffer) : p <= b => buffer[p] # Newline
        /\ \A p \in 1 .. Len(buffer) : p = b + 1 \/ p = b + 2 => buffer[p] = Newline
    BY <2>1, HeldBlock
  <2> HIDE DEF b
  <2>3. ASSUME NEW q \in BlockEnds(buffer) PROVE q >= b + 1 /\ b + 2 <= Len(buffer)
    <3>1. q \in 1 .. Len(buffer) - 1 /\ buffer[q] = Newline BY <1>2
    <3>2. q \in 1 .. Len(buffer) BY <2>2, <3>1
    <3>3. ~ (q <= b) BY <2>2, <3>1, <3>2
    <3>4. QED BY <2>2, <3>1, <3>3
  <2>4. ASSUME b + 2 <= Len(buffer) PROVE b + 1 \in BlockEnds(buffer)
    <3>1. b + 1 \in 1 .. Len(buffer) - 1 /\ b + 1 \in 1 .. Len(buffer)
          /\ b + 2 \in 1 .. Len(buffer) /\ (b + 1) + 1 = b + 2
      BY <2>2, <2>4
    <3>2. QED BY <1>2, <2>2, <3>1
  <2>5. ASSUME BlockEnds(buffer) # {}
        PROVE  b + 2 <= Len(buffer) /\ Min(BlockEnds(buffer)) = b + 1
    <3>1. BlockEnds(buffer) \in SUBSET Nat BY <1>2, <2>2
    <3>2. /\ Min(BlockEnds(buffer)) \in BlockEnds(buffer)
          /\ \A y \in BlockEnds(buffer) : Min(BlockEnds(buffer)) <= y
      BY <2>5, <3>1, MinIs
    <3>3. b + 2 <= Len(buffer) BY <2>3, <3>2
    <3>4. b + 1 \in BlockEnds(buffer) BY <2>4, <3>3
    <3>5. Min(BlockEnds(buffer)) <= b + 1 /\ Min(BlockEnds(buffer)) >= b + 1 BY <2>3, <3>2, <3>4
    <3>6. Min(BlockEnds(buffer)) \in Nat BY <3>1, <3>2
    <3>7. QED BY <2>2, <3>3, <3>5, <3>6
  <2>6. BlockEnds(buffer) = {} => Len(buffer) < b + 2 BY <2>2, <2>4
  <2>7. QED BY <2>1, <2>5, <2>6 DEF b
<1>5. QED BY <1>3, <1>4

(***************************************************************************)
(* What is collected                                                       *)
(***************************************************************************)
(* The calls begun with an id in the first k events and not finished yet;  *)
(* the calls finished.                                                     *)
Latest(it, k) ==
    {j \in 1 .. k :
        /\ reply[j].kind = "added" /\ reply[j].item = it
        /\ \A i \in j + 1 .. k :
              reply[i].item = it => reply[i].kind \notin {"added", "done"}}
Finished(k) == {j \in 1 .. k : reply[j].kind = "done"}
Bad(k) ==
    \/ reply[k].kind \in {"delta", "done"} /\ ~ HasName(k)
    \/ reply[k].kind = "done" /\ ~ reply[k].ok

(* What the first k events say.                                            *)
Gathered(k, known, texts, first) ==
    /\ \A j \in 1 .. k : ~ Bad(j)
    /\ known = [it \in Items |-> known[it]]
    /\ \A it \in Items :
          \/ Latest(it, k) = {} /\ known[it] = ""
          \/ \E j \in Latest(it, k) : known[it] = reply[j].name
    /\ texts = TextsTo[k]
    /\ \/ Finished(k) = {} /\ first = NoCall
       \/ /\ Finished(k) # {}
          /\ first = [item |-> reply[Min(Finished(k))].item, name |-> NameOf(Min(Finished(k)))]

LEMMA EventIs ==
    ASSUME reply \in Seq(ServerEvents), NEW n \in 1 .. Len(reply)
    PROVE  /\ reply[n] \in ServerEvents /\ reply[n].kind \in EventKinds
           /\ reply[n].item \in Items /\ reply[n].ok \in BOOLEAN
           /\ reply[n].kind = "added" => reply[n].name # ""
BY ElementOfSeq, StreamAssumption

LEMMA BegunIs == \A n \in Nat : n # 0 => Begun(n) = Latest(reply[n].item, n - 1)
BY DEF Begun, Latest

(* There is one call at most that was begun with an id last.               *)
LEMMA LatestIsOne ==
    ASSUME NEW it, NEW k \in Nat, NEW j \in Latest(it, k), NEW i \in Latest(it, k)
    PROVE  i = j
<1>1. /\ i \in 1 .. k /\ j \in 1 .. k /\ reply[i].kind = "added" /\ reply[j].kind = "added"
      /\ reply[i].item = it /\ reply[j].item = it
  BY DEF Latest
<1>2. ~ (i < j)
  <2>1. i < j => j \in i + 1 .. k BY <1>1
  <2>2. QED BY <1>1, <2>1 DEF Latest
<1>3. ~ (j < i)
  <2>1. j < i => i \in j + 1 .. k BY <1>1
  <2>2. QED BY <1>1, <2>1 DEF Latest
<1>4. QED BY <1>1, <1>2, <1>3

(* The names on record give an event the name the answer means.            *)
LEMMA NameIsKnown ==
    ASSUME reply \in Seq(ServerEvents), NEW n \in 1 .. Len(reply),
           NEW texts, NEW first, Gathered(n - 1, names, texts, first)
    PROVE  /\ HasName(n) => KnownName(reply[n]) = NameOf(n) /\ NameOf(n) # ""
           /\ ~ HasName(n) => KnownName(reply[n]) = ""
<1> DEFINE e == reply[n] it == e.item
<1>1. Len(reply) \in Nat /\ n \in Nat /\ n # 0 /\ n - 1 \in Nat BY LenProperties
<1>2. it \in Items BY EventIs
<1>3. Begun(n) = Latest(it, n - 1) BY <1>1, BegunIs
<1>4. \/ Latest(it, n - 1) = {} /\ names[it] = ""
      \/ \E j \in Latest(it, n - 1) : names[it] = reply[j].name
  BY <1>2 DEF Gathered
<1>5. KnownName(e) = IF e.name # "" THEN e.name ELSE names[it] BY DEF KnownName
<1> HIDE DEF it
<1>6. CASE e.name # "" BY <1>5, <1>6 DEF HasName, NameOf
<1>7. CASE e.name = ""
  <2>1. KnownName(e) = names[it] /\ (HasName(n) <=> Begun(n) # {}) BY <1>5, <1>7 DEF HasName
  <2>2. CASE Begun(n) = {} BY <1>3, <1>4, <2>1, <2>2
  <2>3. CASE Begun(n) # {}
    <3>1. PICK j \in Latest(it, n - 1) : names[it] = reply[j].name BY <1>3, <1>4, <2>3
    <3>2. \A i \in Begun(n) : i = j BY <1>1, <1>3, <3>1, LatestIsOne
    <3>3. (CHOOSE i \in Begun(n) : TRUE) = j BY <1>3, <2>3, <3>2
    <3>4. NameOf(n) = reply[j].name BY <1>7, <3>3 DEF NameOf
    <3>5. j \in 1 .. n - 1 /\ reply[j].kind = "added" BY <3>1 DEF Latest
    <3>6. j \in 1 .. Len(reply) BY <1>1, <3>5
    <3>7. reply[j].name # "" BY <3>5, <3>6, EventIs
    <3>8. QED BY <2>1, <2>3, <3>1, <3>4, <3>7
  <2>4. QED BY <2>2, <2>3
<1>8. QED BY <1>6, <1>7

(* An event is refused exactly if it makes the answer malformed.           *)
LEMMA RefusesBad ==
    ASSUME reply \in Seq(ServerEvents), NEW n \in 1 .. Len(reply),
           NEW texts, NEW first, Gathered(n - 1, names, texts, first)
    PROVE  Refuses(reply[n]) <=> Bad(n)
<1>1. HasName(n) <=> KnownName(reply[n]) # "" BY NameIsKnown
<1>2. QED BY <1>1 DEF Refuses, Bad

LEMMA BadIsMalformed ==
    ASSUME reply \in Seq(ServerEvents)
    PROVE  Malformed <=> \E n \in 1 .. Len(reply) : Bad(n)
<1>1. DOMAIN reply = 1 .. Len(reply) BY LenProperties
<1>2. QED BY <1>1 DEF Malformed, Bad

(* The texts of the first events.                                          *)
LEMMA TextsAre ==
    ASSUME reply \in Seq(ServerEvents)
    PROVE  /\ TextsTo \in [0 .. Len(reply) -> Seq(Texts)] /\ TextsTo[0] = <<>>
           /\ \A n \in 1 .. Len(reply) :
                TextsTo[n] = IF reply[n].kind \in Texts THEN Append(TextsTo[n - 1], reply[n].kind)
                             ELSE TextsTo[n - 1]
<1> DEFINE N == Len(reply)
           F == [n \in 1 .. N |-> [s \in Seq(Texts) |->
                   IF reply[n].kind \in Texts THEN Append(s, reply[n].kind) ELSE s]]
           Turn(k, n) == IF n = 0 THEN <<>>
                         ELSE IF reply[n].kind \in Texts THEN Append(k[n - 1], reply[n].kind)
                              ELSE k[n - 1]
           Made(k) == k = [n \in 0 .. N |-> Turn(k, n)]
<1>1. N \in Nat BY LenProperties
<1>2. F \in [1 .. N -> [Seq(Texts) -> Seq(Texts)]]
  <2>1. ASSUME NEW n \in 1 .. N, NEW s \in Seq(Texts), reply[n].kind \in Texts
        PROVE  Append(s, reply[n].kind) \in Seq(Texts)
    BY <2>1, AppendProperties
  <2> HIDE DEF N
  <2>2. QED BY <2>1
<1>3. \A n \in 1 .. N, s \in Seq(Texts) :
        F[n][s] = IF reply[n].kind \in Texts THEN Append(s, reply[n].kind) ELSE s OBVIOUS
<1>4. TextsTo = CHOOSE k : Made(k) BY DEF TextsTo
<1> HIDE DEF F, N
<1>5. <<>> \in Seq(Texts) OBVIOUS
<1>6. PICK g : IsLoop(g, N, Seq(Texts), <<>>, F) BY <1>1, <1>2, <1>5, LoopExists
<1>7. g \in [0 .. N -> Seq(Texts)] /\ g[0] = <<>> BY <1>6 DEF IsLoop
<1>8. ASSUME NEW n \in 1 .. N
      PROVE  g[n] = IF reply[n].kind \in Texts THEN Append(g[n - 1], reply[n].kind)
                    ELSE g[n - 1]
  <2>1. n - 1 \in 0 .. N BY <1>1
  <2>2. g[n - 1] \in Seq(Texts) BY <1>7, <2>1
  <2>3. QED BY <1>3, <1>6, <2>2 DEF IsLoop
<1>9. ASSUME NEW n \in 0 .. N PROVE g[n] = Turn(g, n)
  <2>1. CASE n = 0 BY <1>7, <2>1
  <2>2. CASE n # 0
    <3>1. n \in 1 .. N BY <1>1, <2>2
    <3>2. QED BY <1>8, <2>2, <3>1
  <2>3. QED BY <2>1, <2>2
<1>10. Made(g)
  <2> HIDE DEF Turn
  <2>1. QED BY <1>7, <1>9
<1>11. Made(TextsTo)
  <2> HIDE DEF Made
  <2>1. QED BY <1>4, <1>10
<1> DEFINE S == {n \in 0 .. N : TextsTo[n] = g[n]}
<1>12. 0 \in S BY <1>1, <1>7, <1>11
<1>13. ASSUME NEW n \in 1 .. N, n - 1 \in S PROVE n \in S
  <2>1. n \in 0 .. N BY <1>1
  <2>2. TextsTo[n] = Turn(TextsTo, n) BY <1>11, <2>1
  <2>3. Turn(TextsTo, n) = Turn(g, n) BY <1>13
  <2> HIDE DEF Turn
  <2>4. QED BY <1>9, <2>1, <2>2, <2>3
<1> HIDE DEF S
<1>14. \A n \in 0 .. N : n \in S BY <1>1, <1>12, <1>13, BoundedInduction
<1>15. \A n \in 0 .. N : TextsTo[n] = g[n] BY <1>14 DEF S
<1>16. TextsTo = g
  <2>1. TextsTo = [n \in 0 .. N |-> TextsTo[n]] BY <1>11
  <2>2. QED BY <1>7, <1>15, <2>1
<1>17. QED BY <1>7, <1>8, <1>16 DEF N

LEMMA NameIsGiven ==
    ASSUME reply \in Seq(ServerEvents), NEW m \in 1 .. Len(reply), HasName(m)
    PROVE  NameOf(m) # ""
<1>1. Len(reply) \in Nat BY LenProperties
<1>2. CASE reply[m].name # "" BY <1>2 DEF NameOf
<1>3. CASE reply[m].name = ""
  <2> DEFINE j == CHOOSE j \in Begun(m) : TRUE
  <2>1. j \in Begun(m) BY <1>3 DEF HasName
  <2>2. NameOf(m) = reply[j].name BY <1>3 DEF NameOf
  <2> HIDE DEF j
  <2>3. j \in 1 .. m - 1 /\ reply[j].kind = "added" BY <2>1 DEF Begun
  <2>4. j \in 1 .. Len(reply) BY <1>1, <2>3
  <2>5. QED BY <2>2, <2>3, <2>4, EventIs
<1>4. QED BY <1>2, <1>3

(* One more event that is not refused.                                     *)
LEMMA CollectGathers ==
    ASSUME reply \in Seq(ServerEvents), NEW n \in 1 .. Len(reply),
           Gathered(n - 1, names, content, call), ~ Refuses(reply[n]), Collect(reply[n])
    PROVE  Gathered(n, names', content', call')
<1> DEFINE e == reply[n]
<1>1. Len(reply) \in Nat /\ n \in Nat /\ n # 0 /\ n - 1 \in Nat BY LenProperties
<1>2. /\ e.kind \in EventKinds /\ e.item \in Items /\ (e.kind = "added" => e.name # "")
  BY EventIs
<1>3. \A j \in 1 .. n : j = n \/ j \in 1 .. n - 1 BY <1>1
<1>4. \A j \in 1 .. n - 1 : j \in 1 .. n /\ j # n BY <1>1
<1>5. \A j \in 1 .. n : ~ Bad(j)
  <2>1. ~ Bad(n) BY RefusesBad
  <2>2. QED BY <1>3, <2>1 DEF Gathered
<1>6. content' = TextsTo[n] BY TextsAre DEF Gathered, Collect
<1>7. names = [it \in Items |-> names[it]] BY DEF Gathered
<1>8. /\ names' = [it \in Items |-> names'[it]]
      /\ \A it \in Items : names'[it] =
            IF it = e.item /\ e.kind = "added" THEN e.name
            ELSE IF it = e.item /\ e.kind = "done" THEN "" ELSE names[it]
  BY <1>2, <1>7 DEF Collect
<1>9. ASSUME NEW it \in Items
      PROVE  \/ Latest(it, n) = {} /\ names'[it] = ""
             \/ \E j \in Latest(it, n) : names'[it] = reply[j].name
  <2>1. ASSUME NEW j \in 1 .. n - 1, NEW i \in j + 1 .. n PROVE i = n \/ i \in j + 1 .. n - 1
    <3>1. j \in Nat /\ i \in Nat BY <1>1
    <3>2. QED BY <1>1, <3>1
  <2>2. \A j \in 1 .. n - 1 : n \in j + 1 .. n /\ \A i \in j + 1 .. n - 1 : i \in j + 1 .. n
    BY <1>1
  <2>3. \A i \in n + 1 .. n : FALSE BY <1>1
  <2>4. n \in 1 .. n BY <1>1
  <2>5. CASE it = e.item /\ e.kind = "added"
    <3>1. n \in Latest(it, n) BY <2>3, <2>4, <2>5 DEF Latest
    <3>2. QED BY <1>8, <2>5, <3>1
  <2>6. CASE it = e.item /\ e.kind = "done"
    <3>1. ASSUME NEW j \in Latest(it, n) PROVE FALSE
      <4>1. j \in 1 .. n /\ reply[j].kind = "added" BY DEF Latest
      <4>2. j \in 1 .. n - 1 BY <1>3, <2>6, <4>1
      <4>3. n \in j + 1 .. n BY <2>2, <4>2
      <4>4. QED BY <2>6, <4>3 DEF Latest
    <3>2. QED BY <1>8, <2>6, <3>1
  <2>7. CASE ~ (it = e.item /\ e.kind \in {"added", "done"})
    <3>1. Latest(it, n) = Latest(it, n - 1)
      <4>1. ASSUME NEW j \in Latest(it, n) PROVE j \in Latest(it, n - 1)
        <5>1. j \in 1 .. n /\ reply[j].kind = "added" /\ reply[j].item = it BY DEF Latest
        <5>2. j \in 1 .. n - 1 BY <1>3, <2>7, <5>1
        <5>3. QED BY <2>2, <5>1, <5>2 DEF Latest
      <4>2. ASSUME NEW j \in Latest(it, n - 1) PROVE j \in Latest(it, n)
        <5>1. j \in 1 .. n - 1 /\ reply[j].kind = "added" /\ reply[j].item = it BY DEF Latest
        <5>2. j \in 1 .. n BY <1>4, <5>1
        <5>3. \A i \in j + 1 .. n : reply[i].item = it => reply[i].kind \notin {"added", "done"}
          BY <2>1, <2>7, <5>1 DEF Latest
        <5>4. QED BY <5>1, <5>2, <5>3 DEF Latest
      <4>3. QED BY <4>1, <4>2
    <3>2. names'[it] = names[it] BY <1>8, <2>7
    <3>3. QED BY <3>1, <3>2 DEF Gathered
  <2>8. QED BY <2>5, <2>6, <2>7
<1>10. \/ Finished(n) = {} /\ call' = NoCall
       \/ /\ Finished(n) # {}
          /\ call' = [item |-> reply[Min(Finished(n))].item, name |-> NameOf(Min(Finished(n)))]
  <2>1. \A k \in Nat : Finished(k) \in SUBSET Nat BY DEF Finished
  <2>2. Finished(n) = IF e.kind = "done" THEN Finished(n - 1) \union {n} ELSE Finished(n - 1)
    <3>1. \A j \in 1 .. n : j = n \/ j \in 1 .. n - 1 BY <1>3
    <3>2. n \in 1 .. n BY <1>1
    <3>3. QED BY <1>4, <3>1, <3>2 DEF Finished
  <2>3. CASE Finished(n - 1) = {}
    <3>1. call = NoCall BY <2>3 DEF Gathered
    <3>2. CASE e.kind = "done"
      <4>1. Finished(n) = {n} BY <2>2, <2>3, <3>2
      <4>2. Min({n}) = n
        <5>1. {n} \in SUBSET Nat /\ {n} # {} BY <1>1
        <5>2. Min({n}) \in {n} BY <5>1, MinIs
        <5>3. QED BY <5>2
      <4>3. HasName(n) BY <1>5, <3>2 DEF Bad
      <4>4. KnownName(e) = NameOf(n) BY <4>3, NameIsKnown
      <4>5. call' = [item |-> e.item, name |-> NameOf(n)] BY <3>1, <3>2, <4>4 DEF Collect
      <4>6. QED BY <4>1, <4>2, <4>5
    <3>3. CASE e.kind # "done" BY <2>2, <2>3, <3>1, <3>3 DEF Collect
    <3>4. QED BY <3>2, <3>3
  <2>4. CASE Finished(n - 1) # {}
    <3> DEFINE m == Min(Finished(n - 1))
    <3>1. m \in Finished(n - 1) /\ \A y \in Finished(n - 1) : m <= y BY <1>1, <2>1, <2>4, MinIs
    <3>2. call = [item |-> reply[m].item, name |-> NameOf(m)] BY <2>4 DEF Gathered
    <3> HIDE DEF m
    <3>3. m \in 1 .. n - 1 /\ reply[m].kind = "done" BY <3>1 DEF Finished
    <3>4. Finished(n) # {} /\ Finished(n) \in SUBSET Nat BY <1>1, <2>1, <2>2, <2>4
    <3>5. Min(Finished(n)) = m
      <4>1. Min(Finished(n)) \in Finished(n) /\ \A y \in Finished(n) : Min(Finished(n)) <= y
        BY <3>4, MinIs
      <4>2. m \in Finished(n) BY <2>2, <3>1
      <4>3. \A y \in Finished(n) : m <= y
        <5>1. m <= n BY <1>1, <3>3
        <5>2. QED BY <2>2, <3>1, <5>1
      <4>4. QED BY <3>4, <4>1, <4>2, <4>3
    <3>6. NameOf(m) # ""
      <4>1. HasName(m) BY <1>4, <1>5, <3>3 DEF Bad
      <4>2. m \in 1 .. Len(reply) BY <1>1, <3>3
      <4>3. QED BY <4>1, <4>2, NameIsGiven
    <3>7. call # NoCall BY <3>2, <3>6 DEF NoCall
    <3>8. call' = call BY <3>7 DEF Collect
    <3>9. QED BY <3>2, <3>4, <3>5, <3>8
  <2>5. QED BY <2>3, <2>4
<1>11. QED BY <1>5, <1>6, <1>8, <1>9, <1>10 DEF Gathered

(***************************************************************************)
(* The inductive invariant                                                 *)
(***************************************************************************)
Statuses == {"open", "closed", "refused", "not UTF-8", "lost"}

(* The buffer follows the blocks parsed, whose events are collected; at     *)
(* the end that is all of them.                                             *)
StreamInv ==
    /\ Sane /\ status \in Statuses
    /\ status = "open" =>
          \E k \in 0 .. Len(reply) : Held(k, arrived, buffer) /\ Gathered(k, names, content, call)
    /\ status = "closed" => Gathered(Len(reply), names, content, call)
    /\ status = "refused" => Malformed
    /\ status = "not UTF-8" => \E i \in DOMAIN reply : reply[i].kind = "text"

(***************************************************************************)
(* The steps                                                               *)
(***************************************************************************)
(* The answer does not change.                                             *)
LEMMA SameAnswer ==
    ASSUME reply' = reply, missing' = missing
    PROVE  /\ Sane' <=> Sane
           /\ Malformed' <=> Malformed
           /\ \A k : Held(k, arrived, buffer)' <=> Held(k, arrived', buffer')
           /\ \A k : Gathered(k, names, content, call)' <=> Gathered(k, names', content', call')
<1>1. Sane' <=> Sane BY DEF Sane
<1>2. \A i : Body(i)' = Body(i) BY DEF Body
<1>3. Sent' = Sent BY <1>2 DEF Sent
<1>4. Blocks' = Blocks BY <1>3 DEF Blocks
<1>5. Wire' = Wire BY <1>4 DEF Wire
<1>6. \A k : Offset(k)' = Offset(k) BY <1>3 DEF Offset
<1>7. \A k : Begun(k)' = Begun(k) BY DEF Begun
<1>8. ASSUME NEW k PROVE (HasName(k)' <=> HasName(k)) /\ NameOf(k)' = NameOf(k)
  <2>1. Begun(k)' = Begun(k) BY <1>7
  <2>2. HasName(k)' <=> HasName(k) BY <2>1 DEF HasName
  <2>3. (CHOOSE j \in Begun(k)' : TRUE) = (CHOOSE j \in Begun(k) : TRUE) BY <2>1
  <2> DEFINE NameWith(r, B) == IF r[k].name # "" THEN r[k].name ELSE r[CHOOSE j \in B : TRUE].name
  <2>6. NameOf(k) = NameWith(reply, Begun(k)) BY DEF NameOf
  <2>7. NameOf(k)' = NameWith(reply', Begun(k)') BY DEF NameOf
  <2> HIDE DEF NameWith
  <2>4. NameOf(k)' = NameOf(k) BY <2>1, <2>6, <2>7
  <2>5. QED BY <2>2, <2>4
<1>9. Malformed' <=> Malformed BY <1>8 DEF Malformed
<1>10. \A k : Bad(k)' <=> Bad(k) BY <1>8 DEF Bad
<1>11. \A it, k : Latest(it, k)' = Latest(it, k) BY DEF Latest
<1>12. \A k : Finished(k)' = Finished(k) BY DEF Finished
<1>13. TextsTo' = TextsTo BY DEF TextsTo
<1>14. ASSUME NEW k PROVE Held(k, arrived, buffer)' <=> Held(k, arrived', buffer')
  BY <1>4, <1>5, <1>6 DEF Held
<1>15. ASSUME NEW k
       PROVE  Gathered(k, names, content, call)' <=> Gathered(k, names', content', call')
  BY <1>8, <1>10, <1>11, <1>12, <1>13 DEF Gathered
<1>16. QED BY <1>1, <1>9, <1>14, <1>15

(* What arrives follows what is held.                                      *)
LEMMA ChunkIsHeld ==
    ASSUME Sane, NEW k \in 0 .. Len(reply), Held(k, arrived, buffer),
           NEW n \in Nat, n # 0, arrived + n <= Len(Wire)
    PROVE  LET chunk == SubSeq(Wire, arrived + 1, arrived + n)
           IN  /\ Held(k, arrived + n, buffer \o chunk)
               /\ \A i \in 1 .. n : chunk[i][2] \in {"lead", "tail"} =>
                     \E j \in DOMAIN reply : reply[j].kind = "text"
<1> DEFINE chunk == SubSeq(Wire, arrived + 1, arrived + n)
<1>1. /\ Wire \in Seq(Units) /\ Len(Wire) \in Nat
      /\ \A q \in 1 .. Len(Wire) : Wire[q] = Blocks[q] /\ q \in 1 .. Len(Blocks)
  BY WireIs DEF Sane
<1>2. /\ buffer \in Seq(Units) /\ arrived \in Nat /\ Offset(k) + Len(buffer) = arrived
      /\ \A p \in 1 .. Len(buffer) : buffer[p] = Blocks[Offset(k) + p]
  BY DEF Held
<1>3. Offset(k) \in Nat /\ Len(buffer) \in Nat BY <1>2, OffsetIs, LenProperties DEF Sane
<1>4. \A q \in arrived + 1 .. arrived + n : q \in 1 .. Len(Wire) /\ Wire[q] \in Units
  BY <1>1, <1>2, ElementOfSeq
<1>5. /\ chunk \in Seq(Units) /\ Len(chunk) = n
      /\ \A i \in 1 .. n : chunk[i] = Wire[arrived + i]
  <2> DEFINE f == arrived + 1 l == arrived + n
  <2>1. f \in Int /\ l \in Int /\ f <= l /\ l - f + 1 = n /\ \A i \in 1 .. n : f + i - 1 = arrived + i
    BY <1>2
  <2>2. \A q \in f .. l : Wire[q] \in Units BY <1>4
  <2> HIDE DEF f, l
  <2>3. /\ SubSeq(Wire, f, l) \in Seq(Units)
        /\ Len(SubSeq(Wire, f, l)) = IF f <= l THEN l - f + 1 ELSE 0
        /\ \A i \in 1 .. l - f + 1 : SubSeq(Wire, f, l)[i] = Wire[f + i - 1]
    BY <2>1, <2>2, SubSeqProperties
  <2>4. QED BY <2>1, <2>3 DEF f, l
<1>6. ASSUME NEW i \in 1 .. n
      PROVE  chunk[i] = Blocks[arrived + i] /\ arrived + i \in 1 .. Len(Blocks)
  <2>1. arrived + i \in arrived + 1 .. arrived + n BY <1>2
  <2>2. QED BY <1>1, <1>4, <1>5, <2>1
<1> HIDE DEF chunk
<1>7. /\ buffer \o chunk \in Seq(Units) /\ Len(buffer \o chunk) = Len(buffer) + n
      /\ \A p \in 1 .. Len(buffer) + n :
           (buffer \o chunk)[p] = IF p <= Len(buffer) THEN buffer[p] ELSE chunk[p - Len(buffer)]
  BY <1>2, <1>5, ConcatProperties
<1>8. ASSUME NEW p \in 1 .. Len(buffer) + n PROVE (buffer \o chunk)[p] = Blocks[Offset(k) + p]
  <2>1. CASE p <= Len(buffer) BY <1>2, <1>3, <1>7, <2>1
  <2>2. CASE ~ (p <= Len(buffer))
    <3>1. p - Len(buffer) \in 1 .. n /\ arrived + (p - Len(buffer)) = Offset(k) + p
      <4>1. p \in Nat /\ p <= Len(buffer) + n BY <1>3
      <4>2. QED BY <1>2, <1>3, <2>2, <4>1
    <3>2. QED BY <1>6, <1>7, <2>2, <3>1
  <2>3. QED BY <2>1, <2>2
<1>9. Held(k, arrived + n, buffer \o chunk)
  <2>1. arrived + n \in Nat /\ Offset(k) + (Len(buffer) + n) = arrived + n BY <1>2, <1>3
  <2>2. QED BY <1>7, <1>8, <2>1 DEF Held
<1>10. ASSUME NEW i \in 1 .. n, chunk[i][2] \in {"lead", "tail"}
       PROVE  \E j \in DOMAIN reply : reply[j].kind = "text"
  BY <1>6, <1>10, BytesAreOfTexts DEF Sane
<1>11. QED BY <1>9, <1>10 DEF chunk

(* A buffer as long as the body of a block begins with it.                  *)
LEMMA BeginsWithBody ==
    ASSUME Sane, NEW k \in 0 .. Len(reply) - 1, Held(k, arrived, buffer),
           Len(Body(k + 1)) <= Len(buffer)
    PROVE  SubSeq(buffer, 1, Len(Body(k + 1))) = Body(k + 1)
<1> DEFINE n == k + 1 b == Len(Body(n))
<1>1. /\ n \in Nat /\ n # 0 /\ b \in Nat /\ b >= 1 /\ Len(buffer) \in Nat
      /\ \A p \in 1 .. Len(buffer) : p <= b => buffer[p] = Body(n)[p]
  BY HeldBlock
<1>2. Body(n) \in Seq(Units) /\ Len(Body(n)) = b BY <1>1, BodyIs
<1>3. \A q \in 1 .. Len(buffer) : buffer[q] \in Units BY ElementOfSeq DEF Held
<1>4. b <= Len(buffer) OBVIOUS
<1> HIDE DEF n, b
<1>5. \A q \in 1 .. b : q \in 1 .. Len(buffer) /\ q <= b BY <1>1, <1>4
<1>6. /\ SubSeq(buffer, 1, b) \in Seq(Units)
      /\ Len(SubSeq(buffer, 1, b)) = IF 1 <= b THEN b - 1 + 1 ELSE 0
      /\ \A i \in 1 .. b - 1 + 1 : SubSeq(buffer, 1, b)[i] = buffer[1 + i - 1]
  BY <1>1, <1>3, <1>5, SubSeqProperties
<1>7. Len(SubSeq(buffer, 1, b)) = b BY <1>1, <1>6
<1>8. ASSUME NEW i \in 1 .. b PROVE SubSeq(buffer, 1, b)[i] = Body(n)[i]
  <2>1. i \in 1 .. b - 1 + 1 /\ 1 + i - 1 = i BY <1>1
  <2>2. QED BY <1>1, <1>5, <1>6, <2>1
<1>9. SubSeq(buffer, 1, b) = Body(n) BY <1>2, <1>6, <1>7, <1>8, SeqEqual
<1>10. QED BY <1>9 DEF n, b

(* A block read from the buffer is the next one, and what remains follows.  *)
LEMMA NextBlock ==
    ASSUME Sane, NEW k \in 0 .. Len(reply), Held(k, arrived, buffer), BlockEnds(buffer) # {}
    PROVE  /\ k \in 0 .. Len(reply) - 1 /\ FirstBlock(buffer) = Body(k + 1)
           /\ Held(k + 1, arrived, Remainder(buffer))
<1> DEFINE n == k + 1 b == Len(Body(n))
<1>1. /\ k \in 0 .. Len(reply) - 1 /\ b + 2 <= Len(buffer) /\ Min(BlockEnds(buffer)) = b + 1
  BY FirstEnd
<1>2. /\ n \in Nat /\ n # 0 /\ b \in Nat /\ b >= 1 /\ Len(buffer) \in Nat /\ Offset(k) \in Nat
      /\ Offset(n) = Offset(k) + (b + 2)
      /\ \A p \in 1 .. Len(buffer) : p <= b => buffer[p] = Body(n)[p]
  BY <1>1, HeldBlock
<1>3. /\ buffer \in Seq(Units) /\ arrived \in Nat /\ arrived <= Len(Wire)
      /\ Offset(k) + Len(buffer) = arrived
      /\ \A p \in 1 .. Len(buffer) : buffer[p] = Blocks[Offset(k) + p]
  BY DEF Held
<1>4. Body(n) \in Seq(Units) /\ Len(Body(n)) = b BY <1>2, BodyIs
<1>5. \A q \in 1 .. Len(buffer) : buffer[q] \in Units BY <1>3, ElementOfSeq
<1> HIDE DEF n, b
<1>6. FirstBlock(buffer) = Body(n)
  <2>1. FirstBlock(buffer) = SubSeq(buffer, 1, b) BY <1>1, <1>2 DEF FirstBlock
  <2>2. b <= Len(buffer) BY <1>1, <1>2
  <2>3. QED BY <1>1, <2>1, <2>2, BeginsWithBody DEF n, b
<1>7. Held(n, arrived, Remainder(buffer))
  <2> DEFINE f == b + 3 l == Len(buffer) M == l - (b + 2) r == SubSeq(buffer, f, l)
  <2>1. Remainder(buffer) = r
    <3>1. Min(BlockEnds(buffer)) + 2 = b + 3 BY <1>1, <1>2
    <3>2. QED BY <3>1 DEF Remainder
  <2>2. f \in Int /\ l \in Int /\ M \in Nat /\ l - f + 1 = M /\ (f <= l <=> M # 0)
    BY <1>1, <1>2
  <2>3. \A i \in 1 .. M : f + i - 1 \in 1 .. l /\ f + i - 1 = b + 2 + i BY <1>2
  <2>4. \A q \in f .. l : buffer[q] \in Units
    <3>1. \A q \in f .. l : q \in 1 .. l BY <1>2
    <3>2. QED BY <1>5, <3>1
  <2>5. Offset(n) + M = arrived BY <1>2, <1>3
  <2>6. \A i \in 1 .. M : Offset(k) + (b + 2 + i) = Offset(n) + i BY <1>2
  <2>7. l = Len(buffer) OBVIOUS
  <2> HIDE DEF f, l, M
  <2>8. /\ r \in Seq(Units) /\ Len(r) = IF f <= l THEN l - f + 1 ELSE 0
        /\ \A i \in 1 .. l - f + 1 : r[i] = buffer[f + i - 1]
    BY <2>2, <2>4, SubSeqProperties
  <2>9. Len(r) = M BY <2>2, <2>8
  <2>10. ASSUME NEW i \in 1 .. M PROVE r[i] = Blocks[Offset(n) + i]
    <3>1. r[i] = buffer[f + i - 1] /\ f + i - 1 = b + 2 + i /\ f + i - 1 \in 1 .. Len(buffer)
      BY <2>2, <2>3, <2>7, <2>8
    <3>2. b + 2 + i \in 1 .. Len(buffer) /\ r[i] = buffer[b + 2 + i] BY <3>1
    <3>3. r[i] = Blocks[Offset(k) + (b + 2 + i)] BY <1>3, <3>2
    <3>4. QED BY <2>6, <3>3
  <2> HIDE DEF r
  <2>11. QED BY <1>3, <2>1, <2>5, <2>8, <2>9, <2>10 DEF Held
<1>8. QED BY <1>1, <1>6, <1>7 DEF n

(* What is left at the end is nothing, or the last block.                   *)
LEMMA LastBlock ==
    ASSUME Sane, NEW k \in 0 .. Len(reply), Held(k, arrived, buffer), BlockEnds(buffer) = {},
           arrived = Len(Wire)
    PROVE  \/ k = Len(reply) /\ Trimmed(buffer) = <<>>
           \/ k + 1 = Len(reply) /\ Trimmed(buffer) = Body(k + 1)
<1> DEFINE N == Len(reply) kept == {p \in DOMAIN buffer : buffer[p] # Newline}
<1>1. /\ N \in Nat /\ reply \in Seq(ServerEvents) /\ missing \in {0, 1, 2}
      /\ Len(Wire) = Len(Blocks) - missing /\ Len(Blocks) \in Nat /\ Len(Blocks) = Offset(N)
  BY WireIs, OffsetIs, LenProperties DEF Sane
<1>2. buffer \in Seq(Units) /\ Offset(k) + Len(buffer) = arrived BY DEF Held
<1>3. DOMAIN buffer = 1 .. Len(buffer) /\ Len(buffer) \in Nat BY <1>2, LenProperties
<1>4. Trimmed(buffer) = IF kept = {} THEN <<>> ELSE SubSeq(buffer, Min(kept), Max(kept))
  BY DEF Trimmed
<1>5. CASE k = N
  <2>1. Len(buffer) = 0 BY <1>5, HeldLast
  <2>2. kept = {} BY <1>3, <2>1
  <2>3. QED BY <1>4, <1>5, <2>2
<1>6. CASE k # N
  <2> DEFINE n == k + 1 b == Len(Body(n))
  <2>1. k \in 0 .. N - 1 /\ n \in 1 .. N BY <1>1, <1>6
  <2>2. /\ b \in Nat /\ b >= 1 /\ Offset(k) \in Nat /\ Offset(n) = Offset(k) + (b + 2)
        /\ \A p \in 1 .. Len(buffer) : p <= b => buffer[p] # Newline
        /\ \A p \in 1 .. Len(buffer) : p = b + 1 \/ p = b + 2 => buffer[p] = Newline
    BY <2>1, HeldBlock
  <2>3. Len(buffer) < b + 2 BY <2>1, FirstEnd
  <2> HIDE DEF b
  <2>4. n = N
    <3>1. SUFFICES ASSUME n # N PROVE FALSE OBVIOUS
    <3> DEFINE m == n + 1
    <3>2. m \in 1 .. N /\ m - 1 = n /\ m \in Nat /\ m # 0 BY <1>1, <2>1, <3>1
    <3> HIDE DEF m
    <3>3. Offset(m) <= Len(Blocks) BY <1>1, <3>2, BlocksAt
    <3>4. Offset(m) = Offset(n) + (Len(Body(m)) + 2) BY <1>1, <3>2, OffsetIs
    <3>5. Len(Body(m)) \in Nat /\ Len(Body(m)) >= 1 BY <3>2, BodyIs
    <3>6. QED BY <1>1, <1>2, <1>3, <2>2, <2>3, <3>3, <3>4, <3>5
  <2>5. b <= Len(buffer) BY <1>1, <1>2, <1>3, <2>2, <2>4
  <2>6. kept = 1 .. b
    <3>1. ASSUME NEW p \in 1 .. Len(buffer) PROVE p <= b <=> buffer[p] # Newline
      <4>1. p <= b \/ p = b + 1 \/ p = b + 2 BY <1>3, <2>2, <2>3
      <4>2. ~ (b + 1 <= b) /\ ~ (b + 2 <= b) BY <2>2
      <4>3. QED BY <2>2, <4>1, <4>2
    <3>2. \A p \in 1 .. b : p \in 1 .. Len(buffer) /\ p <= b BY <1>3, <2>2, <2>5
    <3>3. \A p \in 1 .. Len(buffer) : p <= b => p \in 1 .. b BY <1>3, <2>2
    <3>4. QED BY <1>3, <3>1, <3>2, <3>3
  <2> HIDE DEF kept
  <2>7. kept \in SUBSET Nat /\ kept # {} /\ (\A y \in kept : y <= b) /\ 1 \in kept /\ b \in kept
    BY <2>2, <2>6
  <2>8. Min(kept) = 1
    <3>1. Min(kept) \in kept /\ Min(kept) <= 1 BY <2>7, MinIs
    <3>2. QED BY <2>2, <2>6, <3>1
  <2>9. Max(kept) = b
    <3>1. Max(kept) \in kept /\ b <= Max(kept) BY <2>2, <2>7, MaxIs
    <3>2. QED BY <2>2, <2>6, <3>1
  <2>10. SubSeq(buffer, 1, b) = Body(n) BY <2>1, <2>5, BeginsWithBody DEF b
  <2>11. QED BY <1>4, <2>4, <2>7, <2>8, <2>9, <2>10
<1>7. QED BY <1>5, <1>6

(* The next block is collected, or refused because it makes the answer      *)
(* malformed.                                                               *)
LEMMA ParseGathers ==
    ASSUME Sane, NEW k \in 0 .. Len(reply) - 1, Gathered(k, names, content, call),
           NEW next, Parse(Body(k + 1), next)
    PROVE  \/ status' = "refused" /\ Malformed
           \/ status' = next /\ Gathered(k + 1, names', content', call')
<1> DEFINE n == k + 1 block == Body(n)
<1>1. Len(reply) \in Nat /\ reply \in Seq(ServerEvents) BY LenProperties DEF Sane
<1>2. n \in 1 .. Len(reply) /\ n \in Nat /\ n # 0 /\ n - 1 = k BY <1>1
<1>3. Len(block) \in Nat /\ Len(block) >= 1 /\ block[1] = <<n, "head">> /\ block \in Seq(Units)
  BY <1>2, BodyIs
<1>4. block[1][1] = n /\ block[1][2] = "head" BY <1>3
<1>5. 1 \in DOMAIN block
  <2>1. DOMAIN block = 1 .. Len(block) BY <1>3, LenProperties
  <2>2. QED BY <1>3, <2>1
<1>6. ~ SaysNothing(block) BY <1>4, <1>5 DEF SaysNothing
<1>7. IsEvent(block) BY <1>4, <1>6 DEF IsEvent
<1>8. Parse(block, next) OBVIOUS
<1> HIDE DEF block, n
<1>9. \/ Refuses(reply[n]) /\ status' = "refused"
      \/ ~ Refuses(reply[n]) /\ status' = next /\ Collect(reply[n])
  BY <1>4, <1>6, <1>7, <1>8 DEF Parse
<1>10. Gathered(n - 1, names, content, call) BY <1>2
<1>11. CASE Refuses(reply[n]) /\ status' = "refused"
  <2>1. Bad(n) BY <1>1, <1>2, <1>10, <1>11, RefusesBad
  <2>2. QED BY <1>1, <1>2, <1>11, <2>1, BadIsMalformed
<1>12. CASE ~ Refuses(reply[n]) /\ status' = next /\ Collect(reply[n])
  <2>1. Gathered(n, names', content', call') BY <1>1, <1>2, <1>10, <1>12, CollectGathers
  <2>2. QED BY <1>12, <2>1 DEF n
<1>13. QED BY <1>9, <1>11, <1>12

LEMMA StreamBegins == StreamInit => StreamInv
<1> SUFFICES ASSUME StreamInit PROVE StreamInv OBVIOUS
<1>1. reply \in Seq(ServerEvents)
  <2>1. reply \in UNION {[1 .. m -> ServerEvents] : m \in 0 .. MaxEvents} BY DEF StreamInit, SeqOf
  <2>2. PICK m \in 0 .. MaxEvents : reply \in [1 .. m -> ServerEvents] BY <2>1
  <2>5. MaxEvents \in Nat BY StreamAssumption
  <2>3. m \in Nat BY <2>5
  <2>4. QED BY <2>2, <2>3
<1>2. Sane BY <1>1 DEF StreamInit, Sane
<1>3. Len(reply) \in Nat /\ 0 \in 0 .. Len(reply) BY <1>1, LenProperties
<1>4. Held(0, arrived, buffer)
  <2>1. arrived = 0 /\ buffer = <<>> BY DEF StreamInit
  <2>2. <<>> \in Seq(Units) /\ Len(<<>>) = 0 OBVIOUS
  <2>3. Len(Wire) \in Nat /\ Offset(0) = 0 BY <1>1, <1>2, WireIs, OffsetIs DEF Sane
  <2>4. QED BY <2>1, <2>2, <2>3 DEF Held
<1>5. Gathered(0, names, content, call)
  <2>1. \A it : Latest(it, 0) = {} BY DEF Latest
  <2>2. Finished(0) = {} BY DEF Finished
  <2>3. TextsTo[0] = <<>> BY <1>1, TextsAre
  <2>4. \A j \in 1 .. 0 : FALSE OBVIOUS
  <2>5. QED BY <2>1, <2>2, <2>3, <2>4 DEF StreamInit, Gathered
<1>6. QED BY <1>2, <1>3, <1>4, <1>5 DEF StreamInit, StreamInv, Statuses

(* A step after which the stream is open.                                  *)
LEMMA Advances ==
    ASSUME reply' = reply, missing' = missing, Sane, status' = "open", NEW k \in 0 .. Len(reply),
           Held(k, arrived', buffer'), Gathered(k, names', content', call')
    PROVE  StreamInv'
<1>1. Sane' BY SameAnswer
<1>2. Held(k, arrived, buffer)' BY SameAnswer
<1>3. Gathered(k, names, content, call)' BY SameAnswer
<1>4. k \in 0 .. Len(reply') OBVIOUS
<1>5. QED BY <1>1, <1>2, <1>3, <1>4 DEF StreamInv, Statuses

LEMMA StreamSteps == StreamInv /\ [StreamNext]_streamVars => StreamInv'
<1> SUFFICES ASSUME StreamInv, [StreamNext]_streamVars PROVE StreamInv' OBVIOUS
<1>1. Sane /\ reply \in Seq(ServerEvents) /\ Len(reply) \in Nat
  BY LenProperties DEF StreamInv, Sane
<1>2. ASSUME status = "open"
      PROVE  \E k \in 0 .. Len(reply) : Held(k, arrived, buffer) /\ Gathered(k, names, content, call)
  BY <1>2 DEF StreamInv
<1>3. DOMAIN reply = 1 .. Len(reply) BY <1>1, LenProperties
<1>4. ASSUME NEW n \in 1 .. 5 * MaxEvents, ChunkArrives(n) PROVE StreamInv'
  <2> DEFINE chunk == SubSeq(Wire, arrived + 1, arrived + n)
  <2>1. /\ status = "open" /\ arrived + n <= Len(Wire) /\ arrived' = arrived + n
        /\ reply' = reply /\ missing' = missing /\ names' = names /\ content' = content
        /\ call' = call
    BY <1>4 DEF ChunkArrives, Reading
  <2>2. \/ status' = "not UTF-8" /\ (chunk[1][2] = "tail" \/ chunk[n][2] = "lead")
        \/ buffer' = buffer \o chunk /\ status' = status
    BY <1>4 DEF ChunkArrives
  <2>3. PICK k \in 0 .. Len(reply) : Held(k, arrived, buffer) /\ Gathered(k, names, content, call)
    BY <1>2, <2>1
  <2>4. n \in Nat /\ n # 0 /\ 1 \in 1 .. n /\ n \in 1 .. n
    <3>1. MaxEvents \in Nat BY StreamAssumption
    <3>2. 5 * MaxEvents \in Nat BY <3>1
    <3>3. QED BY <3>2
  <2>5. /\ Held(k, arrived + n, buffer \o chunk)
        /\ \A i \in 1 .. n : chunk[i][2] \in {"lead", "tail"} =>
              \E j \in DOMAIN reply : reply[j].kind = "text"
    BY <1>1, <2>1, <2>3, <2>4, ChunkIsHeld
  <2> HIDE DEF chunk
  <2>6. CASE status' = "not UTF-8" /\ (chunk[1][2] = "tail" \/ chunk[n][2] = "lead")
    <3>1. \E j \in DOMAIN reply : reply[j].kind = "text" BY <2>4, <2>5, <2>6
    <3>2. Sane' BY <1>1, <2>1, SameAnswer
    <3>3. QED BY <2>1, <2>6, <3>1, <3>2 DEF StreamInv, Statuses
  <2>7. CASE buffer' = buffer \o chunk /\ status' = status
    <3>1. Held(k, arrived', buffer') BY <2>1, <2>5, <2>7
    <3>2. Gathered(k, names', content', call') BY <2>1, <2>3
    <3>3. QED BY <1>1, <2>1, <2>3, <2>7, <3>1, <3>2, Advances
  <2>8. QED BY <2>2, <2>6, <2>7
<1>5. ASSUME ParseBlock PROVE StreamInv'
  <2>1. /\ status = "open" /\ BlockEnds(buffer) # {} /\ Parse(FirstBlock(buffer), "open")
        /\ buffer' = Remainder(buffer) /\ reply' = reply /\ missing' = missing
        /\ arrived' = arrived
    BY <1>5 DEF ParseBlock
  <2>2. PICK k \in 0 .. Len(reply) : Held(k, arrived, buffer) /\ Gathered(k, names, content, call)
    BY <1>2, <2>1
  <2>3. /\ k \in 0 .. Len(reply) - 1 /\ FirstBlock(buffer) = Body(k + 1)
        /\ Held(k + 1, arrived, Remainder(buffer))
    BY <1>1, <2>1, <2>2, NextBlock
  <2>4. Parse(Body(k + 1), "open") BY <2>1, <2>3
  <2>5. \/ status' = "refused" /\ Malformed
        \/ status' = "open" /\ Gathered(k + 1, names', content', call')
    BY <1>1, <2>2, <2>3, <2>4, ParseGathers
  <2>6. CASE status' = "refused" /\ Malformed
    <3>1. Sane' /\ Malformed' BY <1>1, <2>1, <2>6, SameAnswer
    <3>2. QED BY <2>6, <3>1 DEF StreamInv, Statuses
  <2>7. CASE status' = "open" /\ Gathered(k + 1, names', content', call')
    <3>1. Held(k + 1, arrived', buffer') /\ k + 1 \in 0 .. Len(reply) BY <1>1, <2>1, <2>3
    <3>2. QED BY <1>1, <2>1, <2>7, <3>1, Advances
  <2>8. QED BY <2>5, <2>6, <2>7
<1>6. ASSUME StreamEnds PROVE StreamInv'
  <2>1. /\ status = "open" /\ BlockEnds(buffer) = {} /\ arrived = Len(Wire)
        /\ Parse(Trimmed(buffer), "closed") /\ reply' = reply /\ missing' = missing
    BY <1>6 DEF StreamEnds, Reading
  <2>2. PICK k \in 0 .. Len(reply) : Held(k, arrived, buffer) /\ Gathered(k, names, content, call)
    BY <1>2, <2>1
  <2>3. \/ k = Len(reply) /\ Trimmed(buffer) = <<>>
        \/ k + 1 = Len(reply) /\ Trimmed(buffer) = Body(k + 1)
    BY <1>1, <2>1, <2>2, LastBlock
  <2>4. \/ status' = "refused" /\ Malformed
        \/ status' = "closed" /\ Gathered(Len(reply), names', content', call')
    <3>1. CASE k = Len(reply) /\ Trimmed(buffer) = <<>>
      <4>1. SaysNothing(<<>>)
        <5>1. DOMAIN <<>> = {} OBVIOUS
        <5>2. QED BY <5>1 DEF SaysNothing
      <4>2. status' = "closed" /\ names' = names /\ content' = content /\ call' = call
        BY <2>1, <3>1, <4>1 DEF Parse
      <4>3. QED BY <2>2, <3>1, <4>2
    <3>2. CASE k + 1 = Len(reply) /\ Trimmed(buffer) = Body(k + 1)
      <4>1. k \in 0 .. Len(reply) - 1 BY <1>1, <3>2
      <4>2. Parse(Body(k + 1), "closed") BY <2>1, <3>2
      <4>3. QED BY <1>1, <2>2, <3>2, <4>1, <4>2, ParseGathers
    <3>3. QED BY <2>3, <3>1, <3>2
  <2>5. Sane' /\ (Malformed' <=> Malformed) BY <1>1, <2>1, SameAnswer
  <2>6. Gathered(Len(reply), names', content', call') => Gathered(Len(reply), names, content, call)'
    <3> DEFINE n == Len(reply)
    <3>1. n' = n BY <2>1
    <3>2. Gathered(n, names', content', call') => Gathered(n, names, content, call)'
      <4>1. \A m : Gathered(m, names', content', call') => Gathered(m, names, content, call)'
        BY <2>1, SameAnswer
      <4>2. QED BY <3>1, <4>1
    <3>3. QED BY <3>1, <3>2
  <2>7. QED BY <2>4, <2>5, <2>6 DEF StreamInv, Statuses
<1>7. ASSUME ConnectionFails PROVE StreamInv'
  <2>1. status' = "lost" /\ reply' = reply /\ missing' = missing BY <1>7 DEF ConnectionFails
  <2>2. Sane' BY <1>1, <2>1, SameAnswer
  <2>3. QED BY <2>1, <2>2 DEF StreamInv, Statuses
<1>8. ASSUME UNCHANGED streamVars PROVE StreamInv'
  <2>1. /\ reply' = reply /\ missing' = missing /\ arrived' = arrived /\ buffer' = buffer
        /\ names' = names /\ content' = content /\ call' = call /\ status' = status
    BY <1>8 DEF streamVars
  <2>2. CASE status = "open"
    <3>1. PICK k \in 0 .. Len(reply) : Held(k, arrived, buffer) /\ Gathered(k, names, content, call)
      BY <1>2, <2>2
    <3>2. QED BY <1>1, <2>1, <2>2, <3>1, Advances
  <2>3. CASE status # "open"
    <3>1. /\ Sane' /\ (Malformed' <=> Malformed)
          /\ \A k : Gathered(k, names, content, call)' <=> Gathered(k, names', content', call')
      BY <1>1, <2>1, SameAnswer
    <3>2. Gathered(Len(reply), names, content, call) => Gathered(Len(reply), names, content, call)'
      BY <2>1, <3>1
    <3>3. QED BY <2>1, <2>3, <3>1, <3>2 DEF StreamInv
  <2>4. QED BY <2>2, <2>3
<1>9. QED BY <1>4, <1>5, <1>6, <1>7, <1>8 DEF StreamNext

(* What all the events say is the answer.                                  *)
LEMMA GatheredIsAnswer ==
    ASSUME Sane, Gathered(Len(reply), names, content, call)
    PROVE  ~ Malformed /\ Response = Answer
<1> DEFINE N == Len(reply) finished == {k \in DOMAIN reply : reply[k].kind = "done"}
<1>1. reply \in Seq(ServerEvents) /\ N \in Nat /\ DOMAIN reply = 1 .. N BY LenProperties DEF Sane
<1>2. \A j \in 1 .. N : ~ Bad(j) BY DEF Gathered
<1>3. ~ Malformed BY <1>1, <1>2, BadIsMalformed
<1>4. finished = Finished(N) BY <1>1 DEF Finished
<1>5. content = TextsTo[N] BY DEF Gathered
<1>6. \/ Finished(N) = {} /\ call = NoCall
      \/ /\ Finished(N) # {}
         /\ call = [item |-> reply[Min(Finished(N))].item, name |-> NameOf(Min(Finished(N)))]
  BY DEF Gathered
<1>7. Answer = IF finished # {}
               THEN <<"call", [item |-> reply[Min(finished)].item, name |-> NameOf(Min(finished))]>>
               ELSE IF "text" \in ToSet(content) THEN <<"message", content>>
               ELSE <<"message", <<"[empty response]">>>>
  BY <1>5 DEF Answer
<1> HIDE DEF N, finished
<1>8. CASE Finished(N) # {}
  <2> DEFINE m == Min(Finished(N))
  <2>1. Finished(N) \in SUBSET Nat BY <1>1 DEF Finished
  <2>2. m \in Finished(N) BY <1>8, <2>1, MinIs
  <2>3. call = [item |-> reply[m].item, name |-> NameOf(m)] BY <1>6, <1>8
  <2> HIDE DEF m
  <2>4. m \in 1 .. Len(reply) /\ reply[m].kind = "done" /\ ~ Bad(m)
    BY <1>2, <2>2 DEF Finished, N
  <2>5. HasName(m) BY <2>4 DEF Bad
  <2>6. NameOf(m) # "" BY <1>1, <2>4, <2>5, NameIsGiven
  <2>7. call # NoCall BY <2>3, <2>6 DEF NoCall
  <2>8. Response = <<"call", call>> BY <2>7 DEF Response
  <2>9. Answer = <<"call", [item |-> reply[m].item, name |-> NameOf(m)]>>
    BY <1>4, <1>7, <1>8 DEF m
  <2>10. QED BY <1>3, <2>3, <2>8, <2>9
<1>9. CASE Finished(N) = {}
  <2>1. call = NoCall BY <1>6, <1>9
  <2>2. N \in 0 .. N BY <1>1
  <2>3. content \in Seq(Texts) BY <1>1, <1>5, <2>2, TextsAre DEF N
  <2>4. \A p \in DOMAIN content : content[p] \in Texts BY <2>3, ElementOfSeq, LenProperties
  <2>5. "text" \in ToSet(content) <=> \E p \in DOMAIN content : content[p] = "text" BY DEF ToSet
  <2>6. \A p \in DOMAIN content : content[p] = "text" <=> content[p] # "blank" BY <2>4 DEF Texts
  <2>7. "text" \notin ToSet(content) <=> \A p \in DOMAIN content : content[p] = "blank"
    BY <2>5, <2>6
  <2>8. QED BY <1>3, <1>4, <1>7, <1>9, <2>1, <2>7 DEF Response
<1>10. QED BY <1>8, <1>9

(* The buffer begins with a block that is not parsed, of a text delivered  *)
(* in any chunks (openai.rs, stream_messages), and the names, the text and *)
(* the call collected are those of the blocks before it (llm.rs, respond).  *)
THEOREM StreamInvariant == StreamSpec => []StreamInv
<1>1. QED BY StreamBegins, StreamSteps, PTL DEF StreamSpec

(* An answer of any length, cut anywhere, is decided on whole; it is only   *)
(* refused if it is malformed or a character of its text was cut.           *)
THEOREM AnswersAreWhole == StreamSpec => []AnswerIsWhole
<1>1. StreamInv => AnswerIsWhole BY GatheredIsAnswer DEF StreamInv, AnswerIsWhole
<1>2. QED BY <1>1, StreamInvariant, PTL

(***************************************************************************)
(* THE PROMPTS                                                             *)
(***************************************************************************)
(* That the calls and the results of every prompt pair up, however many     *)
(* turns the agent takes and in whatever order it is spoken to.  At most    *)
(* one action is open at a time; the history built from the trajectory has  *)
(* answered every call but that action's.                                   *)
(***************************************************************************)

(***************************************************************************)
(* The inductive invariant                                                 *)
(***************************************************************************)
Words == {"agent", "user", "notice", "handoff", "error", "code", "load", "unload", "task"}
Events ==
    [kind : {"Message", "Notification", "Requested", "Scheduled", "Completed", "Failed",
             "LoopCompleted"},
     id : Actions \union {None}, what : Words]

Answers(k, j) ==
    trajectory[k].kind \in {"Completed", "Failed"} /\ trajectory[k].id = trajectory[j].id

(* The requests among the first n events that these do not answer.         *)
Open(n) ==
    {j \in 1 .. n : trajectory[j].kind = "Requested" /\ \A k \in j + 1 .. n : ~ Answers(k, j)}

(* An event that comes where the orchestrator records it.                  *)
Requests(i) ==
    /\ trajectory[i].id \in Actions /\ trajectory[i].what \in {"code", "load", "unload"}
    /\ Open(i - 1) = {}
    /\ \A j \in 1 .. i - 1 :
          trajectory[j].kind = "Requested" => trajectory[j].id # trajectory[i].id
Schedules(i) ==
    /\ i > 1 /\ trajectory[i - 1].kind = "Requested" /\ trajectory[i - 1].what = "code"
    /\ trajectory[i - 1].id = trajectory[i].id
Completes(i) ==
    \E j \in Open(i - 1) :
        trajectory[j].id = trajectory[i].id /\ trajectory[j].what = trajectory[i].what
Fails(i) ==
    \E j \in Open(i - 1) : trajectory[j].id = trajectory[i].id /\ trajectory[j].what = "code"
InPlace(i) ==
    /\ trajectory[i].kind = "Requested" => Requests(i)
    /\ trajectory[i].kind = "Scheduled" => Schedules(i)
    /\ trajectory[i].kind = "Completed" => Completes(i)
    /\ trajectory[i].kind = "Failed" => Fails(i)
    /\ trajectory[i].kind = "LoopCompleted" => Open(i - 1) = {}

WellOrdered ==
    trajectory \in Seq(Events) /\ \A i \in 1 .. Len(trajectory) : InPlace(i)

(* The answer to the open action.                                          *)
Awaited(e) ==
    /\ e \in Events
    /\ \E j \in Open(Len(trajectory)) :
          /\ e.id = trajectory[j].id
          /\ \/ e.kind = "Completed" /\ e.what = trajectory[j].what
             \/ e.kind = "Failed" /\ trajectory[j].what = "code"

(* An event of the agent's present loop.                                   *)
Recorded(e) ==
    /\ e.kind \in {"Scheduled", "Completed", "Failed"}
    /\ \E i \in DOMAIN trajectory :
          /\ trajectory[i] = e
          /\ \A j \in i .. Len(trajectory) : trajectory[j].kind # "LoopCompleted"

Known(e) == e.kind \in {"Message", "Notification"} \/ Recorded(e)

PromptInv ==
    /\ WellOrdered /\ inbox \in Seq(Events) /\ turns \in 0 .. MaxTurns
    /\ loop \in Actions \union {Idle, Ready}
    /\ \A i \in 1 .. Len(trajectory) :
          trajectory[i].kind = "Requested" => trajectory[i].id <= turns
    /\ queued = <<>> \/ (loop = Ready /\ \E e : queued = <<e>> /\ Awaited(e))
    /\ loop \in Actions => queued = <<>> /\
          \E j \in Open(Len(trajectory)) : trajectory[j].id = loop /\ trajectory[j].what = "code"
    /\ queued = <<>> /\ loop \notin Actions => Open(Len(trajectory)) = {}
    /\ \A p \in 1 .. Len(inbox) : Known(inbox[p])
    /\ CallsAreAnswered

(***************************************************************************)
(* Messages                                                                *)
(***************************************************************************)
Messages ==
    [kind : {"text", "call", "result"}, call : Nat \union {None}, what : Words,
     of : Actions \union {None}]

(* The calls of a list of messages have ids below next of their own, and    *)
(* each is followed by its one result; only the open calls are not yet.     *)
Numbered(M, next) ==
    \A p \in 1 .. Len(M) : M[p].kind \in {"call", "result"} => M[p].call \in 0 .. next - 1
Returned(M, open) ==
    \A p \in 1 .. Len(M) : M[p].kind = "call" =>
        \/ <<M[p].call, M[p].of>> \in open
        \/ \E r \in p + 1 .. Len(M) :
              M[r].kind = "result" /\ M[r].call = M[p].call /\ M[r].of = M[p].of
Called(M) ==
    \A r \in 1 .. Len(M) : M[r].kind = "result" =>
        \E p \in 1 .. r - 1 : M[p].kind = "call" /\ M[p].call = M[r].call
Single(M, kind) ==
    \A p, q \in 1 .. Len(M) :
        M[p].kind = kind /\ M[q].kind = kind /\ M[p].call = M[q].call => p = q
Owed(M, open) ==
    \A o \in open :
        /\ \E p \in 1 .. Len(M) : M[p].kind = "call" /\ M[p].call = o[1] /\ M[p].of = o[2]
        /\ \A r \in 1 .. Len(M) : M[r].kind = "result" => M[r].call # o[1]

Paired(M, next, open) ==
    /\ Numbered(M, next) /\ Returned(M, open) /\ Called(M)
    /\ Single(M, "call") /\ Single(M, "result") /\ Owed(M, open)

LEMMA OneMore ==
    ASSUME NEW M \in Seq(Messages), NEW m \in Messages
    PROVE  /\ Append(M, m) \in Seq(Messages) /\ Len(M) \in Nat /\ Len(Append(M, m)) = Len(M) + 1
           /\ \A p \in 1 .. Len(M) : Append(M, m)[p] = M[p] /\ p \in 1 .. Len(M) + 1
           /\ Append(M, m)[Len(M) + 1] = m
           /\ \A p \in 1 .. Len(M) + 1 : p \in 1 .. Len(M) \/ p = Len(M) + 1
<1>1. Len(M) \in Nat BY LenProperties
<1>2. /\ Append(M, m) \in Seq(Messages) /\ Len(Append(M, m)) = Len(M) + 1
      /\ \A p \in 1 .. Len(M) : Append(M, m)[p] = M[p]
      /\ Append(M, m)[Len(M) + 1] = m
  BY AppendProperties
<1>3. \A p \in 1 .. Len(M) : p \in 1 .. Len(M) + 1 BY <1>1
<1>4. \A p \in 1 .. Len(M) + 1 : p \in 1 .. Len(M) \/ p = Len(M) + 1 BY <1>1
<1>5. QED BY <1>1, <1>2, <1>3, <1>4

LEMMA TextIsShown ==
    ASSUME NEW M \in Seq(Messages), NEW next \in Nat, NEW open, Paired(M, next, open),
           NEW m \in Messages, m.kind = "text"
    PROVE  Paired(Append(M, m), next, open)
<1> DEFINE M2 == Append(M, m) l == Len(M)
<1>1. /\ l \in Nat /\ Len(M2) = l + 1 /\ M2[l + 1] = m
      /\ \A p \in 1 .. l : M2[p] = M[p] /\ p \in 1 .. l + 1
      /\ \A p \in 1 .. l + 1 : p \in 1 .. l \/ p = l + 1
  BY OneMore
<1> HIDE DEF M2
<1>2. \A p \in 1 .. l + 1 : M2[p].kind \in {"call", "result"} => p \in 1 .. l /\ M2[p] = M[p]
  BY <1>1
<1>3. Numbered(M2, next) BY <1>1, <1>2 DEF Paired, Numbered
<1>4. Returned(M2, open)
  <2>1. SUFFICES ASSUME NEW p \in 1 .. l + 1, M2[p].kind = "call",
                        <<M2[p].call, M2[p].of>> \notin open
                 PROVE  \E r \in p + 1 .. l + 1 :
                           M2[r].kind = "result" /\ M2[r].call = M2[p].call /\ M2[r].of = M2[p].of
    BY <1>1 DEF Returned
  <2>2. p \in 1 .. l /\ M2[p] = M[p] BY <1>2, <2>1
  <2>3. PICK r \in p + 1 .. l :
              M[r].kind = "result" /\ M[r].call = M[p].call /\ M[r].of = M[p].of
    BY <2>1, <2>2 DEF Paired, Returned
  <2>4. r \in 1 .. l /\ r \in p + 1 .. l + 1 BY <1>1, <2>2
  <2>5. QED BY <1>1, <2>2, <2>3, <2>4
<1>5. Called(M2)
  <2>1. SUFFICES ASSUME NEW r \in 1 .. l + 1, M2[r].kind = "result"
                 PROVE  \E p \in 1 .. r - 1 : M2[p].kind = "call" /\ M2[p].call = M2[r].call
    BY <1>1 DEF Called
  <2>2. r \in 1 .. l /\ M2[r] = M[r] BY <1>2, <2>1
  <2>3. PICK p \in 1 .. r - 1 : M[p].kind = "call" /\ M[p].call = M[r].call
    BY <2>1, <2>2 DEF Paired, Called
  <2>4. p \in 1 .. l BY <1>1, <2>2
  <2>5. QED BY <1>1, <2>2, <2>3, <2>4
<1>6. Single(M2, "call") BY <1>1, <1>2 DEF Paired, Single
<1>7. Single(M2, "result") BY <1>1, <1>2 DEF Paired, Single
<1>8. Owed(M2, open)
  <2>1. SUFFICES ASSUME NEW o \in open
                 PROVE  /\ \E p \in 1 .. l + 1 :
                              M2[p].kind = "call" /\ M2[p].call = o[1] /\ M2[p].of = o[2]
                        /\ \A r \in 1 .. l + 1 : M2[r].kind = "result" => M2[r].call # o[1]
    BY <1>1 DEF Owed
  <2>2. /\ \E p \in 1 .. l : M[p].kind = "call" /\ M[p].call = o[1] /\ M[p].of = o[2]
        /\ \A r \in 1 .. l : M[r].kind = "result" => M[r].call # o[1]
    BY DEF Paired, Owed
  <2>3. QED BY <1>1, <1>2, <2>2
<1>9. QED BY <1>3, <1>4, <1>5, <1>6, <1>7, <1>8 DEF Paired, M2

LEMMA CallIsShown ==
    ASSUME NEW M \in Seq(Messages), NEW next \in Nat, Paired(M, next, {}),
           NEW m \in Messages, m.kind = "call", m.call = next
    PROVE  Paired(Append(M, m), next + 1, {<<next, m.of>>})
<1> DEFINE M2 == Append(M, m) l == Len(M) open == {<<next, m.of>>}
<1>1. /\ l \in Nat /\ Len(M2) = l + 1 /\ M2[l + 1] = m
      /\ \A p \in 1 .. l : M2[p] = M[p] /\ p \in 1 .. l + 1
      /\ \A p \in 1 .. l + 1 : p \in 1 .. l \/ p = l + 1
  BY OneMore
<1> HIDE DEF M2
<1>2. \A p \in 1 .. l : M[p].kind \in {"call", "result"} => M[p].call \in 0 .. next - 1
  BY DEF Paired, Numbered
<1>3. \A p \in 1 .. l : M2[p].kind \in {"call", "result"} => M2[p].call # next BY <1>1, <1>2
<1>4. l + 1 \in 1 .. l + 1 BY <1>1
<1>5. Numbered(M2, next + 1)
  <2>1. \A c \in 0 .. next - 1 : c \in 0 .. (next + 1) - 1 OBVIOUS
  <2>2. next \in 0 .. (next + 1) - 1 OBVIOUS
  <2>3. QED BY <1>1, <1>2, <2>1, <2>2 DEF Numbered
<1>6. Returned(M2, open)
  <2>1. SUFFICES ASSUME NEW p \in 1 .. l + 1, M2[p].kind = "call", p # l + 1
                 PROVE  \E r \in p + 1 .. l + 1 :
                           M2[r].kind = "result" /\ M2[r].call = M2[p].call /\ M2[r].of = M2[p].of
    BY <1>1 DEF Returned
  <2>2. p \in 1 .. l /\ M2[p] = M[p] BY <1>1, <2>1
  <2>3. PICK r \in p + 1 .. l :
              M[r].kind = "result" /\ M[r].call = M[p].call /\ M[r].of = M[p].of
    BY <2>1, <2>2 DEF Paired, Returned
  <2>4. r \in 1 .. l /\ r \in p + 1 .. l + 1 BY <1>1, <2>2
  <2>5. QED BY <1>1, <2>2, <2>3, <2>4
<1>7. Called(M2)
  <2>1. SUFFICES ASSUME NEW r \in 1 .. l + 1, M2[r].kind = "result"
                 PROVE  \E p \in 1 .. r - 1 : M2[p].kind = "call" /\ M2[p].call = M2[r].call
    BY <1>1 DEF Called
  <2>2. r \in 1 .. l /\ M2[r] = M[r] BY <1>1, <2>1
  <2>3. PICK p \in 1 .. r - 1 : M[p].kind = "call" /\ M[p].call = M[r].call
    BY <2>1, <2>2 DEF Paired, Called
  <2>4. p \in 1 .. l BY <1>1, <2>2
  <2>5. QED BY <1>1, <2>2, <2>3, <2>4
<1>8. Single(M2, "call")
  <2>1. \A p, q \in 1 .. l :
           M[p].kind = "call" /\ M[q].kind = "call" /\ M[p].call = M[q].call => p = q
    BY DEF Paired, Single
  <2>2. QED BY <1>1, <1>3, <2>1 DEF Single
<1>9. Single(M2, "result") BY <1>1 DEF Paired, Single
<1>10. Owed(M2, open)
  <2>1. <<next, m.of>>[1] = next /\ <<next, m.of>>[2] = m.of OBVIOUS
  <2>2. \A r \in 1 .. l + 1 : M2[r].kind = "result" => M2[r].call # next BY <1>1, <1>3
  <2>3. QED BY <1>1, <1>4, <2>1, <2>2 DEF Owed
<1>11. QED BY <1>5, <1>6, <1>7, <1>8, <1>9, <1>10 DEF Paired, M2

LEMMA ResultIsShown ==
    ASSUME NEW M \in Seq(Messages), NEW next \in Nat, NEW c \in 0 .. next - 1,
           NEW m \in Messages, Paired(M, next, {<<c, m.of>>}), m.kind = "result", m.call = c
    PROVE  Paired(Append(M, m), next, {})
<1> DEFINE M2 == Append(M, m) l == Len(M)
<1>1. /\ l \in Nat /\ Len(M2) = l + 1 /\ M2[l + 1] = m
      /\ \A p \in 1 .. l : M2[p] = M[p] /\ p \in 1 .. l + 1
      /\ \A p \in 1 .. l + 1 : p \in 1 .. l \/ p = l + 1
  BY OneMore
<1> HIDE DEF M2
<1>2. <<c, m.of>>[1] = c /\ <<c, m.of>>[2] = m.of OBVIOUS
<1>3. PICK a \in 1 .. l : M[a].kind = "call" /\ M[a].call = c /\ M[a].of = m.of
  BY <1>2 DEF Paired, Owed
<1>4. \A r \in 1 .. l : M[r].kind = "result" => M[r].call # c BY <1>2 DEF Paired, Owed
<1>5. Numbered(M2, next) BY <1>1 DEF Paired, Numbered
<1>6. Returned(M2, {})
  <2>1. SUFFICES ASSUME NEW p \in 1 .. l + 1, M2[p].kind = "call"
                 PROVE  \E r \in p + 1 .. l + 1 :
                           M2[r].kind = "result" /\ M2[r].call = M2[p].call /\ M2[r].of = M2[p].of
    BY <1>1 DEF Returned
  <2>2. p \in 1 .. l /\ M2[p] = M[p] BY <1>1, <2>1
  <2>3. \/ <<M[p].call, M[p].of>> \in {<<c, m.of>>}
        \/ \E r \in p + 1 .. l :
              M[r].kind = "result" /\ M[r].call = M[p].call /\ M[r].of = M[p].of
    BY <2>1, <2>2 DEF Paired, Returned
  <2>4. CASE <<M[p].call, M[p].of>> = <<c, m.of>>
    <3>1. l + 1 \in p + 1 .. l + 1 BY <1>1, <2>2
    <3>2. M[p].call = c /\ M[p].of = m.of BY <2>4
    <3>3. QED BY <1>1, <2>2, <3>1, <3>2
  <2>5. ASSUME NEW r \in p + 1 .. l,
               M[r].kind = "result" /\ M[r].call = M[p].call /\ M[r].of = M[p].of
        PROVE  \E x \in p + 1 .. l + 1 :
                  M2[x].kind = "result" /\ M2[x].call = M2[p].call /\ M2[x].of = M2[p].of
    <3>1. r \in 1 .. l /\ r \in p + 1 .. l + 1 BY <1>1, <2>2
    <3>2. QED BY <1>1, <2>2, <2>5, <3>1
  <2>6. QED BY <2>3, <2>4, <2>5
<1>7. Called(M2)
  <2>1. SUFFICES ASSUME NEW r \in 1 .. l + 1, M2[r].kind = "result"
                 PROVE  \E p \in 1 .. r - 1 : M2[p].kind = "call" /\ M2[p].call = M2[r].call
    BY <1>1 DEF Called
  <2>2. CASE r \in 1 .. l
    <3>1. PICK p \in 1 .. r - 1 : M[p].kind = "call" /\ M[p].call = M[r].call
      BY <1>1, <2>1, <2>2 DEF Paired, Called
    <3>2. p \in 1 .. l BY <1>1, <2>2
    <3>3. QED BY <1>1, <2>2, <3>1, <3>2
  <2>3. CASE r = l + 1
    <3>1. a \in 1 .. r - 1 BY <1>1, <2>3
    <3>2. QED BY <1>1, <1>3, <2>3, <3>1
  <2>4. QED BY <1>1, <2>2, <2>3
<1>8. Single(M2, "call") BY <1>1 DEF Paired, Single
<1>9. Single(M2, "result")
  <2>1. \A p, q \in 1 .. l :
           M[p].kind = "result" /\ M[q].kind = "result" /\ M[p].call = M[q].call => p = q
    BY DEF Paired, Single
  <2>2. QED BY <1>1, <1>4, <2>1 DEF Single
<1>10. Owed(M2, {}) BY DEF Owed
<1>11. QED BY <1>5, <1>6, <1>7, <1>8, <1>9, <1>10 DEF Paired, M2

(***************************************************************************)
(* The history                                                             *)
(***************************************************************************)
Histories ==
    [messages : Seq(Messages), next : Nat, unassigned : Seq(Nat),
     callOf : [Actions -> Nat \union {None}], seen : SUBSET Actions]

LEMMA HistoryFields ==
    ASSUME NEW h \in Histories
    PROVE  /\ h.messages \in Seq(Messages) /\ h.next \in Nat /\ h.unassigned \in Seq(Nat)
           /\ h.callOf \in [Actions -> Nat \union {None}] /\ h.seen \in SUBSET Actions
BY DEF Histories

LEMMA NoHistoryIs == NoHistory \in Histories
<1>1. <<>> \in Seq(Messages) /\ <<>> \in Seq(Nat) OBVIOUS
<1>2. [a \in Actions |-> None] \in [Actions -> Nat \union {None}] OBVIOUS
<1>3. QED BY <1>1, <1>2 DEF NoHistory, Histories

LEMMA ShowIs ==
    ASSUME NEW h \in Histories, NEW m \in Messages
    PROVE  /\ Show(h, m) \in Histories /\ Show(h, m).messages = Append(h.messages, m)
           /\ Show(h, m).next = h.next /\ Show(h, m).unassigned = h.unassigned
           /\ Show(h, m).callOf = h.callOf /\ Show(h, m).seen = h.seen
<1>1. Append(h.messages, m) \in Seq(Messages) BY HistoryFields, AppendProperties
<1>2. QED BY <1>1 DEF Show, Histories

LEMMA ShowCallIs ==
    ASSUME NEW h \in Histories, NEW e \in Events
    PROVE  /\ ShowCall(h, e) \in Histories /\ Call(h.next, e) \in Messages
           /\ ShowCall(h, e).messages = Append(h.messages, Call(h.next, e))
           /\ ShowCall(h, e).next = h.next + 1
           /\ ShowCall(h, e).unassigned = Append(h.unassigned, h.next)
           /\ ShowCall(h, e).callOf = h.callOf /\ ShowCall(h, e).seen = h.seen
<1> DEFINE g == AllocateCallId(h)
<1>1. h.next \in Nat /\ h.unassigned \in Seq(Nat) BY HistoryFields
<1>2. Append(h.unassigned, h.next) \in Seq(Nat) BY <1>1, AppendProperties
<1>3. /\ g \in Histories /\ g.messages = h.messages /\ g.next = h.next + 1
      /\ g.unassigned = Append(h.unassigned, h.next)
      /\ g.callOf = h.callOf /\ g.seen = h.seen
  <2> DEFINE u == Append(h.unassigned, h.next)
  <2>1. g = [h EXCEPT !.next = h.next + 1, !.unassigned = u] BY DEF AllocateCallId, Histories
  <2>2. h.next + 1 \in Nat /\ u \in Seq(Nat) BY <1>1, <1>2
  <2> HIDE DEF u, g
  <2>3. /\ g \in Histories /\ g.messages = h.messages /\ g.next = h.next + 1
        /\ g.unassigned = u /\ g.callOf = h.callOf /\ g.seen = h.seen
    BY <2>1, <2>2 DEF Histories
  <2>4. QED BY <2>3 DEF u
<1>4. Call(h.next, e) \in Messages BY <1>1 DEF Call, Messages, Events
<1>5. ShowCall(h, e) = Show(g, Call(h.next, e)) BY DEF ShowCall
<1> HIDE DEF g
<1>6. QED BY <1>3, <1>4, <1>5, ShowIs

LEMMA BindIs ==
    ASSUME NEW h \in Histories, NEW a \in Actions, h.unassigned # <<>>
    PROVE  LET b == BindActionId(h, a)
           IN  /\ b \in Histories /\ b.messages = h.messages /\ b.next = h.next
               /\ b.unassigned = Tail(h.unassigned) /\ b.seen = h.seen \union {a}
               /\ b.callOf = [h.callOf EXCEPT ![a] = Head(h.unassigned)]
<1>1. h.unassigned \in Seq(Nat) /\ h.callOf \in [Actions -> Nat \union {None}] BY HistoryFields
<1>2. Head(h.unassigned) \in Nat /\ Tail(h.unassigned) \in Seq(Nat) BY <1>1, HeadTailProperties
<1>3. [h.callOf EXCEPT ![a] = Head(h.unassigned)] \in [Actions -> Nat \union {None}] BY <1>1, <1>2
<1>4. QED BY <1>2, <1>3 DEF BindActionId, Histories

(* The id a result is shown under.                                         *)
ResultCall(h, a) ==
    IF h.callOf[a] # None THEN h.callOf[a]
    ELSE IF h.unassigned # <<>> THEN Head(h.unassigned) ELSE h.next

LEMMA ShowResultIs ==
    ASSUME NEW h \in Histories, NEW e \in Events, e.id \in Actions
    PROVE  LET r == ShowResult(h, e) c == ResultCall(h, e.id)
           IN  /\ r \in Histories /\ c \in Nat /\ Result(c, e) \in Messages
               /\ r.messages = Append(h.messages, Result(c, e))
               /\ r.callOf = h.callOf /\ r.seen = h.seen \union {e.id}
               /\ r.unassigned = IF h.callOf[e.id] = None /\ h.unassigned # <<>>
                                 THEN Tail(h.unassigned) ELSE h.unassigned
               /\ r.next = IF h.callOf[e.id] = None /\ h.unassigned = <<>>
                           THEN h.next + 1 ELSE h.next
<1> DEFINE s == MarkSeen(h, e.id) c == ResultCall(h, e.id) a == e.id
<1>1. /\ h.next \in Nat /\ h.unassigned \in Seq(Nat)
      /\ h.callOf \in [Actions -> Nat \union {None}]
  BY HistoryFields
<1>2. h.unassigned # <<>> => Head(h.unassigned) \in Nat /\ Tail(h.unassigned) \in Seq(Nat)
  BY <1>1, HeadTailProperties
<1>3. h.callOf[a] \in Nat \union {None} BY <1>1
<1>4. c \in Nat BY <1>1, <1>2, <1>3 DEF ResultCall
<1>5. Result(c, e) \in Messages BY <1>4 DEF Result, Messages, Events
<1>6. /\ s \in Histories /\ s.messages = h.messages /\ s.next = h.next
      /\ s.unassigned = h.unassigned /\ s.callOf = h.callOf /\ s.seen = h.seen \union {a}
  BY DEF MarkSeen, Histories
<1> HIDE DEF s
<1>7. CASE h.callOf[a] # None
  <2>1. c = h.callOf[a] BY <1>7 DEF ResultCall
  <2>2. ShowResult(h, e) = Show(s, Result(c, e)) BY <1>7, <2>1 DEF ShowResult, s
  <2> HIDE DEF c
  <2>3. QED BY <1>4, <1>5, <1>6, <1>7, <2>2, ShowIs DEF c
<1>8. CASE h.callOf[a] = None /\ h.unassigned # <<>>
  <2> DEFINE t == [s EXCEPT !.unassigned = Tail(@)]
  <2>1. c = Head(h.unassigned) BY <1>8 DEF ResultCall
  <2>2. ShowResult(h, e) = Show(t, Result(c, e)) BY <1>8, <2>1 DEF ShowResult, s
  <2>3. /\ t \in Histories /\ t.messages = h.messages /\ t.next = h.next
        /\ t.unassigned = Tail(h.unassigned) /\ t.callOf = h.callOf /\ t.seen = h.seen \union {a}
    BY <1>2, <1>6, <1>8 DEF Histories
  <2> HIDE DEF t, c
  <2>4. QED BY <1>4, <1>5, <1>8, <2>2, <2>3, ShowIs DEF c
<1>9. CASE h.callOf[a] = None /\ h.unassigned = <<>>
  <2> DEFINE t == [s EXCEPT !.next = @ + 1]
  <2>1. c = h.next BY <1>9 DEF ResultCall
  <2>2. ShowResult(h, e) = Show(t, Result(c, e)) BY <1>9, <2>1 DEF ShowResult, s
  <2>3. /\ t \in Histories /\ t.messages = h.messages /\ t.next = h.next + 1
        /\ t.unassigned = h.unassigned /\ t.callOf = h.callOf /\ t.seen = h.seen \union {a}
    BY <1>1, <1>6 DEF Histories
  <2> HIDE DEF t, c
  <2>4. QED BY <1>4, <1>5, <1>9, <2>2, <2>3, ShowIs DEF c
<1>10. QED BY <1>7, <1>8, <1>9

LEMMA EventInPlace ==
    ASSUME WellOrdered, NEW i \in 1 .. Len(trajectory)
    PROVE  /\ trajectory[i] \in Events /\ InPlace(i) /\ Len(trajectory) \in Nat
           /\ trajectory[i].kind \in {"Requested", "Scheduled", "Completed", "Failed"} =>
                trajectory[i].id \in Actions
<1>1. /\ trajectory \in Seq(Events) /\ Len(trajectory) \in Nat
      /\ \A j \in 1 .. Len(trajectory) : InPlace(j)
  BY LenProperties DEF WellOrdered
<1>2. trajectory[i] \in Events BY <1>1, ElementOfSeq
<1>3. ASSUME NEW j \in 1 .. Len(trajectory), trajectory[j].kind = "Requested"
      PROVE  trajectory[j].id \in Actions
  BY <1>1, <1>3 DEF InPlace, Requests
<1>4. \A j \in Open(i - 1) : j \in 1 .. Len(trajectory) /\ trajectory[j].kind = "Requested"
  BY <1>1 DEF Open
<1>5. CASE trajectory[i].kind = "Scheduled"
  <2>1. i > 1 /\ trajectory[i - 1].kind = "Requested" /\ trajectory[i - 1].id = trajectory[i].id
    BY <1>1, <1>5 DEF InPlace, Schedules
  <2>2. i - 1 \in 1 .. Len(trajectory) BY <1>1, <2>1
  <2>3. QED BY <1>1, <1>2, <1>3, <2>1, <2>2
<1>6. CASE trajectory[i].kind = "Completed"
  <2>1. Completes(i) BY <1>1, <1>6 DEF InPlace
  <2>2. PICK j \in Open(i - 1) : trajectory[j].id = trajectory[i].id BY <2>1 DEF Completes
  <2>3. QED BY <1>1, <1>2, <1>3, <1>4, <2>2
<1>7. CASE trajectory[i].kind = "Failed"
  <2>1. Fails(i) BY <1>1, <1>7 DEF InPlace
  <2>2. PICK j \in Open(i - 1) : trajectory[j].id = trajectory[i].id BY <2>1 DEF Fails
  <2>3. QED BY <1>1, <1>2, <1>3, <1>4, <2>2
<1>8. QED BY <1>1, <1>2, <1>3, <1>5, <1>6, <1>7

(* What an event of each kind does.                                        *)
LEMMA AddEventIs ==
    ASSUME WellOrdered, NEW i \in 1 .. Len(trajectory), NEW h
    PROVE  LET e == trajectory[i] IN
           /\ e.kind \in {"Message", "Notification"} => AddEvent(h, i) = Show(h, Text(e.what))
           /\ e.kind = "Requested" =>
                AddEvent(h, i) = IF Included(e.what, i) THEN ShowCall(h, e) ELSE h
           /\ e.kind = "Scheduled" => AddEvent(h, i) = BindActionId(h, e.id)
           /\ e.kind = "Completed" =>
                AddEvent(h, i) = IF Included(e.what, i) THEN ShowResult(h, e) ELSE h
           /\ e.kind = "Failed" => AddEvent(h, i) = ShowResult(h, e)
           /\ e.kind = "LoopCompleted" => AddEvent(h, i) = h
<1> DEFINE e == trajectory[i]
<1>1. CASE e.kind \in {"Message", "Notification"} BY <1>1 DEF AddEvent
<1>2. CASE e.kind = "Requested" BY <1>2 DEF AddEvent, IncludesAction
<1>3. CASE e.kind = "Scheduled" BY <1>3 DEF AddEvent
<1>4. CASE e.kind = "Completed" BY <1>4 DEF AddEvent, IncludesOutcome
<1>5. CASE e.kind = "Failed" BY <1>5 DEF AddEvent
<1>6. CASE e.kind = "LoopCompleted" BY <1>6 DEF AddEvent
<1>7. QED BY <1>1, <1>2, <1>3, <1>4, <1>5, <1>6

LEMMA AddEventKeeps ==
    ASSUME WellOrdered, NEW i \in 1 .. Len(trajectory), NEW h \in Histories
    PROVE  AddEvent(h, i) \in Histories
<1> DEFINE e == trajectory[i]
<1>1. /\ e \in Events /\ (e.kind \in {"Scheduled", "Completed", "Failed"} => e.id \in Actions)
  BY EventInPlace
<1>2. e.kind \in {"Message", "Notification"} => AddEvent(h, i) \in Histories
  <2>1. Text(e.what) \in Messages BY <1>1 DEF Text, Messages, Events
  <2>2. QED BY <2>1, AddEventIs, ShowIs
<1>3. e.kind = "Requested" => AddEvent(h, i) \in Histories BY <1>1, AddEventIs, ShowCallIs
<1>4. e.kind = "Scheduled" => AddEvent(h, i) \in Histories
  <2>1. h.unassigned = <<>> => BindActionId(h, e.id) = h BY DEF BindActionId
  <2>2. QED BY <1>1, <2>1, AddEventIs, BindIs
<1>5. e.kind = "Completed" => AddEvent(h, i) \in Histories BY <1>1, AddEventIs, ShowResultIs
<1>6. e.kind = "Failed" => AddEvent(h, i) \in Histories BY <1>1, AddEventIs, ShowResultIs
<1>7. e.kind = "LoopCompleted" => AddEvent(h, i) \in Histories BY AddEventIs
<1>8. QED BY <1>1, <1>2, <1>3, <1>4, <1>5, <1>6, <1>7 DEF Events

LEMMA HistoryIs ==
    ASSUME WellOrdered
    PROVE  /\ History \in [0 .. Len(trajectory) -> Histories] /\ History[0] = NoHistory
           /\ \A n \in 1 .. Len(trajectory) : History[n] = AddEvent(History[n - 1], n)
<1> DEFINE N == Len(trajectory)
           F == [n \in 1 .. N |-> [h \in Histories |-> AddEvent(h, n)]]
           Turn(k, n) == IF n = 0 THEN NoHistory ELSE AddEvent(k[n - 1], n)
           Made(k) == k = [n \in 0 .. N |-> Turn(k, n)]
<1>1. N \in Nat BY LenProperties DEF WellOrdered
<1>2. F \in [1 .. N -> [Histories -> Histories]]
  <2>1. \A n \in 1 .. N, h \in Histories : AddEvent(h, n) \in Histories BY AddEventKeeps
  <2> HIDE DEF N
  <2>2. QED BY <2>1
<1>3. \A n \in 1 .. N, h \in Histories : F[n][h] = AddEvent(h, n) OBVIOUS
<1>4. History = CHOOSE k : Made(k) BY DEF History
<1> HIDE DEF F, N
<1>5. NoHistory \in Histories BY NoHistoryIs
<1>6. PICK g : IsLoop(g, N, Histories, NoHistory, F) BY <1>1, <1>2, <1>5, LoopExists
<1>7. g \in [0 .. N -> Histories] /\ g[0] = NoHistory BY <1>6 DEF IsLoop
<1>8. ASSUME NEW n \in 1 .. N PROVE g[n] = AddEvent(g[n - 1], n)
  <2>1. n - 1 \in 0 .. N BY <1>1
  <2>2. g[n - 1] \in Histories BY <1>7, <2>1
  <2>3. QED BY <1>3, <1>6, <2>2 DEF IsLoop
<1>9. ASSUME NEW n \in 0 .. N PROVE g[n] = Turn(g, n)
  <2>1. CASE n = 0 BY <1>7, <2>1
  <2>2. CASE n # 0
    <3>1. n \in 1 .. N BY <1>1, <2>2
    <3>2. QED BY <1>8, <2>2, <3>1
  <2>3. QED BY <2>1, <2>2
<1>10. Made(g)
  <2> HIDE DEF Turn
  <2>1. QED BY <1>7, <1>9
<1>11. Made(History)
  <2> HIDE DEF Made
  <2>1. QED BY <1>4, <1>10
<1> DEFINE S == {n \in 0 .. N : History[n] = g[n]}
<1>12. 0 \in S BY <1>1, <1>7, <1>11
<1>13. ASSUME NEW n \in 1 .. N, n - 1 \in S PROVE n \in S
  <2>1. n \in 0 .. N BY <1>1
  <2>2. History[n] = Turn(History, n) BY <1>11, <2>1
  <2>3. Turn(History, n) = Turn(g, n) BY <1>13
  <2> HIDE DEF Turn
  <2>4. QED BY <1>9, <2>1, <2>2, <2>3
<1> HIDE DEF S
<1>14. \A n \in 0 .. N : n \in S BY <1>1, <1>12, <1>13, BoundedInduction
<1>15. \A n \in 0 .. N : History[n] = g[n] BY <1>14 DEF S
<1>16. History = g
  <2>1. History = [n \in 0 .. N |-> History[n]] BY <1>11
  <2>2. QED BY <1>7, <1>15, <2>1
<1>17. QED BY <1>7, <1>8, <1>16 DEF N

(***************************************************************************)
(* The open action                                                         *)
(***************************************************************************)
LEMMA OneIsOpen ==
    ASSUME WellOrdered, NEW n \in 0 .. Len(trajectory), NEW j \in Open(n), NEW k \in Open(n)
    PROVE  j = k
<1>1. Len(trajectory) \in Nat BY LenProperties DEF WellOrdered
<1>2. ASSUME NEW a \in Open(n), NEW b \in Open(n), a < b PROVE FALSE
  <2>1. /\ a \in 1 .. n /\ b \in 1 .. n /\ trajectory[a].kind = "Requested"
        /\ trajectory[b].kind = "Requested" /\ \A x \in a + 1 .. n : ~ Answers(x, a)
    BY DEF Open
  <2>2. b \in 1 .. Len(trajectory) /\ a \in 1 .. b - 1 BY <1>1, <1>2, <2>1
  <2>3. Open(b - 1) = {} BY <2>1, <2>2, EventInPlace DEF InPlace, Requests
  <2>4. \A x \in a + 1 .. b - 1 : x \in a + 1 .. n BY <1>1, <2>1, <2>2
  <2>5. a \in Open(b - 1) BY <2>1, <2>2, <2>4 DEF Open
  <2>6. QED BY <2>3, <2>5
<1>3. j \in Nat /\ k \in Nat BY <1>1 DEF Open
<1>4. j < k \/ k < j \/ j = k BY <1>3
<1>5. QED BY <1>2, <1>4

(* What one more event does to the requests open.                          *)
LEMMA OpenStep ==
    \A n \in Nat : n # 0 => \A j : j \in Open(n) <=>
        \/ j = n /\ trajectory[n].kind = "Requested"
        \/ j \in Open(n - 1) /\ ~ Answers(n, j)
<1> SUFFICES ASSUME NEW n \in Nat, n # 0, NEW j
             PROVE  j \in Open(n) <=> \/ j = n /\ trajectory[n].kind = "Requested"
                                      \/ j \in Open(n - 1) /\ ~ Answers(n, j)
  OBVIOUS
<1>1. j \in 1 .. n => j = n \/ j \in 1 .. n - 1 OBVIOUS
<1>2. j \in 1 .. n - 1 => j \in 1 .. n /\ j # n /\ n \in j + 1 .. n OBVIOUS
<1>3. ASSUME j \in 1 .. n - 1, NEW k \in j + 1 .. n PROVE k = n \/ k \in j + 1 .. n - 1
  <2>1. j \in Nat /\ k \in Nat BY <1>3
  <2>2. QED BY <1>3, <2>1
<1>4. ASSUME j \in 1 .. n - 1, NEW k \in j + 1 .. n - 1 PROVE k \in j + 1 .. n
  BY <1>4
<1>5. \A k \in n + 1 .. n : FALSE OBVIOUS
<1>6. n \in 1 .. n OBVIOUS
<1>7. ASSUME j \in Open(n), j # n PROVE j \in Open(n - 1) /\ ~ Answers(n, j)
  <2>1. /\ j \in 1 .. n /\ trajectory[j].kind = "Requested"
        /\ \A k \in j + 1 .. n : ~ Answers(k, j)
    BY <1>7 DEF Open
  <2>2. j \in 1 .. n - 1 BY <1>1, <1>7, <2>1
  <2>3. QED BY <1>2, <1>4, <2>1, <2>2 DEF Open
<1>8. ASSUME j \in Open(n), j = n PROVE trajectory[n].kind = "Requested" BY <1>8 DEF Open
<1>9. ASSUME j = n, trajectory[n].kind = "Requested" PROVE j \in Open(n)
  BY <1>5, <1>6, <1>9 DEF Open
<1>10. ASSUME j \in Open(n - 1), ~ Answers(n, j) PROVE j \in Open(n)
  <2>1. /\ j \in 1 .. n - 1 /\ trajectory[j].kind = "Requested"
        /\ \A k \in j + 1 .. n - 1 : ~ Answers(k, j)
    BY <1>10 DEF Open
  <2>2. \A k \in j + 1 .. n : ~ Answers(k, j) BY <1>3, <1>10, <2>1
  <2>3. QED BY <1>2, <2>1, <2>2 DEF Open
<1>11. QED BY <1>7, <1>8, <1>9, <1>10

LEMMA OpenAfter ==
    ASSUME WellOrdered, NEW n \in 1 .. Len(trajectory)
    PROVE  /\ trajectory[n].kind = "Requested" => Open(n) = {n}
           /\ trajectory[n].kind \in {"Completed", "Failed"} => Open(n) = {}
           /\ trajectory[n].kind \notin {"Requested", "Completed", "Failed"} =>
                Open(n) = Open(n - 1)
<1>1. /\ Len(trajectory) \in Nat /\ n \in Nat /\ n # 0 /\ n - 1 \in 0 .. Len(trajectory)
      /\ InPlace(n)
  BY EventInPlace
<1>8. \A j : j \in Open(n) <=> \/ j = n /\ trajectory[n].kind = "Requested"
                               \/ j \in Open(n - 1) /\ ~ Answers(n, j)
  BY <1>1, OpenStep
<1>9. CASE trajectory[n].kind = "Requested"
  <2>1. Open(n - 1) = {} BY <1>1, <1>9 DEF InPlace, Requests
  <2>2. QED BY <1>8, <1>9, <2>1
<1>10. CASE trajectory[n].kind \in {"Completed", "Failed"}
  <2>1. PICK j \in Open(n - 1) : trajectory[j].id = trajectory[n].id
    BY <1>1, <1>10 DEF InPlace, Completes, Fails
  <2>2. \A k \in Open(n - 1) : k = j BY <1>1, OneIsOpen
  <2>3. Answers(n, j) BY <1>10, <2>1 DEF Answers
  <2>4. QED BY <1>8, <1>10, <2>2, <2>3
<1>11. CASE trajectory[n].kind \notin {"Requested", "Completed", "Failed"}
  <2>1. \A j : ~ Answers(n, j) BY <1>11 DEF Answers
  <2>2. QED BY <1>8, <1>11, <2>1
<1>12. QED BY <1>9, <1>10, <1>11

(***************************************************************************)
(* The transcript                                                          *)
(***************************************************************************)
LEMMA LoopStartIs ==
    ASSUME WellOrdered
    PROVE  /\ LoopStart \in 0 .. Len(trajectory)
           /\ LoopStart # 0 => trajectory[LoopStart].kind = "LoopCompleted"
           /\ \A i \in 1 .. Len(trajectory) :
                trajectory[i].kind = "LoopCompleted" => i <= LoopStart
<1> DEFINE S == {0} \union {i \in DOMAIN trajectory : trajectory[i].kind = "LoopCompleted"}
<1>1. Len(trajectory) \in Nat /\ DOMAIN trajectory = 1 .. Len(trajectory)
  BY LenProperties DEF WellOrdered
<1>2. S \in SUBSET Nat /\ S # {} /\ \A y \in S : y <= Len(trajectory) BY <1>1
<1>3. Max(S) \in S /\ \A y \in S : y <= Max(S) BY <1>1, <1>2, MaxIs
<1>4. LoopStart = Max(S) BY DEF LoopStart
<1>5. QED BY <1>1, <1>3, <1>4

Shown(j) == Included(trajectory[j].what, j)

LEMMA CodeIsShown == \A j : trajectory[j].what = "code" => Shown(j) BY DEF Shown, Included

(* An action and its outcome are of the same loop.                         *)
LEMMA OutcomeIsShown ==
    ASSUME WellOrdered, NEW n \in 1 .. Len(trajectory), NEW j \in Open(n - 1),
           trajectory[n].what = trajectory[j].what
    PROVE  Included(trajectory[n].what, n) <=> Shown(j)
<1> DEFINE L == LoopStart N == Len(trajectory)
<1>1. /\ N \in Nat /\ L \in 0 .. N /\ n \in 1 .. N
      /\ L # 0 => trajectory[L].kind = "LoopCompleted"
  BY LoopStartIs, LenProperties DEF WellOrdered
<1> HIDE DEF L, N
<1>2. /\ j \in 1 .. n - 1 /\ trajectory[j].kind = "Requested"
      /\ \A k \in j + 1 .. n - 1 : ~ Answers(k, j)
  BY DEF Open
<1>3. ASSUME n > L PROVE j > L
  <2>1. SUFFICES ASSUME ~ (j > L) PROVE FALSE OBVIOUS
  <2>2. j \in Nat /\ j # 0 /\ j <= L /\ L # 0 BY <1>1, <1>2, <2>1
  <2>3. L \in 1 .. Len(trajectory) BY <1>1, <2>2 DEF N
  <2>4. Open(L - 1) = {} BY <1>1, <2>2, <2>3, EventInPlace DEF InPlace
  <2>5. j # L BY <1>1, <1>2, <2>2
  <2>6. j \in 1 .. L - 1 BY <1>1, <2>2, <2>5
  <2>7. \A k \in j + 1 .. L - 1 : k \in j + 1 .. n - 1 BY <1>1, <1>2, <1>3, <2>2
  <2>8. j \in Open(L - 1) BY <1>2, <2>6, <2>7 DEF Open
  <2>9. QED BY <2>4, <2>8
<1>4. j > L => n > L BY <1>1, <1>2
<1>5. QED BY <1>3, <1>4 DEF Shown, Included, L

(* The call of the open action waits for its result, under an id that is    *)
(* not assigned yet or is the action's.                                     *)
Waits(h, n, j, c) ==
    /\ Paired(h.messages, h.next, {<<c, trajectory[j].id>>})
    /\ \/ h.unassigned = <<c>> /\ h.callOf[trajectory[j].id] = None
       \/ h.unassigned = <<>> /\ h.callOf[trajectory[j].id] = c /\ j < n

Quiet(h) == Paired(h.messages, h.next, {}) /\ h.unassigned = <<>>

Reported(i) ==
    \/ trajectory[i].kind \in {"Scheduled", "Failed"}
    \/ trajectory[i].kind = "Completed" /\ Included(trajectory[i].what, i)

Standing(h, n) ==
    \/ \E j \in Open(n), c \in 0 .. h.next - 1 : Shown(j) /\ Waits(h, n, j, c)
    \/ (\A j \in Open(n) : ~ Shown(j)) /\ Quiet(h)
Bound(h, n) ==
    \A a \in Actions : h.callOf[a] # None =>
        a \in h.seen /\ \E i \in 1 .. n : trajectory[i].kind = "Requested" /\ trajectory[i].id = a
Seen(h, n) == \A i \in 1 .. n : Reported(i) => trajectory[i].id \in h.seen

(* The history after n events.                                             *)
Follows(h, n) == h \in Histories /\ Standing(h, n) /\ Bound(h, n) /\ Seen(h, n)

LEMMA BoundGrows ==
    ASSUME NEW n \in Nat, n # 0, NEW h, NEW g, Bound(h, n - 1), g.callOf = h.callOf,
           \A a \in h.seen : a \in g.seen
    PROVE  Bound(g, n)
<1>1. \A i \in 1 .. n - 1 : i \in 1 .. n OBVIOUS
<1>2. ASSUME NEW a \in Actions, g.callOf[a] # None
      PROVE  /\ a \in g.seen
             /\ \E i \in 1 .. n : trajectory[i].kind = "Requested" /\ trajectory[i].id = a
  BY <1>1, <1>2 DEF Bound
<1>3. QED BY <1>2 DEF Bound

LEMMA SeenGrows ==
    ASSUME NEW n \in Nat, n # 0, NEW h, NEW g, Seen(h, n - 1), \A a \in h.seen : a \in g.seen,
           Reported(n) => trajectory[n].id \in g.seen
    PROVE  Seen(g, n)
<1>1. \A i \in 1 .. n : i = n \/ i \in 1 .. n - 1 OBVIOUS
<1>2. QED BY <1>1 DEF Seen

(* The result of an action shown closes its call.                          *)
LEMMA ResultCloses ==
    ASSUME WellOrdered, NEW n \in 1 .. Len(trajectory), NEW h, Follows(h, n - 1),
           NEW j \in Open(n - 1), Shown(j), trajectory[j].id = trajectory[n].id,
           trajectory[n].kind \in {"Completed", "Failed"}
    PROVE  Follows(ShowResult(h, trajectory[n]), n)
<1> DEFINE e == trajectory[n] g == ShowResult(h, e) a == e.id
<1>1. /\ e \in Events /\ a \in Actions /\ n \in Nat /\ n # 0 /\ n - 1 \in 0 .. Len(trajectory)
  BY EventInPlace
<1>2. h \in Histories /\ Standing(h, n - 1) /\ Bound(h, n - 1) /\ Seen(h, n - 1) BY DEF Follows
<1>3. PICK c \in 0 .. h.next - 1 : Waits(h, n - 1, j, c)
  <2>1. PICK k \in Open(n - 1), c \in 0 .. h.next - 1 : Waits(h, n - 1, k, c)
    BY <1>2 DEF Standing
  <2>2. k = j BY <1>1, OneIsOpen
  <2>3. QED BY <2>1, <2>2
<1>4. /\ Paired(h.messages, h.next, {<<c, a>>})
      /\ \/ h.unassigned = <<c>> /\ h.callOf[a] = None
         \/ h.unassigned = <<>> /\ h.callOf[a] = c
  BY <1>3 DEF Waits
<1>5. h.next \in Nat /\ h.messages \in Seq(Messages) BY <1>2, HistoryFields
<1>6. c \in Nat /\ c # None BY <1>5 DEF None
<1>7. <<c>> # <<>> /\ Head(<<c>>) = c /\ Tail(<<c>>) = <<>> OBVIOUS
<1>8. ResultCall(h, a) = c BY <1>4, <1>6, <1>7 DEF ResultCall
<1>9. /\ g \in Histories /\ Result(c, e) \in Messages
      /\ g.messages = Append(h.messages, Result(c, e)) /\ g.callOf = h.callOf
      /\ g.seen = h.seen \union {a}
      /\ g.unassigned = IF h.callOf[a] = None /\ h.unassigned # <<>>
                        THEN Tail(h.unassigned) ELSE h.unassigned
      /\ g.next = IF h.callOf[a] = None /\ h.unassigned = <<>> THEN h.next + 1 ELSE h.next
  BY <1>1, <1>2, <1>8, ShowResultIs
<1> HIDE DEF g, e
<1>10. g.unassigned = <<>> /\ g.next = h.next BY <1>4, <1>6, <1>7, <1>9
<1>11. Result(c, e).kind = "result" /\ Result(c, e).call = c /\ Result(c, e).of = a
  BY DEF Result
<1>12. Paired(g.messages, g.next, {}) BY <1>4, <1>5, <1>9, <1>10, <1>11, ResultIsShown
<1>13. Open(n) = {} BY OpenAfter
<1>14. Standing(g, n) BY <1>10, <1>12, <1>13 DEF Standing, Quiet
<1>15. \A x \in h.seen : x \in g.seen BY <1>9
<1>16. Bound(g, n) BY <1>1, <1>2, <1>9, <1>15, BoundGrows
<1>17. trajectory[n].id \in g.seen BY <1>9 DEF e
<1>18. Seen(g, n) BY <1>1, <1>2, <1>15, <1>17, SeenGrows
<1>19. QED BY <1>9, <1>14, <1>16, <1>18 DEF Follows, g, e

LEMMA FollowsNext ==
    ASSUME WellOrdered, NEW n \in 1 .. Len(trajectory), NEW h, Follows(h, n - 1)
    PROVE  Follows(AddEvent(h, n), n)
<1> DEFINE e == trajectory[n] g == AddEvent(h, n)
<1>1. /\ e \in Events /\ n \in Nat /\ n # 0 /\ n - 1 \in 0 .. Len(trajectory) /\ InPlace(n)
      /\ e.kind \in {"Requested", "Scheduled", "Completed", "Failed"} => e.id \in Actions
  BY EventInPlace
<1>2. h \in Histories /\ Standing(h, n - 1) /\ Bound(h, n - 1) /\ Seen(h, n - 1) BY DEF Follows
<1>3. h.next \in Nat /\ h.messages \in Seq(Messages) BY <1>2, HistoryFields
<1>4. ASSUME g = h, ~ Reported(n) PROVE Bound(g, n) /\ Seen(g, n)
  BY <1>1, <1>2, <1>4, BoundGrows, SeenGrows
<1>5. CASE e.kind \in {"Message", "Notification"}
  <2> DEFINE m == Text(e.what)
  <2>1. m \in Messages /\ m.kind = "text" BY <1>1 DEF Text, Messages, Events
  <2>2. g = Show(h, m) BY <1>5, AddEventIs
  <2> HIDE DEF g, m
  <2>3. /\ g \in Histories /\ g.messages = Append(h.messages, m) /\ g.next = h.next
        /\ g.unassigned = h.unassigned /\ g.callOf = h.callOf /\ g.seen = h.seen
    BY <1>2, <2>1, <2>2, ShowIs
  <2>4. Open(n) = Open(n - 1) BY <1>5, OpenAfter
  <2>5. ASSUME NEW open, Paired(h.messages, h.next, open) PROVE Paired(g.messages, g.next, open)
    BY <1>3, <2>1, <2>3, <2>5, TextIsShown
  <2>6. Standing(g, n)
    <3>1. CASE \E j \in Open(n - 1), c \in 0 .. h.next - 1 : Shown(j) /\ Waits(h, n - 1, j, c)
      <4>1. PICK j \in Open(n - 1), c \in 0 .. h.next - 1 : Shown(j) /\ Waits(h, n - 1, j, c)
        BY <3>1
      <4>2. j \in Nat /\ (j < n - 1 => j < n) BY <1>1 DEF Open
      <4>3. Waits(g, n, j, c) BY <2>3, <2>5, <4>1, <4>2 DEF Waits
      <4>4. QED BY <2>3, <2>4, <4>1, <4>3 DEF Standing
    <3>2. CASE (\A j \in Open(n - 1) : ~ Shown(j)) /\ Quiet(h)
      BY <2>3, <2>4, <2>5, <3>2 DEF Standing, Quiet
    <3>3. QED BY <1>2, <3>1, <3>2 DEF Standing
  <2>7. ~ Reported(n) BY <1>5 DEF Reported
  <2>8. Bound(g, n) /\ Seen(g, n) BY <1>1, <1>2, <2>3, <2>7, BoundGrows, SeenGrows
  <2>9. QED BY <2>3, <2>6, <2>8 DEF Follows, g
<1>6. CASE e.kind = "Requested"
  <2>1. Open(n - 1) = {} /\ Open(n) = {n} /\ e.id \in Actions
    BY <1>1, <1>6, OpenAfter DEF InPlace, Requests
  <2>2. Quiet(h) BY <1>2, <2>1 DEF Standing
  <2>3. ~ Reported(n) BY <1>6 DEF Reported
  <2>4. CASE ~ Shown(n)
    <3>1. g = h BY <1>6, <2>4, AddEventIs DEF Shown
    <3>2. Standing(g, n) BY <2>1, <2>2, <2>4, <3>1 DEF Standing
    <3>3. QED BY <1>2, <1>4, <2>3, <3>1, <3>2 DEF Follows
  <2>5. CASE Shown(n)
    <3> DEFINE m == Call(h.next, e) c == h.next
    <3>1. g = ShowCall(h, e) BY <1>6, <2>5, AddEventIs DEF Shown
    <3> HIDE DEF g
    <3>2. /\ g \in Histories /\ m \in Messages /\ g.messages = Append(h.messages, m)
          /\ g.next = h.next + 1 /\ g.unassigned = Append(h.unassigned, h.next)
          /\ g.callOf = h.callOf /\ g.seen = h.seen
      BY <1>1, <1>2, <3>1, ShowCallIs
    <3>3. m.kind = "call" /\ m.call = h.next /\ m.of = e.id BY DEF Call
    <3> HIDE DEF m
    <3>4. Paired(g.messages, g.next, {<<c, e.id>>})
      BY <1>3, <2>2, <3>2, <3>3, CallIsShown DEF Quiet
    <3>5. g.unassigned = <<c>>
      <4>1. Append(<<>>, c) = <<c>> OBVIOUS
      <4>2. QED BY <2>2, <3>2, <4>1 DEF Quiet
    <3>6. g.callOf[e.id] = None
      <4>1. SUFFICES ASSUME h.callOf[e.id] # None PROVE FALSE BY <3>2
      <4>2. PICK i \in 1 .. n - 1 : trajectory[i].kind = "Requested" /\ trajectory[i].id = e.id
        BY <1>2, <2>1, <4>1 DEF Bound
      <4>3. QED BY <1>1, <1>6, <4>2 DEF InPlace, Requests
    <3>7. c \in 0 .. g.next - 1 BY <1>3, <3>2
    <3>8. Waits(g, n, n, c) BY <3>4, <3>5, <3>6 DEF Waits
    <3>9. Standing(g, n) BY <2>1, <2>5, <3>7, <3>8 DEF Standing
    <3>10. Bound(g, n) /\ Seen(g, n) BY <1>1, <1>2, <2>3, <3>2, BoundGrows, SeenGrows
    <3>11. QED BY <3>2, <3>9, <3>10 DEF Follows, g
  <2>6. QED BY <2>4, <2>5
<1>7. CASE e.kind = "Scheduled"
  <2> DEFINE j == n - 1
  <2>1. /\ n > 1 /\ trajectory[j].kind = "Requested" /\ trajectory[j].what = "code"
        /\ trajectory[j].id = e.id /\ e.id \in Actions
    BY <1>1, <1>7 DEF InPlace, Schedules
  <2>2. j \in 1 .. Len(trajectory) /\ j < n BY <1>1, <2>1
  <2>3. Open(n - 1) = {j} /\ Open(n) = {j} BY <1>7, <2>1, <2>2, OpenAfter
  <2>4. Shown(j) BY <2>1, CodeIsShown
  <2>5. PICK c \in 0 .. h.next - 1 : Waits(h, n - 1, j, c) BY <1>2, <2>3, <2>4 DEF Standing
  <2>6. /\ Paired(h.messages, h.next, {<<c, e.id>>}) /\ h.unassigned = <<c>>
        /\ h.callOf[e.id] = None
    <3>1. ~ (j < n - 1) BY <1>1
    <3>2. QED BY <2>1, <2>5, <3>1 DEF Waits
  <2>7. <<c>> # <<>> /\ Head(<<c>>) = c /\ Tail(<<c>>) = <<>> OBVIOUS
  <2>8. g = BindActionId(h, e.id) BY <1>7, AddEventIs
  <2> HIDE DEF g
  <2>9. /\ g \in Histories /\ g.messages = h.messages /\ g.next = h.next
        /\ g.unassigned = <<>> /\ g.seen = h.seen \union {e.id}
        /\ g.callOf = [h.callOf EXCEPT ![e.id] = c]
    <3>1. PICK id \in Actions : id = e.id BY <2>1
    <3>2. h \in Histories /\ h.unassigned # <<>> BY <1>2, <2>6, <2>7
    <3>3. g = BindActionId(h, id) BY <2>8, <3>1
    <3>4. /\ g \in Histories /\ g.messages = h.messages /\ g.next = h.next
          /\ g.unassigned = Tail(h.unassigned) /\ g.seen = h.seen \union {id}
          /\ g.callOf = [h.callOf EXCEPT ![id] = Head(h.unassigned)]
      BY <3>2, <3>3, BindIs
    <3>5. Tail(h.unassigned) = <<>> /\ Head(h.unassigned) = c BY <2>6, <2>7
    <3>6. QED BY <3>1, <3>4, <3>5
  <2>10. h.callOf \in [Actions -> Nat \union {None}] BY <1>2, HistoryFields
  <2>11. g.callOf[e.id] = c /\ \A a \in Actions : a # e.id => g.callOf[a] = h.callOf[a]
    <3>1. PICK id \in Actions : id = e.id BY <2>1
    <3>2. g.callOf = [h.callOf EXCEPT ![id] = c] BY <2>9, <3>1
    <3>3. g.callOf[id] = c /\ \A a \in Actions : a # id => g.callOf[a] = h.callOf[a]
      BY <2>10, <3>2
    <3>4. QED BY <3>1, <3>3
  <2>12. Waits(g, n, j, c)
    <3>1. Paired(g.messages, g.next, {<<c, trajectory[j].id>>}) BY <2>1, <2>6, <2>9
    <3>2. g.callOf[trajectory[j].id] = c BY <2>1, <2>11
    <3>3. QED BY <2>2, <2>9, <3>1, <3>2 DEF Waits
  <2>13. Standing(g, n) BY <2>3, <2>4, <2>9, <2>12 DEF Standing
  <2>14. Bound(g, n)
    <3>1. \A i \in 1 .. n - 1 : i \in 1 .. n BY <1>1
    <3>2. ASSUME NEW a \in Actions, g.callOf[a] # None
          PROVE  /\ a \in g.seen
                 /\ \E i \in 1 .. n : trajectory[i].kind = "Requested" /\ trajectory[i].id = a
      <4>1. CASE a = e.id
        <5>1. j \in 1 .. n BY <1>1, <2>1
        <5>2. QED BY <2>1, <2>9, <4>1, <5>1
      <4>2. CASE a # e.id
        <5>1. h.callOf[a] # None BY <2>11, <3>2, <4>2
        <5>2. /\ a \in h.seen
              /\ \E i \in 1 .. n - 1 : trajectory[i].kind = "Requested" /\ trajectory[i].id = a
          BY <1>2, <5>1 DEF Bound
        <5>3. QED BY <2>9, <3>1, <5>2
      <4>3. QED BY <4>1, <4>2
    <3>3. QED BY <3>2 DEF Bound
  <2>15. (\A x \in h.seen : x \in g.seen) /\ trajectory[n].id \in g.seen BY <2>9
  <2>16. Seen(g, n) BY <1>1, <1>2, <2>15, SeenGrows
  <2>17. QED BY <2>9, <2>13, <2>14, <2>16 DEF Follows, g
<1>8. CASE e.kind = "Completed"
  <2>1. PICK j \in Open(n - 1) : trajectory[j].id = e.id /\ trajectory[j].what = e.what
    BY <1>1, <1>8 DEF InPlace, Completes
  <2>2. Included(e.what, n) <=> Shown(j) BY <2>1, OutcomeIsShown
  <2>3. CASE Shown(j)
    <3>1. g = ShowResult(h, e) BY <1>8, <2>2, <2>3, AddEventIs
    <3>2. QED BY <1>8, <2>1, <2>3, <3>1, ResultCloses
  <2>4. CASE ~ Shown(j)
    <3>1. g = h /\ ~ Reported(n) BY <1>8, <2>2, <2>4, AddEventIs DEF Reported
    <3>2. \A k \in Open(n - 1) : k = j BY <1>1, OneIsOpen
    <3>3. Quiet(h) BY <1>2, <2>4, <3>2 DEF Standing
    <3>4. Open(n) = {} BY <1>8, OpenAfter
    <3>5. Standing(g, n) BY <3>1, <3>3, <3>4 DEF Standing
    <3>6. QED BY <1>2, <1>4, <3>1, <3>5 DEF Follows
  <2>5. QED BY <2>3, <2>4
<1>9. CASE e.kind = "Failed"
  <2>1. PICK j \in Open(n - 1) : trajectory[j].id = e.id /\ trajectory[j].what = "code"
    BY <1>1, <1>9 DEF InPlace, Fails
  <2>2. Shown(j) BY <2>1, CodeIsShown
  <2>3. g = ShowResult(h, e) BY <1>9, AddEventIs
  <2>4. QED BY <1>9, <2>1, <2>2, <2>3, ResultCloses
<1>10. CASE e.kind = "LoopCompleted"
  <2>1. g = h BY <1>10, AddEventIs
  <2>2. Open(n - 1) = {} /\ Open(n) = {} BY <1>1, <1>10, OpenAfter DEF InPlace
  <2>3. Standing(g, n) BY <1>2, <2>1, <2>2 DEF Standing
  <2>4. ~ Reported(n) BY <1>10 DEF Reported
  <2>5. QED BY <1>2, <1>4, <2>1, <2>3, <2>4 DEF Follows
<1>11. QED BY <1>1, <1>5, <1>6, <1>7, <1>8, <1>9, <1>10 DEF Events

(* When no action is open, the transcript has answered every call.         *)
LEMMA TranscriptIs ==
    ASSUME WellOrdered
    PROVE  /\ Transcript \in Histories /\ Seen(Transcript, Len(trajectory))
           /\ \A a \in Actions : Transcript.callOf[a] # None => a \in Transcript.seen
           /\ Open(Len(trajectory)) = {} => Quiet(Transcript)
<1> DEFINE N == Len(trajectory) S == {n \in 0 .. N : Follows(History[n], n)}
<1>1. N \in Nat BY LenProperties DEF WellOrdered
<1>2. /\ History[0] = NoHistory
      /\ \A n \in 1 .. N : History[n] = AddEvent(History[n - 1], n)
  BY HistoryIs
<1> HIDE DEF N
<1>3. Follows(NoHistory, 0)
  <2>1. Open(0) = {} BY DEF Open
  <2>2. NoHistory.messages = <<>> /\ NoHistory.unassigned = <<>> /\ NoHistory.next = 0
        /\ NoHistory.callOf = [a \in Actions |-> None]
    BY DEF NoHistory
  <2>3. Len(<<>>) = 0 /\ \A p \in 1 .. 0 : FALSE OBVIOUS
  <2>4. Paired(<<>>, 0, {})
    BY <2>3 DEF Paired, Numbered, Returned, Called, Single, Owed
  <2>5. Standing(NoHistory, 0) BY <2>1, <2>2, <2>4 DEF Standing, Quiet
  <2>6. Bound(NoHistory, 0) BY <2>2 DEF Bound
  <2>7. Seen(NoHistory, 0) BY <2>3 DEF Seen
  <2>8. QED BY <2>5, <2>6, <2>7, NoHistoryIs DEF Follows
<1>4. 0 \in S BY <1>1, <1>2, <1>3
<1>5. ASSUME NEW n \in 1 .. N, n - 1 \in S PROVE n \in S
  <2>1. n \in 1 .. Len(trajectory) /\ n \in 0 .. N BY <1>1 DEF N
  <2>2. Follows(AddEvent(History[n - 1], n), n) BY <1>5, <2>1, FollowsNext
  <2>3. QED BY <1>2, <2>1, <2>2
<1> HIDE DEF S
<1>6. \A n \in 0 .. N : n \in S BY <1>1, <1>4, <1>5, BoundedInduction
<1>7. N \in S BY <1>1, <1>6
<1>8. Follows(Transcript, N) BY <1>7 DEF S, Transcript, N
<1>9. QED BY <1>8 DEF Follows, Standing, Bound, N

(***************************************************************************)
(* The inbox                                                               *)
(***************************************************************************)
(* What the inbox adds to a prompt: texts, and the results of unload_skill  *)
(* under ids of their own.                                                 *)
Extra(M, from, to) ==
    /\ \A p \in 1 .. Len(M) :
          \/ M[p].kind = "text"
          \/ M[p].kind = "result" /\ M[p].what = "unload" /\ M[p].call \in from .. to - 1
    /\ Single(M, "result")

Added ==
    {h \in Histories :
        /\ h.unassigned = <<>> /\ Transcript.seen \subseteq h.seen
        /\ h.callOf = Transcript.callOf /\ Transcript.next <= h.next
        /\ Extra(h.messages, Transcript.next, h.next)}

LEMMA ExtraGrows ==
    ASSUME NEW M \in Seq(Messages), NEW from \in Nat, NEW to \in Nat, from <= to,
           Extra(M, from, to), NEW m \in Messages
    PROVE  /\ m.kind = "text" => Extra(Append(M, m), from, to)
           /\ m.kind = "result" /\ m.what = "unload" /\ m.call = to =>
                Extra(Append(M, m), from, to + 1)
<1> DEFINE M2 == Append(M, m) l == Len(M)
<1>1. /\ l \in Nat /\ Len(M2) = l + 1 /\ M2[l + 1] = m
      /\ \A p \in 1 .. l : M2[p] = M[p] /\ p \in 1 .. l + 1
      /\ \A p \in 1 .. l + 1 : p \in 1 .. l \/ p = l + 1
  BY OneMore
<1> HIDE DEF M2
<1>2. /\ \A p \in 1 .. l :
            \/ M[p].kind = "text"
            \/ M[p].kind = "result" /\ M[p].what = "unload" /\ M[p].call \in from .. to - 1
      /\ \A p, q \in 1 .. l :
            M[p].kind = "result" /\ M[q].kind = "result" /\ M[p].call = M[q].call => p = q
  BY DEF Extra, Single
<1>3. ASSUME m.kind = "text" PROVE Extra(M2, from, to)
  <2>1. Single(M2, "result") BY <1>1, <1>2, <1>3 DEF Single
  <2>2. QED BY <1>1, <1>2, <1>3, <2>1 DEF Extra
<1>4. ASSUME m.kind = "result", m.what = "unload", m.call = to PROVE Extra(M2, from, to + 1)
  <2>1. \A c \in from .. to - 1 : c \in from .. (to + 1) - 1 /\ c # to OBVIOUS
  <2>2. to \in from .. (to + 1) - 1 OBVIOUS
  <2>3. \A p \in 1 .. l : M[p].kind = "result" => M[p].call # to BY <1>2, <2>1
  <2>4. Single(M2, "result") BY <1>1, <1>2, <1>4, <2>3 DEF Single
  <2>5. \A p \in 1 .. l + 1 :
            \/ M2[p].kind = "text"
            \/ M2[p].kind = "result" /\ M2[p].what = "unload" /\ M2[p].call \in from .. (to + 1) - 1
    BY <1>1, <1>2, <1>4, <2>1, <2>2
  <2>6. QED BY <1>1, <2>4, <2>5 DEF Extra
<1>5. QED BY <1>3, <1>4 DEF M2

(* Of the outcomes in the inbox, the transcript lacks those of unload_skill.*)
LEMMA InboxEventAdds ==
    ASSUME WellOrdered, Quiet(Transcript), NEW h \in Added, NEW e \in Events, Known(e)
    PROVE  AddInboxEvent(h, e) \in Added
<1> DEFINE T == Transcript g == AddInboxEvent(h, e)
<1>1. /\ T \in Histories /\ T.next \in Nat /\ Seen(T, Len(trajectory))
      /\ \A a \in Actions : T.callOf[a] # None => a \in T.seen
  BY TranscriptIs, HistoryFields
<1> HIDE DEF T
<1>2. /\ h \in Histories /\ h.unassigned = <<>> /\ T.seen \subseteq h.seen /\ h.callOf = T.callOf
      /\ T.next <= h.next /\ Extra(h.messages, T.next, h.next)
  BY DEF Added, T
<1>3. h.next \in Nat /\ h.messages \in Seq(Messages) BY <1>2, HistoryFields
<1>4. CASE e.kind \in {"Message", "Notification"}
  <2> DEFINE m == Text(e.what)
  <2>1. m \in Messages /\ m.kind = "text" BY DEF Text, Messages, Events
  <2>2. g = Show(h, m) BY <1>4 DEF AddInboxEvent
  <2> HIDE DEF g, m
  <2>3. /\ g \in Histories /\ g.messages = Append(h.messages, m) /\ g.next = h.next
        /\ g.unassigned = h.unassigned /\ g.callOf = h.callOf /\ g.seen = h.seen
    BY <1>2, <2>1, <2>2, ShowIs
  <2>4. Extra(g.messages, T.next, g.next) BY <1>1, <1>2, <1>3, <2>1, <2>3, ExtraGrows
  <2>5. QED BY <1>2, <2>3, <2>4 DEF Added, T, g
<1>5. CASE e.kind \notin {"Message", "Notification"}
  <2>1. PICK i \in DOMAIN trajectory :
              /\ trajectory[i] = e
              /\ \A j \in i .. Len(trajectory) : trajectory[j].kind # "LoopCompleted"
    BY <1>5 DEF Known, Recorded
  <2>2. e.kind \in {"Scheduled", "Completed", "Failed"} BY <1>5 DEF Known, Recorded
  <2>3. i \in 1 .. Len(trajectory) BY <2>1, LenProperties DEF WellOrdered
  <2>4. e.id \in Actions /\ InPlace(i) /\ Len(trajectory) \in Nat
    BY <2>1, <2>2, <2>3, EventInPlace
  <2>5. i > LoopStart
    <3>1. LoopStart \in 0 .. Len(trajectory) BY LoopStartIs
    <3>2. ASSUME LoopStart >= i PROVE FALSE
      <4>1. LoopStart \in i .. Len(trajectory) /\ LoopStart # 0 BY <2>3, <2>4, <3>1, <3>2
      <4>2. QED BY <2>1, <4>1, LoopStartIs
    <3>3. QED BY <2>3, <2>4, <3>1, <3>2
  <2>6. CASE e.id \in h.seen
    <3>1. g = h BY <1>5, <2>6 DEF AddInboxEvent
    <3>2. QED BY <3>1
  <2>7. CASE e.id \notin h.seen
    <3>1. ~ Reported(i) BY <1>1, <1>2, <2>1, <2>3, <2>7 DEF Seen
    <3>2. e.kind = "Completed" /\ ~ Included(e.what, i) BY <2>1, <2>2, <3>1 DEF Reported
    <3>3. e.what = "unload"
      <4>1. PICK j \in Open(i - 1) : trajectory[j].what = e.what
        BY <2>1, <2>4, <3>2 DEF InPlace, Completes
      <4>2. j \in 1 .. Len(trajectory) /\ trajectory[j].kind = "Requested"
        BY <2>3, <2>4, <4>1 DEF Open
      <4>3. e.what \in {"code", "load", "unload"}
        BY <4>1, <4>2, EventInPlace DEF InPlace, Requests
      <4>4. QED BY <2>5, <3>2, <4>3 DEF Included
    <3>4. g = ShowResult(h, e) BY <1>5, <2>7, <3>2 DEF AddInboxEvent
    <3> HIDE DEF g
    <3>5. h.callOf[e.id] = None BY <1>1, <1>2, <2>4, <2>7
    <3>6. ResultCall(h, e.id) = h.next BY <1>2, <3>5 DEF ResultCall
    <3> DEFINE m == Result(h.next, e)
    <3>7. /\ g \in Histories /\ m \in Messages /\ g.messages = Append(h.messages, m)
          /\ g.callOf = h.callOf /\ g.seen = h.seen \union {e.id}
          /\ g.unassigned = <<>> /\ g.next = h.next + 1
      BY <1>2, <2>4, <3>4, <3>5, <3>6, ShowResultIs
    <3>8. m.kind = "result" /\ m.what = "unload" /\ m.call = h.next BY <3>3 DEF Result
    <3> HIDE DEF m
    <3>9. Extra(g.messages, T.next, g.next) BY <1>1, <1>2, <1>3, <3>7, <3>8, ExtraGrows
    <3>10. T.next <= g.next BY <1>1, <1>2, <1>3, <3>7
    <3>11. QED BY <1>2, <3>7, <3>9, <3>10 DEF Added, T, g
  <2>8. QED BY <2>6, <2>7
<1>6. QED BY <1>4, <1>5

LEMMA InboxIs ==
    ASSUME WellOrdered, Quiet(Transcript), NEW given \in Seq(Events),
           \A p \in 1 .. Len(given) : Known(given[p])
    PROVE  \E h \in Added : InboxMessages(given) = h.messages
<1> DEFINE N == Len(given) base == [Transcript EXCEPT !.messages = <<>>]
           F == [n \in 1 .. N |-> [h \in Added |-> AddInboxEvent(h, given[n])]]
           Turn(k, n) == IF n = 0 THEN base ELSE AddInboxEvent(k[n - 1], given[n])
           Made(k) == k = [n \in 0 .. N |-> Turn(k, n)]
           after == CHOOSE k : Made(k)
<1>1. N \in Nat BY LenProperties
<1>2. F \in [1 .. N -> [Added -> Added]]
  <2>1. \A n \in 1 .. N : given[n] \in Events /\ Known(given[n]) BY ElementOfSeq
  <2>2. \A n \in 1 .. N, h \in Added : AddInboxEvent(h, given[n]) \in Added
    BY <2>1, InboxEventAdds
  <2> HIDE DEF N
  <2>3. QED BY <2>2
<1>3. \A n \in 1 .. N, h \in Added : F[n][h] = AddInboxEvent(h, given[n]) OBVIOUS
<1>4. InboxMessages(given) = after[N].messages BY DEF InboxMessages
<1>5. base \in Added
  <2>1. Transcript \in Histories /\ Transcript.unassigned = <<>> BY TranscriptIs DEF Quiet
  <2>2. Transcript.next \in Nat BY <2>1, HistoryFields
  <2>3. <<>> \in Seq(Messages) OBVIOUS
  <2>4. /\ base \in Histories /\ base.messages = <<>> /\ base.next = Transcript.next
        /\ base.unassigned = <<>> /\ base.callOf = Transcript.callOf
        /\ base.seen = Transcript.seen
    BY <2>1, <2>3 DEF Histories
  <2> HIDE DEF base
  <2>5. Len(<<>>) = 0 /\ \A p \in 1 .. 0 : FALSE OBVIOUS
  <2>6. Extra(<<>>, Transcript.next, base.next) BY <2>5 DEF Extra, Single
  <2>7. Transcript.next <= base.next BY <2>2, <2>4
  <2>8. QED BY <2>4, <2>6, <2>7 DEF Added
<1> HIDE DEF F, N, base
<1>6. PICK g : IsLoop(g, N, Added, base, F) BY <1>1, <1>2, <1>5, LoopExists
<1>7. g \in [0 .. N -> Added] /\ g[0] = base BY <1>6 DEF IsLoop
<1>8. ASSUME NEW n \in 1 .. N PROVE g[n] = AddInboxEvent(g[n - 1], given[n])
  <2>1. n - 1 \in 0 .. N BY <1>1
  <2>2. g[n - 1] \in Added BY <1>7, <2>1
  <2>3. QED BY <1>3, <1>6, <2>2 DEF IsLoop
<1>9. ASSUME NEW n \in 0 .. N PROVE g[n] = Turn(g, n)
  <2>1. CASE n = 0 BY <1>7, <2>1
  <2>2. CASE n # 0
    <3>1. n \in 1 .. N BY <1>1, <2>2
    <3>2. QED BY <1>8, <2>2, <3>1
  <2>3. QED BY <2>1, <2>2
<1>10. Made(g)
  <2> HIDE DEF Turn
  <2>1. QED BY <1>7, <1>9
<1>11. Made(after)
  <2> HIDE DEF Made
  <2>1. QED BY <1>10
<1> HIDE DEF after
<1> DEFINE S == {n \in 0 .. N : after[n] = g[n]}
<1>12. 0 \in S BY <1>1, <1>7, <1>11
<1>13. ASSUME NEW n \in 1 .. N, n - 1 \in S PROVE n \in S
  <2>1. n \in 0 .. N BY <1>1
  <2>2. after[n] = Turn(after, n) BY <1>11, <2>1
  <2>3. Turn(after, n) = Turn(g, n) BY <1>13
  <2> HIDE DEF Turn
  <2>4. QED BY <1>9, <2>1, <2>2, <2>3
<1> HIDE DEF S
<1>14. \A n \in 0 .. N : n \in S BY <1>1, <1>12, <1>13, BoundedInduction
<1>15. N \in 0 .. N BY <1>1
<1>16. after[N] = g[N] /\ g[N] \in Added BY <1>7, <1>14, <1>15 DEF S
<1>17. QED BY <1>4, <1>16 DEF N

(***************************************************************************)
(* The prompt                                                              *)
(***************************************************************************)
AnsweredIn(M) ==
    /\ \A c \in 1 .. Len(M) : M[c].kind = "call" =>
          \E r \in 1 .. Len(M) :
              M[r].kind = "result" /\ c < r /\ M[c].call = M[r].call /\ M[c].of = M[r].of
    /\ \A r \in 1 .. Len(M) : M[r].kind = "result" => M[r].what = "unload" \/
          \E c \in 1 .. Len(M) : M[c].kind = "call" /\ M[c].call = M[r].call
    /\ Single(M, "call") /\ Single(M, "result")

LEMMA Pieces ==
    ASSUME NEW S, NEW M \in Seq(S), NEW E \in Seq(S)
    PROVE  /\ M \o E \in Seq(S) /\ Len(M) \in Nat /\ Len(E) \in Nat
           /\ Len(M \o E) = Len(M) + Len(E)
           /\ \A p \in 1 .. Len(M) : (M \o E)[p] = M[p] /\ p \in 1 .. Len(M) + Len(E)
           /\ \A p \in 1 .. Len(M) + Len(E) : p \notin 1 .. Len(M) =>
                p - Len(M) \in 1 .. Len(E) /\ (M \o E)[p] = E[p - Len(M)]
<1>1. Len(M) \in Nat /\ Len(E) \in Nat BY LenProperties
<1>2. /\ M \o E \in Seq(S) /\ Len(M \o E) = Len(M) + Len(E)
      /\ \A p \in 1 .. Len(M) + Len(E) :
           (M \o E)[p] = IF p <= Len(M) THEN M[p] ELSE E[p - Len(M)]
  BY ConcatProperties
<1>3. \A p \in 1 .. Len(M) : p \in 1 .. Len(M) + Len(E) /\ p <= Len(M) BY <1>1
<1>4. \A p \in 1 .. Len(M) + Len(E) : p \notin 1 .. Len(M) =>
        ~ (p <= Len(M)) /\ p - Len(M) \in 1 .. Len(E)
  BY <1>1
<1>5. QED BY <1>1, <1>2, <1>3, <1>4

(* A transcript whose calls are answered, and what the inbox adds to it.    *)
LEMMA PairsUp ==
    ASSUME NEW M \in Seq(Messages), NEW E \in Seq(Messages), NEW next \in Nat, NEW to \in Nat,
           Paired(M, next, {}), Extra(E, next, to)
    PROVE  AnsweredIn(M \o E)
<1> DEFINE C == M \o E l == Len(M) n == Len(M) + Len(E)
<1>1. /\ l \in Nat /\ Len(E) \in Nat /\ Len(C) = n /\ n \in Nat
      /\ \A p \in 1 .. l : C[p] = M[p] /\ p \in 1 .. n
      /\ \A p \in 1 .. n : p \notin 1 .. l => p - l \in 1 .. Len(E) /\ C[p] = E[p - l]
  BY Pieces
<1> HIDE DEF C, l, n
<1>2. \A p \in 1 .. n : p \notin 1 .. l =>
        \/ C[p].kind = "text"
        \/ C[p].kind = "result" /\ C[p].what = "unload" /\ C[p].call \in next .. to - 1
  BY <1>1 DEF Extra
<1>3. \A p \in 1 .. l : M[p].kind \in {"call", "result"} => M[p].call \in 0 .. next - 1
  BY DEF Paired, Numbered, l
<1>4. ASSUME NEW c \in 1 .. n, C[c].kind = "call"
      PROVE  /\ c \in 1 .. l /\ C[c] = M[c]
             /\ \E r \in 1 .. n :
                   C[r].kind = "result" /\ c < r /\ C[c].call = C[r].call /\ C[c].of = C[r].of
  <2>1. c \in 1 .. l /\ C[c] = M[c] BY <1>1, <1>2, <1>4
  <2>2. PICK r \in c + 1 .. l : M[r].kind = "result" /\ M[r].call = M[c].call /\ M[r].of = M[c].of
    BY <1>4, <2>1 DEF Paired, Returned, l
  <2>3. r \in 1 .. l /\ c < r BY <1>1, <2>1
  <2>4. QED BY <1>1, <2>1, <2>2, <2>3
<1>5. ASSUME NEW r \in 1 .. n, C[r].kind = "result"
      PROVE  C[r].what = "unload" \/ \E c \in 1 .. n : C[c].kind = "call" /\ C[c].call = C[r].call
  <2>1. CASE r \notin 1 .. l BY <1>2, <1>5, <2>1
  <2>2. CASE r \in 1 .. l
    <3>1. PICK c \in 1 .. r - 1 : M[c].kind = "call" /\ M[c].call = M[r].call
      BY <1>1, <1>5, <2>2 DEF Paired, Called, l
    <3>2. c \in 1 .. l BY <1>1, <2>2
    <3>3. QED BY <1>1, <2>2, <3>1, <3>2
  <2>3. QED BY <2>1, <2>2
<1>6. Single(C, "call")
  <2>1. \A p, q \in 1 .. l :
           M[p].kind = "call" /\ M[q].kind = "call" /\ M[p].call = M[q].call => p = q
    BY DEF Paired, Single, l
  <2>2. QED BY <1>1, <1>4, <2>1 DEF Single
<1>7. Single(C, "result")
  <2>1. \A p, q \in 1 .. l :
           M[p].kind = "result" /\ M[q].kind = "result" /\ M[p].call = M[q].call => p = q
    BY DEF Paired, Single, l
  <2>2. \A p, q \in 1 .. Len(E) :
           E[p].kind = "result" /\ E[q].kind = "result" /\ E[p].call = E[q].call => p = q
    BY DEF Extra, Single
  <2>3. ASSUME NEW p \in 1 .. n, NEW q \in 1 .. n, C[p].kind = "result", C[q].kind = "result",
               C[p].call = C[q].call
        PROVE  p = q
    <3>1. CASE p \in 1 .. l /\ q \in 1 .. l BY <1>1, <2>1, <2>3, <3>1
    <3>2. CASE p \notin 1 .. l /\ q \notin 1 .. l
      <4>1. p - l = q - l BY <1>1, <2>2, <2>3, <3>2
      <4>2. QED BY <1>1, <4>1
    <3>3. CASE p \in 1 .. l /\ q \notin 1 .. l
      <4>1. C[p].call \in 0 .. next - 1 /\ C[q].call \in next .. to - 1
        BY <1>1, <1>2, <1>3, <2>3, <3>3
      <4>2. QED BY <2>3, <4>1
    <3>4. CASE p \notin 1 .. l /\ q \in 1 .. l
      <4>1. C[q].call \in 0 .. next - 1 /\ C[p].call \in next .. to - 1
        BY <1>1, <1>2, <1>3, <2>3, <3>4
      <4>2. QED BY <2>3, <4>1
    <3>5. QED BY <3>1, <3>2, <3>3, <3>4
  <2>4. QED BY <1>1, <2>3 DEF Single
<1>8. QED BY <1>1, <1>4, <1>5, <1>6, <1>7 DEF AnsweredIn, C

(* The work item is said first.                                            *)
LEMMA TextFirst ==
    ASSUME NEW M \in Seq(Messages), NEW next \in Nat, Paired(M, next, {}),
           NEW t \in Messages, t.kind = "text"
    PROVE  <<t>> \o M \in Seq(Messages) /\ Paired(<<t>> \o M, next, {})
<1> DEFINE C == <<t>> \o M l == Len(M)
<1>1. <<t>> \in Seq(Messages) /\ Len(<<t>>) = 1 /\ <<t>>[1] = t OBVIOUS
<1>2. /\ C \in Seq(Messages) /\ l \in Nat /\ Len(C) = 1 + l /\ C[1] = t
      /\ \A p \in 1 .. 1 + l : p \notin 1 .. 1 => p - 1 \in 1 .. l /\ C[p] = M[p - 1]
  <2>1. 1 \in 1 .. 1 OBVIOUS
  <2>2. QED BY <1>1, <2>1, Pieces
<1> HIDE DEF C
<1>3. \A p \in 1 .. 1 + l : C[p].kind \in {"call", "result"} =>
        p - 1 \in 1 .. l /\ C[p] = M[p - 1]
  <2>1. \A p \in 1 .. 1 + l : p \in 1 .. 1 => p = 1 BY <1>2
  <2>2. QED BY <1>2, <2>1
<1>4. ASSUME NEW p \in 1 .. l PROVE C[p + 1] = M[p] /\ p + 1 \in 1 .. 1 + l
  <2>1. p + 1 \in 1 .. 1 + l /\ p + 1 \notin 1 .. 1 /\ (p + 1) - 1 = p BY <1>2
  <2>2. QED BY <1>2, <2>1
<1>5. Numbered(C, next) BY <1>2, <1>3 DEF Paired, Numbered
<1>6. Returned(C, {})
  <2>1. ASSUME NEW p \in 1 .. 1 + l, C[p].kind = "call"
        PROVE  \E r \in p + 1 .. 1 + l :
                  C[r].kind = "result" /\ C[r].call = C[p].call /\ C[r].of = C[p].of
    <3>1. p - 1 \in 1 .. l /\ C[p] = M[p - 1] BY <1>3, <2>1
    <3>2. PICK r \in (p - 1) + 1 .. l :
                M[r].kind = "result" /\ M[r].call = M[p - 1].call /\ M[r].of = M[p - 1].of
      BY <2>1, <3>1 DEF Paired, Returned
    <3>3. r \in 1 .. l /\ r + 1 \in p + 1 .. 1 + l BY <1>2, <3>1
    <3>4. QED BY <1>4, <3>1, <3>2, <3>3
  <2>2. QED BY <1>2, <2>1 DEF Returned
<1>7. Called(C)
  <2>1. ASSUME NEW r \in 1 .. 1 + l, C[r].kind = "result"
        PROVE  \E p \in 1 .. r - 1 : C[p].kind = "call" /\ C[p].call = C[r].call
    <3>1. r - 1 \in 1 .. l /\ C[r] = M[r - 1] BY <1>3, <2>1
    <3>2. PICK p \in 1 .. (r - 1) - 1 : M[p].kind = "call" /\ M[p].call = M[r - 1].call
      BY <2>1, <3>1 DEF Paired, Called
    <3>3. p \in 1 .. l /\ p + 1 \in 1 .. r - 1 BY <1>2, <3>1
    <3>4. QED BY <1>4, <3>1, <3>2, <3>3
  <2>2. QED BY <1>2, <2>1 DEF Called
<1>8. ASSUME NEW kind \in {"call", "result"} PROVE Single(C, kind)
  <2>1. \A p, q \in 1 .. l :
           M[p].kind = kind /\ M[q].kind = kind /\ M[p].call = M[q].call => p = q
    BY DEF Paired, Single
  <2>2. ASSUME NEW p \in 1 .. 1 + l, NEW q \in 1 .. 1 + l, C[p].kind = kind, C[q].kind = kind,
               C[p].call = C[q].call
        PROVE  p = q
    <3>1. p - 1 = q - 1 BY <1>3, <2>1, <2>2
    <3>2. QED BY <1>2, <3>1
  <2>3. QED BY <1>2, <2>2 DEF Single
<1>9. Owed(C, {}) BY DEF Owed
<1>10. QED BY <1>2, <1>5, <1>6, <1>7, <1>8, <1>9 DEF Paired, C

LEMMA ExtraDrops ==
    ASSUME NEW M \in Seq(Messages), NEW from, NEW to, Extra(M, from, to), NEW k \in 0 .. Len(M)
    PROVE  LET rest == SubSeq(M, k + 1, Len(M))
           IN  rest \in Seq(Messages) /\ Extra(rest, from, to)
<1> DEFINE f == k + 1 l == Len(M) R == SubSeq(M, f, l) n == l - k
<1>1. l \in Nat /\ k \in Nat /\ n \in Nat /\ f \in Int /\ l \in Int BY LenProperties
<1>2. \A q \in f .. l : q \in 1 .. l BY <1>1
<1>3. \A q \in f .. l : M[q] \in Messages BY <1>2, ElementOfSeq
<1>4. l - f + 1 = n /\ (f <= l <=> n # 0) BY <1>1
<1>5. \A i \in 1 .. n : f + i - 1 = k + i /\ k + i \in 1 .. l BY <1>1
<1> HIDE DEF f, l, n
<1>6. /\ R \in Seq(Messages) /\ Len(R) = IF f <= l THEN l - f + 1 ELSE 0
      /\ \A i \in 1 .. l - f + 1 : R[i] = M[f + i - 1]
  BY <1>1, <1>3, SubSeqProperties
<1>7. Len(R) = n /\ \A i \in 1 .. n : R[i] = M[k + i] /\ k + i \in 1 .. l
  BY <1>1, <1>4, <1>5, <1>6
<1> HIDE DEF R
<1>8. Single(R, "result")
  <2>1. \A p, q \in 1 .. l :
           M[p].kind = "result" /\ M[q].kind = "result" /\ M[p].call = M[q].call => p = q
    BY DEF Extra, Single, l
  <2>2. ASSUME NEW p \in 1 .. n, NEW q \in 1 .. n, R[p].kind = "result", R[q].kind = "result",
               R[p].call = R[q].call
        PROVE  p = q
    <3>1. k + p = k + q BY <1>7, <2>1, <2>2
    <3>2. QED BY <1>1, <3>1
  <2>3. QED BY <1>7, <2>2 DEF Single
<1>9. \A p \in 1 .. n :
        \/ R[p].kind = "text"
        \/ R[p].kind = "result" /\ R[p].what = "unload" /\ R[p].call \in from .. to - 1
  BY <1>7 DEF Extra, l
<1>10. QED BY <1>6, <1>7, <1>8, <1>9 DEF Extra, R, f, l

LEMMA OverlapIs ==
    ASSUME NEW said \in Seq(Messages), NEW new \in Seq(Messages)
    PROVE  SuffixPrefixOverlap(said, new) \in 0 .. Len(new)
<1> DEFINE S == {k \in 0 .. Len(new) : k <= Len(said)
                    /\ SubSeq(new, 1, k) = SubSeq(said, Len(said) - k + 1, Len(said))}
<1>1. Len(said) \in Nat /\ Len(new) \in Nat BY LenProperties
<1>2. SubSeq(new, 1, 0) = <<>> /\ SubSeq(said, Len(said) + 1, Len(said)) = <<>>
  BY <1>1, SubSeqEmpty
<1>3. Len(said) - 0 + 1 = Len(said) + 1 /\ 0 \in 0 .. Len(new) /\ 0 <= Len(said) BY <1>1
<1>4. 0 \in S BY <1>2, <1>3
<1>5. S \in SUBSET Nat /\ \A y \in S : y <= Len(new) BY <1>1
<1>6. \A y \in S : y \in 0 .. Len(new) OBVIOUS
<1>7. SuffixPrefixOverlap(said, new) = Max(S) BY DEF SuffixPrefixOverlap
<1> HIDE DEF S
<1>8. Max(S) \in S BY <1>1, <1>4, <1>5, MaxIs
<1>9. QED BY <1>6, <1>7, <1>8

LEMMA PromptIs ==
    ASSUME WellOrdered, Open(Len(trajectory)) = {}, NEW given \in Seq(Events), NEW hasTask,
           \A p \in 1 .. Len(given) : Known(given[p])
    PROVE  /\ PromptMessages(given, hasTask) \in Seq(Messages)
           /\ AnsweredIn(PromptMessages(given, hasTask))
<1> DEFINE T == Transcript t == Text("task") new == InboxMessages(given)
           said == (IF hasTask THEN <<t>> ELSE <<>>) \o T.messages
           k == SuffixPrefixOverlap(said, new)
           rest == SubSeq(new, k + 1, Len(new))
<1>1. PromptMessages(given, hasTask) = said \o rest BY DEF PromptMessages
<1>2. T \in Histories /\ Quiet(T) BY TranscriptIs
<1>3. PICK h \in Added : new = h.messages BY <1>2, InboxIs
<1>4. h \in Histories /\ T.next <= h.next /\ Extra(new, T.next, h.next) BY <1>3 DEF Added
<1>5. T.next \in Nat /\ T.messages \in Seq(Messages) /\ h.next \in Nat /\ new \in Seq(Messages)
  BY <1>2, <1>3, <1>4, HistoryFields
<1>6. Paired(T.messages, T.next, {}) BY <1>2 DEF Quiet
<1>7. t \in Messages /\ t.kind = "text" BY DEF Text, Messages, Words
<1> HIDE DEF T, t, new
<1>8. said \in Seq(Messages) /\ Paired(said, T.next, {})
  <2>1. CASE hasTask
    <3>1. said = <<t>> \o T.messages BY <2>1
    <3>2. QED BY <1>5, <1>6, <1>7, <3>1, TextFirst
  <2>2. CASE ~ hasTask
    <3>1. said = <<>> \o T.messages BY <2>2
    <3>2. <<>> \o T.messages = T.messages BY <1>5, ConcatEmptySeq
    <3>3. QED BY <1>5, <1>6, <3>1, <3>2
  <2>3. QED BY <2>1, <2>2
<1> HIDE DEF said
<1>9. k \in 0 .. Len(new) BY <1>5, <1>8, OverlapIs
<1> HIDE DEF k
<1>10. rest \in Seq(Messages) /\ Extra(rest, T.next, h.next) BY <1>4, <1>5, <1>9, ExtraDrops
<1> HIDE DEF rest
<1>11. said \o rest \in Seq(Messages) BY <1>8, <1>10, Pieces
<1>12. QED BY <1>1, <1>5, <1>8, <1>10, <1>11, PairsUp

(***************************************************************************)
(* The steps                                                               *)
(***************************************************************************)
(* What the trajectory held it holds.                                      *)
LEMMA PrefixHolds ==
    ASSUME Len(trajectory) \in Nat, Len(trajectory') \in Nat, Len(trajectory) <= Len(trajectory'),
           \A i \in 1 .. Len(trajectory) : trajectory'[i] = trajectory[i]
    PROVE  /\ \A n \in 0 .. Len(trajectory) : Open(n)' = Open(n)
           /\ \A i \in 1 .. Len(trajectory) : InPlace(i)' <=> InPlace(i)
<1> DEFINE N == Len(trajectory)
<1>1. ASSUME NEW n \in 0 .. N PROVE Open(n)' = Open(n)
  <2>1. ASSUME NEW j \in 1 .. n, NEW k \in j + 1 .. n PROVE j \in 1 .. N /\ k \in 1 .. N
    <3>1. j \in Nat /\ k \in Nat OBVIOUS
    <3>2. QED BY <3>1
  <2>2. \A j \in 1 .. n : j \in 1 .. N OBVIOUS
  <2>3. ASSUME NEW j \in 1 .. n
        PROVE  /\ trajectory'[j] = trajectory[j]
               /\ \A k \in j + 1 .. n : trajectory'[k] = trajectory[k]
    BY <2>1, <2>2
  <2>4. QED BY <2>3 DEF Open, Answers
<1>2. ASSUME NEW i \in 1 .. N PROVE InPlace(i)' <=> InPlace(i)
  <2>1. i - 1 \in 0 .. N /\ \A j \in 1 .. i - 1 : j \in 1 .. N OBVIOUS
  <2>2. Open(i - 1)' = Open(i - 1) BY <1>1, <2>1
  <2>3. \A j \in Open(i - 1) : j \in 1 .. i - 1 BY DEF Open
  <2>4. i > 1 => i - 1 \in 1 .. i - 1 OBVIOUS
  <2>5. trajectory'[i] = trajectory[i] /\ \A j \in 1 .. i - 1 : trajectory'[j] = trajectory[j]
    BY <2>1
  <2>6. Requests(i)' <=> Requests(i) BY <2>2, <2>5 DEF Requests
  <2>7. Schedules(i)' <=> Schedules(i) BY <2>4, <2>5 DEF Schedules
  <2>8. Completes(i)' <=> Completes(i) BY <2>2, <2>3, <2>5 DEF Completes
  <2>9. Fails(i)' <=> Fails(i) BY <2>2, <2>3, <2>5 DEF Fails
  <2>10. QED BY <2>2, <2>5, <2>6, <2>7, <2>8, <2>9 DEF InPlace
<1>3. QED BY <1>1, <1>2

(* Events are added at the end.                                            *)
LEMMA Adding ==
    ASSUME WellOrdered, NEW adds \in Seq(Events), trajectory' = trajectory \o adds
    PROVE  /\ trajectory' \in Seq(Events) /\ Len(trajectory) \in Nat /\ Len(adds) \in Nat
           /\ Len(trajectory') = Len(trajectory) + Len(adds)
           /\ \A i \in 1 .. Len(trajectory) : trajectory'[i] = trajectory[i]
           /\ \A i \in 1 .. Len(adds) : trajectory'[Len(trajectory) + i] = adds[i]
           /\ \A n \in 0 .. Len(trajectory) : Open(n)' = Open(n)
           /\ (\A p \in Len(trajectory) + 1 .. Len(trajectory') : InPlace(p)') => WellOrdered'
<1> DEFINE N == Len(trajectory) l == Len(adds)
<1>1. trajectory \in Seq(Events) /\ \A i \in 1 .. N : InPlace(i) BY DEF WellOrdered
<1>2. /\ trajectory' \in Seq(Events) /\ N \in Nat /\ l \in Nat /\ Len(trajectory') = N + l
      /\ \A p \in 1 .. N : trajectory'[p] = trajectory[p]
      /\ \A p \in 1 .. N + l : p \notin 1 .. N => p - N \in 1 .. l /\ trajectory'[p] = adds[p - N]
  BY <1>1, Pieces
<1>3. ASSUME NEW i \in 1 .. l PROVE trajectory'[N + i] = adds[i]
  <2>1. N + i \in 1 .. N + l /\ N + i \notin 1 .. N /\ (N + i) - N = i BY <1>2
  <2>2. QED BY <1>2, <2>1
<1>4. /\ \A n \in 0 .. N : Open(n)' = Open(n)
      /\ \A i \in 1 .. N : InPlace(i)' <=> InPlace(i)
  BY <1>2, PrefixHolds
<1>5. ASSUME \A p \in N + 1 .. N + l : InPlace(p)' PROVE WellOrdered'
  <2>1. ASSUME NEW p \in 1 .. N + l PROVE InPlace(p)'
    <3>1. CASE p \in 1 .. N BY <1>1, <1>4, <3>1
    <3>2. CASE p \notin 1 .. N
      <4>1. p \in N + 1 .. N + l BY <1>2, <3>2
      <4>2. QED BY <1>5, <4>1
    <3>3. QED BY <3>1, <3>2
  <2>2. QED BY <1>2, <2>1 DEF WellOrdered
<1>6. QED BY <1>2, <1>3, <1>4, <1>5

LEMMA OpenStepNext ==
    \A n \in Nat : n # 0 => \A j : j \in Open(n)' <=>
        \/ j = n /\ trajectory'[n].kind = "Requested"
        \/ j \in Open(n - 1)' /\ ~ Answers(n, j)'
<1>1. (\A n \in Nat : n # 0 => \A j : j \in Open(n) <=>
          \/ j = n /\ trajectory[n].kind = "Requested"
          \/ j \in Open(n - 1) /\ ~ Answers(n, j))'
  BY OpenStep, PTL
<1>2. QED BY <1>1

(* What is delivered is of the inbox.                                      *)
LEMMA DeliveredIs ==
    ASSUME inbox \in Seq(Events), \A p \in 1 .. Len(inbox) : Known(inbox[p])
    PROVE  Delivered \in Seq(Events) /\ \A p \in 1 .. Len(Delivered) : Known(Delivered[p])
<1>1. Len(inbox) \in Nat /\ DOMAIN inbox = 1 .. Len(inbox) BY LenProperties
<1>2. CASE loop = Idle /\ StartsWithMessage
  <2> DEFINE i == Min(Startable) l == Len(inbox)
             A == SubSeq(inbox, 1, i - 1) B == SubSeq(inbox, i + 1, l)
             S == {e \in Events : Known(e)}
  <2>1. Startable \in SUBSET Nat /\ Startable # {} BY <1>1, <1>2 DEF Startable, StartsWithMessage
  <2>2. i \in Startable BY <2>1, MinIs
  <2>3. i \in 1 .. l BY <1>1, <2>2 DEF Startable
  <2>4. Delivered = A \o B BY <1>2 DEF Delivered, RemoveAt
  <2>5. \A q \in 1 .. l : inbox[q] \in S BY ElementOfSeq
  <2> HIDE DEF i, l, S
  <2>6. l \in Nat /\ i - 1 \in Int /\ i + 1 \in Int /\ 1 \in Int /\ l \in Int BY <1>1, <2>3 DEF l
  <2>7. (\A q \in 1 .. i - 1 : q \in 1 .. l) /\ (\A q \in i + 1 .. l : q \in 1 .. l)
    BY <2>3, <2>6
  <2>8. A \in Seq(S)
    <3>1. \A q \in 1 .. i - 1 : inbox[q] \in S BY <2>5, <2>7
    <3>2. QED BY <2>6, <3>1, SubSeqProperties
  <2>9. B \in Seq(S)
    <3>1. \A q \in i + 1 .. l : inbox[q] \in S BY <2>5, <2>7
    <3>2. QED BY <2>6, <3>1, SubSeqProperties
  <2> HIDE DEF A, B
  <2>10. Delivered \in Seq(S) BY <2>4, <2>8, <2>9, Pieces
  <2>11. \A p \in 1 .. Len(Delivered) : Delivered[p] \in S BY <2>10, ElementOfSeq
  <2>12. S \subseteq Events BY DEF S
  <2>13. Delivered \in Seq(Events) BY <2>10, <2>12, SeqMonotonic
  <2>14. QED BY <2>11, <2>13 DEF S
<1>3. CASE ~ (loop = Idle /\ StartsWithMessage) BY <1>3 DEF Delivered
<1>4. QED BY <1>2, <1>3

(* A turn is taken when no action is open, and its prompt is well-formed.   *)
LEMMA TurnIs ==
    ASSUME PromptInv, NEW adds, NEW delivers, NEW queues, NEW next,
           Respond(adds, delivers, queues, next)
    PROVE  /\ WellOrdered /\ Open(Len(trajectory)) = {} /\ trajectory' = trajectory \o adds
           /\ inbox' = delivers /\ queued' = queues /\ loop' = next /\ turns' = turns + 1
           /\ turns' \in 0 .. MaxTurns /\ turns + 1 \in Actions /\ turns \in Nat
           /\ CallsAreAnswered'
<1>1. /\ WellOrdered /\ inbox \in Seq(Events) /\ turns \in 0 .. MaxTurns
      /\ \A p \in 1 .. Len(inbox) : Known(inbox[p])
      /\ queued = <<>> /\ loop \notin Actions => Open(Len(trajectory)) = {}
  BY DEF PromptInv
<1>2. /\ queued = <<>> /\ turns < MaxTurns /\ (loop = Ready \/ loop = Idle)
      /\ prompt' = PromptMessages(Delivered, task') /\ trajectory' = trajectory \o adds
      /\ inbox' = delivers /\ queued' = queues /\ loop' = next /\ turns' = turns + 1
  BY DEF Respond
<1>3. MaxTurns \in Nat BY PromptAssumption
<1>4. Open(Len(trajectory)) = {} BY <1>1, <1>2, <1>3 DEF Actions, Ready, Idle
<1>5. turns' \in 0 .. MaxTurns /\ turns + 1 \in Actions /\ turns \in Nat
  BY <1>1, <1>2, <1>3 DEF Actions
<1>6. Delivered \in Seq(Events) /\ \A p \in 1 .. Len(Delivered) : Known(Delivered[p])
  BY <1>1, DeliveredIs
<1>7. prompt' \in Seq(Messages) /\ AnsweredIn(prompt') BY <1>1, <1>2, <1>4, <1>6, PromptIs
<1>8. CallsAreAnswered'
  <2>1. DOMAIN prompt' = 1 .. Len(prompt') BY <1>7, LenProperties
  <2>2. Calls' = {i \in 1 .. Len(prompt') : prompt'[i].kind = "call"} BY <2>1 DEF Calls
  <2>3. Results' = {i \in 1 .. Len(prompt') : prompt'[i].kind = "result"} BY <2>1 DEF Results
  <2>4. \A c \in Calls' : \E r \in Results' :
          c < r /\ prompt'[c].call = prompt'[r].call /\ prompt'[c].of = prompt'[r].of
    BY <1>7, <2>2, <2>3 DEF AnsweredIn
  <2>5. \A r \in Results' : prompt'[r].what = "unload" \/
          \E c \in Calls' : prompt'[c].call = prompt'[r].call
    BY <1>7, <2>2, <2>3 DEF AnsweredIn
  <2>6. \A i, j \in Calls' : prompt'[i].call = prompt'[j].call => i = j
    BY <1>7, <2>2 DEF AnsweredIn, Single
  <2>7. \A i, j \in Results' : prompt'[i].call = prompt'[j].call => i = j
    BY <1>7, <2>3 DEF AnsweredIn, Single
  <2>8. QED BY <2>4, <2>5, <2>6, <2>7 DEF CallsAreAnswered
<1>9. QED BY <1>1, <1>2, <1>4, <1>5, <1>8

(* What is known of the inbox stays known unless the loop ends.            *)
LEMMA StaysKnown ==
    ASSUME WellOrdered, NEW adds \in Seq(Events), trajectory' = trajectory \o adds,
           \A i \in 1 .. Len(adds) : adds[i].kind # "LoopCompleted",
           NEW q, NEW e, Known(e), inbox'[q] = e
    PROVE  Known(inbox[q])'
<1> DEFINE N == Len(trajectory) l == Len(adds)
<1>1. /\ N \in Nat /\ l \in Nat /\ Len(trajectory') = N + l /\ trajectory' \in Seq(Events)
      /\ \A i \in 1 .. N : trajectory'[i] = trajectory[i]
  BY Adding
<1>2. CASE e.kind \in {"Message", "Notification"} BY <1>2 DEF Known
<1>3. CASE Recorded(e)
  <2>1. e.kind \in {"Scheduled", "Completed", "Failed"} BY <1>3 DEF Recorded
  <2>2. PICK i \in DOMAIN trajectory :
              trajectory[i] = e /\ \A j \in i .. N : trajectory[j].kind # "LoopCompleted"
    BY <1>3 DEF Recorded
  <2>3. i \in 1 .. N BY <2>2, LenProperties DEF WellOrdered
  <2>4. DOMAIN trajectory' = 1 .. N + l BY <1>1, LenProperties
  <2>5. i \in DOMAIN trajectory' /\ trajectory'[i] = e BY <1>1, <2>2, <2>3, <2>4
  <2>6. ASSUME NEW j \in i .. N + l PROVE trajectory'[j].kind # "LoopCompleted"
    <3>1. CASE j \in 1 .. N
      <4>1. j \in i .. N BY <1>1, <2>3, <3>1
      <4>2. QED BY <1>1, <2>2, <3>1, <4>1
    <3>2. CASE j \notin 1 .. N
      <4>1. /\ j \in 1 .. N + l
            /\ \A p \in 1 .. N + l : p \notin 1 .. N =>
                 p - N \in 1 .. l /\ (trajectory \o adds)[p] = adds[p - N]
        BY <1>1, <2>3, Pieces DEF WellOrdered
      <4>2. j - N \in 1 .. l /\ trajectory'[j] = adds[j - N] BY <3>2, <4>1
      <4>3. QED BY <4>2
    <3>3. QED BY <3>1, <3>2
  <2>7. Recorded(inbox[q])' BY <1>1, <2>1, <2>5, <2>6 DEF Recorded
  <2>8. QED BY <2>7 DEF Known
<1>4. QED BY <1>2, <1>3 DEF Known

(* The ids of requests are numbered by the turns.                          *)
LEMMA IdsStay ==
    ASSUME WellOrdered, NEW adds \in Seq(Events), trajectory' = trajectory \o adds,
           turns \in Nat, turns' \in Nat, turns <= turns',
           \A i \in 1 .. Len(trajectory) :
              trajectory[i].kind = "Requested" => trajectory[i].id <= turns,
           \A i \in 1 .. Len(adds) : adds[i].kind = "Requested" => adds[i].id <= turns'
    PROVE  \A i \in 1 .. Len(trajectory') :
              trajectory'[i].kind = "Requested" => trajectory'[i].id <= turns'
<1> DEFINE N == Len(trajectory) l == Len(adds)
<1>1. trajectory \in Seq(Events) BY DEF WellOrdered
<1>2. /\ N \in Nat /\ l \in Nat /\ Len(trajectory') = N + l
      /\ \A i \in 1 .. N : trajectory'[i] = trajectory[i]
      /\ \A p \in 1 .. N + l : p \notin 1 .. N => p - N \in 1 .. l /\ trajectory'[p] = adds[p - N]
  BY <1>1, Pieces
<1>3. \A i \in 1 .. N : trajectory[i].kind = "Requested" => trajectory[i].id \in Actions
  BY EventInPlace
<1>4. \A a \in Actions : a \in Int BY DEF Actions
<1>5. ASSUME NEW i \in 1 .. N + l, trajectory'[i].kind = "Requested"
      PROVE  trajectory'[i].id <= turns'
  <2>1. CASE i \in 1 .. N
    <3>1. trajectory[i].id <= turns /\ trajectory[i].id \in Int BY <1>2, <1>3, <1>4, <1>5, <2>1
    <3>2. QED BY <1>2, <2>1, <3>1
  <2>2. CASE i \notin 1 .. N BY <1>2, <1>5, <2>2
  <2>3. QED BY <2>1, <2>2
<1>6. QED BY <1>2, <1>5

(* The same of an event that is added.                                     *)
LEMMA NewOpens ==
    ASSUME NEW n \in Nat
    PROVE  /\ trajectory'[n + 1].kind = "Requested" /\ Open(n)' = {} => Open(n + 1)' = {n + 1}
           /\ trajectory'[n + 1].kind \notin {"Requested", "Completed", "Failed"} =>
                Open(n + 1)' = Open(n)'
           /\ \A j : /\ trajectory'[n + 1].kind \in {"Completed", "Failed"} /\ Open(n)' = {j}
                     /\ trajectory'[n + 1].id = trajectory'[j].id
                     => Open(n + 1)' = {}
<1>1. n + 1 \in Nat /\ n + 1 # 0 /\ (n + 1) - 1 = n OBVIOUS
<1>2. \A j : j \in Open(n + 1)' <=> \/ j = n + 1 /\ trajectory'[n + 1].kind = "Requested"
                                    \/ j \in Open(n)' /\ ~ Answers(n + 1, j)'
  <2>1. \A j : j \in Open(n + 1)' <=>
           \/ j = n + 1 /\ trajectory'[n + 1].kind = "Requested"
           \/ j \in Open((n + 1) - 1)' /\ ~ Answers(n + 1, j)'
    BY <1>1, OpenStepNext
  <2>2. Open((n + 1) - 1)' = Open(n)' BY <1>1
  <2>3. QED BY <2>1, <2>2
<1>3. \A j : Answers(n + 1, j)' <=>
        /\ trajectory'[n + 1].kind \in {"Completed", "Failed"}
        /\ trajectory'[n + 1].id = trajectory'[j].id
  BY DEF Answers
<1>4. ASSUME trajectory'[n + 1].kind = "Requested", Open(n)' = {} PROVE Open(n + 1)' = {n + 1}
  BY <1>2, <1>4
<1>5. ASSUME trajectory'[n + 1].kind \notin {"Requested", "Completed", "Failed"}
      PROVE  Open(n + 1)' = Open(n)'
  BY <1>2, <1>3, <1>5
<1>6. ASSUME NEW j, trajectory'[n + 1].kind \in {"Completed", "Failed"}, Open(n)' = {j},
             trajectory'[n + 1].id = trajectory'[j].id
      PROVE  Open(n + 1)' = {}
  BY <1>2, <1>3, <1>6
<1>7. QED BY <1>4, <1>5, <1>6

(* A list of one event, of two, of three.                                  *)
LEMMA ListsOf ==
    ASSUME NEW S, NEW a \in S, NEW b \in S, NEW c \in S
    PROVE  /\ <<>> \in Seq(S) /\ Len(<<>>) = 0
           /\ <<a>> \in Seq(S) /\ Len(<<a>>) = 1 /\ <<a>>[1] = a
           /\ <<a, b>> \in Seq(S) /\ Len(<<a, b>>) = 2 /\ <<a, b>>[1] = a /\ <<a, b>>[2] = b
           /\ <<a, b, c>> \in Seq(S) /\ Len(<<a, b, c>>) = 3
           /\ <<a, b, c>>[1] = a /\ <<a, b, c>>[2] = b /\ <<a, b, c>>[3] = c
OBVIOUS

(* A turn keeps the invariant when what it leaves is in order.             *)
LEMMA TurnKeeps ==
    ASSUME PromptInv, NEW adds \in Seq(Events), NEW delivers \in Seq(Events), NEW queues,
           NEW next \in Actions \union {Idle, Ready}, Respond(adds, delivers, queues, next),
           WellOrdered',
           \A i \in 1 .. Len(adds) : adds[i].kind = "Requested" => adds[i].id = turns + 1,
           queues = <<>> \/ (next = Ready /\ \E e : queues = <<e>> /\ Awaited(e)'),
           next \in Actions => queues = <<>> /\
              \E j \in Open(Len(trajectory))' :
                 trajectory'[j].id = next /\ trajectory'[j].what = "code",
           queues = <<>> /\ next \notin Actions => Open(Len(trajectory))' = {},
           \A p \in 1 .. Len(delivers) : Known(delivers[p])'
    PROVE  PromptInv'
<1>1. /\ WellOrdered /\ Open(Len(trajectory)) = {} /\ trajectory' = trajectory \o adds
      /\ inbox' = delivers /\ queued' = queues /\ loop' = next /\ turns' = turns + 1
      /\ turns' \in 0 .. MaxTurns /\ turns + 1 \in Actions /\ turns \in Nat
      /\ CallsAreAnswered'
  BY TurnIs
<1>2. \A i \in 1 .. Len(trajectory) :
          trajectory[i].kind = "Requested" => trajectory[i].id <= turns
  BY DEF PromptInv
<1>3. turns' \in Nat /\ turns <= turns' BY <1>1
<1>4. \A i \in 1 .. Len(adds) : adds[i].kind = "Requested" => adds[i].id <= turns'
  BY <1>1
<1>5. \A i \in 1 .. Len(trajectory') :
          trajectory'[i].kind = "Requested" => trajectory'[i].id <= turns'
  BY <1>1, <1>2, <1>3, <1>4, IdsStay
<1>6. \A p \in 1 .. Len(inbox') : Known(inbox[p])'
  <2>1. \A p : inbox'[p] = delivers[p] BY <1>1
  <2>2. \A p \in 1 .. Len(delivers) : Known(delivers[p])' <=> Known(inbox[p])'
    BY <2>1 DEF Known, Recorded
  <2>3. QED BY <1>1, <2>2
<1>7. queued' = <<>> \/ (loop' = Ready /\ \E e : queued' = <<e>> /\ Awaited(e)') BY <1>1
<1>8. loop' \in Actions => queued' = <<>> /\
        \E j \in Open(Len(trajectory))' :
           trajectory'[j].id = loop' /\ trajectory'[j].what = "code"
  BY <1>1
<1>9. queued' = <<>> /\ loop' \notin Actions => Open(Len(trajectory))' = {} BY <1>1
<1>10. inbox' \in Seq(Events) /\ loop' \in Actions \union {Idle, Ready} BY <1>1
<1>11. QED BY <1>1, <1>5, <1>6, <1>7, <1>8, <1>9, <1>10 DEF PromptInv

LEMMA PromptBegins == PromptInit => PromptInv
<1> SUFFICES ASSUME PromptInit PROVE PromptInv OBVIOUS
<1>1. /\ trajectory = <<>> /\ inbox = <<>> /\ queued = <<>> /\ prompt = <<>>
      /\ loop = Idle /\ turns = 0
  BY DEF PromptInit
<1>2. MaxTurns \in Nat BY PromptAssumption
<1>3. Len(trajectory) = 0 /\ Len(inbox) = 0 BY <1>1
<1>4. WellOrdered
  <2>1. \A i \in 1 .. 0 : FALSE OBVIOUS
  <2>2. trajectory \in Seq(Events) BY <1>1
  <2>3. QED BY <1>3, <2>1, <2>2 DEF WellOrdered
<1>5. CallsAreAnswered
  <2>1. DOMAIN prompt = {} BY <1>1
  <2>2. Calls = {} /\ Results = {} BY <2>1 DEF Calls, Results
  <2>3. QED BY <2>2 DEF CallsAreAnswered
<1>6. Open(Len(trajectory)) = {}
  <2>1. \A i \in 1 .. 0 : FALSE OBVIOUS
  <2>2. QED BY <1>3, <2>1 DEF Open
<1>7. loop \notin Actions BY <1>1, <1>2 DEF Actions, Idle
<1>8. inbox \in Seq(Events) /\ turns \in 0 .. MaxTurns BY <1>1, <1>2
<1>9. \A i \in 1 .. 0 : FALSE OBVIOUS
<1>10. QED BY <1>1, <1>3, <1>4, <1>5, <1>6, <1>7, <1>8, <1>9 DEF PromptInv

LEMMA FinalMessageKeeps == PromptInv /\ FinalMessage => PromptInv'
<1> SUFFICES ASSUME PromptInv, FinalMessage PROVE PromptInv' OBVIOUS
<1> DEFINE a == Message("agent") b == Event("LoopCompleted", None, "agent") adds == <<a, b>>
<1>1. Respond(adds, <<>>, <<>>, Idle) BY DEF FinalMessage
<1>2. /\ a \in Events /\ a.kind = "Message" /\ b \in Events /\ b.kind = "LoopCompleted"
  BY DEF Events, Event, Message, Words
<1> HIDE DEF a, b
<1>3. adds \in Seq(Events) /\ Len(adds) = 2 /\ adds[1] = a /\ adds[2] = b BY <1>2, ListsOf
<1> HIDE DEF adds
<1>4. /\ WellOrdered /\ Open(Len(trajectory)) = {} /\ trajectory' = trajectory \o adds
  BY <1>1, TurnIs
<1>5. PICK N \in Nat : N = Len(trajectory) BY LenProperties DEF WellOrdered, PromptInv
<1>6. /\ Len(trajectory') = N + 2 /\ \A i \in 1 .. 2 : trajectory'[N + i] = adds[i]
      /\ \A n \in 0 .. N : Open(n)' = Open(n)
      /\ (\A p \in N + 1 .. N + 2 : InPlace(p)') => WellOrdered'
  BY <1>3, <1>4, <1>5, Adding
<1>7. trajectory'[N + 1] = a /\ trajectory'[N + 2] = b BY <1>3, <1>6
<1>8. Open(N)' = {} BY <1>4, <1>5, <1>6
<1>9. Open(N + 1)' = {} BY <1>2, <1>7, <1>8, NewOpens
<1>10. Open(N + 2)' = {}
  <2>1. N + 1 \in Nat /\ (N + 1) + 1 = N + 2 BY <1>5
  <2>2. trajectory'[(N + 1) + 1] = b BY <1>7, <2>1
  <2>3. Open((N + 1) + 1)' = Open(N + 1)' BY <1>2, <2>1, <2>2, NewOpens
  <2>4. QED BY <1>9, <2>1, <2>3
<1>11. InPlace(N + 1)' BY <1>2, <1>7 DEF InPlace
<1>12. InPlace(N + 2)'
  <2>1. (N + 2) - 1 = N + 1 BY <1>5
  <2>2. Open((N + 2) - 1)' = {} BY <1>9, <2>1
  <2>3. QED BY <1>2, <1>7, <2>2 DEF InPlace
<1>13. WellOrdered'
  <2>1. \A p \in N + 1 .. N + 2 : p = N + 1 \/ p = N + 2 BY <1>5
  <2>2. QED BY <1>6, <1>11, <1>12, <2>1
<1>14. Open(Len(trajectory))' = {} BY <1>6, <1>10
<1>15. \A i \in 1 .. Len(adds) : adds[i].kind # "Requested"
  <2>1. \A i \in 1 .. 2 : i = 1 \/ i = 2 OBVIOUS
  <2>2. QED BY <1>2, <1>3, <2>1
<1>16. Idle \notin Actions BY DEF Idle, Actions
<1>17. <<>> \in Seq(Events) /\ \A p \in 1 .. Len(<<>>) : FALSE BY <1>2, ListsOf
<1>18. QED BY <1>1, <1>3, <1>13, <1>14, <1>15, <1>16, <1>17, TurnKeeps

(* A request that a turn adds is in its place.                             *)
LEMMA RequestIsInPlace ==
    ASSUME PromptInv, NEW N \in Nat, N = Len(trajectory), NEW n \in N + 1 .. N + 3,
           \A i \in 1 .. N : trajectory'[i] = trajectory[i],
           \A i \in N + 1 .. n - 1 : trajectory'[i].kind # "Requested",
           turns + 1 \in Actions, Open(n - 1)' = {}, trajectory'[n].kind = "Requested",
           trajectory'[n].id = turns + 1, trajectory'[n].what \in {"code", "load", "unload"}
    PROVE  InPlace(n)'
<1>1. \A i \in 1 .. N : trajectory[i].kind = "Requested" => trajectory[i].id <= turns
  BY DEF PromptInv
<1>2. turns \in Nat /\ MaxTurns \in Nat BY PromptAssumption DEF PromptInv
<1>3. \A i \in 1 .. N : trajectory[i].kind = "Requested" => trajectory[i].id # turns + 1
  BY <1>1, <1>2
<1>4. \A i \in 1 .. n - 1 : i \in 1 .. N \/ i \in N + 1 .. n - 1 OBVIOUS
<1>5. \A i \in 1 .. n - 1 :
        trajectory'[i].kind = "Requested" => trajectory'[i].id # trajectory'[n].id
  BY <1>3, <1>4
<1>6. Requests(n)' BY <1>5 DEF Requests
<1>7. QED BY <1>6 DEF InPlace

LEMMA ImmediateKeeps == PromptInv /\ Immediate => PromptInv'
<1> SUFFICES ASSUME PromptInv, NEW what \in SkillActions,
                    Respond(<<Event("Requested", turns + 1, what)>>, <<>>,
                            <<Event("Completed", turns + 1, what)>>, Ready)
             PROVE  PromptInv'
  BY DEF Immediate
<1> DEFINE a == Event("Requested", turns + 1, what) adds == <<a>>
<1>0. PICK e : e = Event("Completed", turns + 1, what) OBVIOUS
<1>1. Respond(adds, <<>>, <<e>>, Ready) BY <1>0
<1>2. turns + 1 \in Actions BY TurnIs
<1>3. /\ a \in Events /\ a.kind = "Requested" /\ a.id = turns + 1 /\ a.what = what
      /\ e \in Events /\ e.kind = "Completed" /\ e.id = turns + 1 /\ e.what = what
      /\ what \in {"code", "load", "unload"}
  BY <1>0, <1>2 DEF Events, Event, Words, SkillActions
<1> HIDE DEF a
<1>4. adds \in Seq(Events) /\ Len(adds) = 1 /\ adds[1] = a BY <1>3, ListsOf
<1> HIDE DEF adds
<1>5. /\ WellOrdered /\ Open(Len(trajectory)) = {} /\ trajectory' = trajectory \o adds
  BY <1>1, TurnIs
<1>6. PICK N \in Nat : N = Len(trajectory) BY LenProperties DEF WellOrdered, PromptInv
<1>7. /\ Len(trajectory') = N + 1 /\ \A i \in 1 .. 1 : trajectory'[N + i] = adds[i]
      /\ \A i \in 1 .. N : trajectory'[i] = trajectory[i]
      /\ \A n \in 0 .. N : Open(n)' = Open(n)
      /\ (\A p \in N + 1 .. N + 1 : InPlace(p)') => WellOrdered'
  BY <1>4, <1>5, <1>6, Adding
<1>8. trajectory'[N + 1] = a BY <1>4, <1>7
<1>9. Open(N)' = {} BY <1>5, <1>6, <1>7
<1>10. Open(N + 1)' = {N + 1} BY <1>3, <1>8, <1>9, NewOpens
<1>11. InPlace(N + 1)'
  <2>1. /\ N + 1 \in N + 1 .. N + 3 /\ (N + 1) - 1 = N
        /\ \A i \in N + 1 .. (N + 1) - 1 : trajectory'[i].kind # "Requested"
    BY <1>6
  <2>2. Open((N + 1) - 1)' = {} BY <1>9, <2>1
  <2>3. QED BY <1>2, <1>3, <1>6, <1>7, <1>8, <2>1, <2>2, RequestIsInPlace
<1>12. WellOrdered'
  <2>1. \A p \in N + 1 .. N + 1 : p = N + 1 BY <1>6
  <2>2. QED BY <1>7, <1>11, <2>1
<1>13. Open(Len(trajectory))' = {N + 1} BY <1>7, <1>10
<1>14. Awaited(e)' BY <1>3, <1>8, <1>13 DEF Awaited
<1>15. \A i \in 1 .. Len(adds) : adds[i].kind = "Requested" => adds[i].id = turns + 1
  <2>1. \A i \in 1 .. 1 : i = 1 OBVIOUS
  <2>2. QED BY <1>3, <1>4, <2>1
<1>16. Ready \notin Actions BY DEF Ready, Actions
<1>17. <<>> \in Seq(Events) /\ \A p \in 1 .. Len(<<>>) : FALSE BY <1>3, ListsOf
<1>18. <<e>> # <<>> OBVIOUS
<1>19. \E x : <<e>> = <<x>> /\ Awaited(x)' BY <1>14
<1>20. QED BY <1>1, <1>4, <1>12, <1>15, <1>16, <1>17, <1>18, <1>19, TurnKeeps

(* What the agent says and requests, before its action is scheduled or      *)
(* refused.                                                                *)
LEMMA HandoffIs ==
    ASSUME PromptInv, NEW N \in Nat, N = Len(trajectory), NEW adds \in Seq(Events),
           trajectory' = trajectory \o adds, Len(adds) \in {2, 3}, turns + 1 \in Actions,
           adds[1].kind = "Notification", adds[2] = Event("Requested", turns + 1, "code"),
           Open(N) = {}
    PROVE  /\ Len(trajectory') = N + Len(adds)
           /\ trajectory'[N + 2] = adds[2]
           /\ Len(adds) = 3 => trajectory'[N + 3] = adds[3]
           /\ Open(N + 2)' = {N + 2}
           /\ InPlace(N + 1)' /\ InPlace(N + 2)'
           /\ \A p \in N + 1 .. N + 2 : p = N + 1 \/ p = N + 2
           /\ (\A p \in N + 1 .. N + Len(adds) : InPlace(p)') => WellOrdered'
<1>1. WellOrdered BY DEF PromptInv
<1>2. /\ Len(trajectory') = N + Len(adds)
      /\ \A i \in 1 .. Len(adds) : trajectory'[N + i] = adds[i]
      /\ \A i \in 1 .. N : trajectory'[i] = trajectory[i]
      /\ \A n \in 0 .. N : Open(n)' = Open(n)
      /\ (\A p \in N + 1 .. N + Len(adds) : InPlace(p)') => WellOrdered'
  BY <1>1, Adding
<1>3. /\ trajectory'[N + 1] = adds[1] /\ trajectory'[N + 2] = adds[2]
      /\ Len(adds) = 3 => trajectory'[N + 3] = adds[3]
  BY <1>2
<1>4. Open(N)' = {} BY <1>2
<1>5. Open(N + 1)' = {} BY <1>3, <1>4, NewOpens
<1>6. adds[2].kind = "Requested" /\ adds[2].id = turns + 1 /\ adds[2].what = "code"
  BY DEF Event
<1>7. N + 1 \in Nat /\ (N + 1) + 1 = N + 2 /\ (N + 2) - 1 = N + 1 OBVIOUS
<1>8. Open(N + 2)' = {N + 2}
  <2>1. trajectory'[(N + 1) + 1].kind = "Requested" BY <1>3, <1>6, <1>7
  <2>2. Open((N + 1) + 1)' = {(N + 1) + 1} BY <1>5, <1>7, <2>1, NewOpens
  <2>3. QED BY <1>7, <2>2
<1>9. InPlace(N + 1)' BY <1>3 DEF InPlace
<1>10. InPlace(N + 2)'
  <2>1. N + 2 \in N + 1 .. N + 3 OBVIOUS
  <2>2. \A i \in N + 1 .. (N + 2) - 1 : i = N + 1 OBVIOUS
  <2>3. \A i \in N + 1 .. (N + 2) - 1 : trajectory'[i].kind # "Requested" BY <1>3, <2>2
  <2>4. Open((N + 2) - 1)' = {} BY <1>5, <1>7
  <2>5. QED BY <1>2, <1>3, <1>6, <2>1, <2>3, <2>4, RequestIsInPlace
<1>11. \A p \in N + 1 .. N + 2 : p = N + 1 \/ p = N + 2 OBVIOUS
<1>12. QED BY <1>2, <1>3, <1>8, <1>9, <1>10, <1>11

LEMMA ExecuteCodeKeeps == PromptInv /\ ExecuteCode => PromptInv'
<1> SUFFICES ASSUME PromptInv, ExecuteCode PROVE PromptInv' OBVIOUS
<1>1. PICK id : id = turns + 1 OBVIOUS
<1>2. PICK s : s = Event("Scheduled", id, "code") OBVIOUS
<1> DEFINE a == Event("Notification", None, "handoff") b == Event("Requested", id, "code")
           adds == <<a, b, s>>
<1>3. Respond(adds, <<s>>, <<>>, id) BY <1>1, <1>2 DEF ExecuteCode
<1>4. /\ WellOrdered /\ Open(Len(trajectory)) = {} /\ trajectory' = trajectory \o adds
      /\ turns + 1 \in Actions
  BY <1>3, TurnIs
<1>5. /\ a \in Events /\ a.kind = "Notification" /\ b \in Events /\ b.kind = "Requested"
      /\ b.id = id /\ b.what = "code" /\ s \in Events /\ s.kind = "Scheduled" /\ s.id = id
  BY <1>1, <1>2, <1>4 DEF Events, Event, Words
<1>6. b = Event("Requested", turns + 1, "code") BY <1>1
<1> HIDE DEF a, b
<1>7. /\ adds \in Seq(Events) /\ Len(adds) = 3 /\ adds[1] = a /\ adds[2] = b /\ adds[3] = s
      /\ <<s>> \in Seq(Events) /\ Len(<<s>>) = 1 /\ <<s>>[1] = s
  BY <1>5, ListsOf
<1> HIDE DEF adds
<1>8. PICK N \in Nat : N = Len(trajectory) BY LenProperties DEF WellOrdered, PromptInv
<1>9. /\ Len(trajectory') = N + 3 /\ trajectory'[N + 2] = b /\ trajectory'[N + 3] = s
      /\ Open(N + 2)' = {N + 2} /\ InPlace(N + 1)' /\ InPlace(N + 2)'
      /\ \A p \in N + 1 .. N + 2 : p = N + 1 \/ p = N + 2
      /\ (\A p \in N + 1 .. N + 3 : InPlace(p)') => WellOrdered'
  <2>1. Len(adds) \in {2, 3} /\ Open(N) = {} /\ adds[1].kind = "Notification"
        /\ adds[2] = Event("Requested", turns + 1, "code")
    BY <1>4, <1>5, <1>6, <1>7, <1>8
  <2>2. /\ Len(trajectory') = N + Len(adds) /\ trajectory'[N + 2] = adds[2]
        /\ Len(adds) = 3 => trajectory'[N + 3] = adds[3]
        /\ Open(N + 2)' = {N + 2} /\ InPlace(N + 1)' /\ InPlace(N + 2)'
        /\ \A p \in N + 1 .. N + 2 : p = N + 1 \/ p = N + 2
        /\ (\A p \in N + 1 .. N + Len(adds) : InPlace(p)') => WellOrdered'
    BY <1>4, <1>7, <1>8, <2>1, HandoffIs
  <2>3. QED BY <1>7, <2>2
<1>10. N + 2 \in Nat /\ (N + 2) + 1 = N + 3 /\ N + 3 > 1 /\ (N + 3) - 1 = N + 2 BY <1>8
<1>11. Open(N + 3)' = {N + 2}
  <2>1. trajectory'[(N + 2) + 1].kind = "Scheduled" BY <1>5, <1>9, <1>10
  <2>2. Open((N + 2) + 1)' = Open(N + 2)' BY <1>10, <2>1, NewOpens
  <2>3. QED BY <1>9, <1>10, <2>2
<1>12. InPlace(N + 3)'
  <2>1. Schedules(N + 3)' BY <1>5, <1>9, <1>10 DEF Schedules
  <2>2. QED BY <1>5, <1>9, <2>1 DEF InPlace
<1>13. WellOrdered'
  <2>1. \A p \in N + 1 .. N + 3 : p = N + 3 \/ p \in N + 1 .. N + 2 BY <1>8
  <2>2. QED BY <1>9, <1>12, <2>1
<1>14. Open(Len(trajectory))' = {N + 2} BY <1>9, <1>11
<1>15. Known(s)'
  <2>1. N + 3 \in DOMAIN trajectory' BY <1>9, <1>10, <1>13, LenProperties DEF WellOrdered
  <2>2. \A j \in N + 3 .. N + 3 : j = N + 3 BY <1>8
  <2>3. \A j \in N + 3 .. Len(trajectory') : trajectory'[j].kind # "LoopCompleted"
    BY <1>5, <1>9, <2>2
  <2>4. Recorded(s)' BY <1>5, <1>9, <2>1, <2>3 DEF Recorded
  <2>5. QED BY <2>4 DEF Known
<1>16. \A i \in 1 .. Len(adds) : adds[i].kind = "Requested" => adds[i].id = turns + 1
  <2>1. \A i \in 1 .. 3 : i = 1 \/ i = 2 \/ i = 3 OBVIOUS
  <2>2. QED BY <1>1, <1>5, <1>7, <2>1
<1>17. \A p \in 1 .. Len(<<s>>) : Known(<<s>>[p])'
  <2>1. \A p \in 1 .. 1 : p = 1 OBVIOUS
  <2>2. \A p \in 1 .. Len(<<s>>) : <<s>>[p] = s BY <1>7, <2>1
  <2>3. QED BY <1>15, <2>2 DEF Known, Recorded
<1>18. \E j \in Open(Len(trajectory))' : trajectory'[j].id = id /\ trajectory'[j].what = "code"
  BY <1>5, <1>9, <1>14
<1>19. id \in Actions BY <1>1, <1>4
<1>20. QED BY <1>3, <1>7, <1>13, <1>16, <1>17, <1>18, <1>19, TurnKeeps

LEMMA ScheduleRefusedKeeps == PromptInv /\ ScheduleRefused => PromptInv'
<1> SUFFICES ASSUME PromptInv, ScheduleRefused PROVE PromptInv' OBVIOUS
<1>1. PICK id : id = turns + 1 OBVIOUS
<1>2. PICK e : e = Event("Failed", id, "error") OBVIOUS
<1> DEFINE a == Event("Notification", None, "handoff") b == Event("Requested", id, "code")
           adds == <<a, b>>
<1>3. Respond(adds, <<>>, <<e>>, Ready) BY <1>1, <1>2 DEF ScheduleRefused
<1>4. /\ WellOrdered /\ Open(Len(trajectory)) = {} /\ trajectory' = trajectory \o adds
      /\ turns + 1 \in Actions
  BY <1>3, TurnIs
<1>5. /\ a \in Events /\ a.kind = "Notification" /\ b \in Events /\ b.kind = "Requested"
      /\ b.id = id /\ b.what = "code" /\ e \in Events /\ e.kind = "Failed" /\ e.id = id
  BY <1>1, <1>2, <1>4 DEF Events, Event, Words
<1>6. b = Event("Requested", turns + 1, "code") BY <1>1
<1> HIDE DEF a, b
<1>7. adds \in Seq(Events) /\ Len(adds) = 2 /\ adds[1] = a /\ adds[2] = b BY <1>5, ListsOf
<1> HIDE DEF adds
<1>8. PICK N \in Nat : N = Len(trajectory) BY LenProperties DEF WellOrdered, PromptInv
<1>9. /\ Len(trajectory') = N + 2 /\ trajectory'[N + 2] = b
      /\ Open(N + 2)' = {N + 2} /\ InPlace(N + 1)' /\ InPlace(N + 2)'
      /\ \A p \in N + 1 .. N + 2 : p = N + 1 \/ p = N + 2
      /\ (\A p \in N + 1 .. N + 2 : InPlace(p)') => WellOrdered'
  BY <1>4, <1>5, <1>6, <1>7, <1>8, HandoffIs
<1>10. WellOrdered' BY <1>9
<1>11. Open(Len(trajectory))' = {N + 2} BY <1>9
<1>12. Awaited(e)' BY <1>5, <1>9, <1>11 DEF Awaited
<1>13. \A i \in 1 .. Len(adds) : adds[i].kind = "Requested" => adds[i].id = turns + 1
  <2>1. \A i \in 1 .. 2 : i = 1 \/ i = 2 OBVIOUS
  <2>2. QED BY <1>1, <1>5, <1>7, <2>1
<1>14. Ready \notin Actions BY DEF Ready, Actions
<1>15. <<>> \in Seq(Events) /\ \A p \in 1 .. Len(<<>>) : FALSE BY <1>5, ListsOf
<1>16. <<e>> # <<>> OBVIOUS
<1>17. \E x : <<e>> = <<x>> /\ Awaited(x)' BY <1>12
<1>18. QED BY <1>3, <1>7, <1>10, <1>13, <1>14, <1>15, <1>16, <1>17, TurnKeeps

(* The inbox keeps what is known when one event is added to it and at most  *)
(* one to the trajectory, the end of no loop.                              *)
LEMMA InboxStaysKnown ==
    ASSUME PromptInv, NEW e \in Events, NEW adds \in Seq(Events), trajectory' = trajectory \o adds,
           \A i \in 1 .. Len(adds) : adds[i].kind # "LoopCompleted",
           inbox' = Append(inbox, e), Known(e)'
    PROVE  inbox' \in Seq(Events) /\ \A p \in 1 .. Len(inbox') : Known(inbox[p])'
<1>1. inbox \in Seq(Events) /\ WellOrdered /\ \A p \in 1 .. Len(inbox) : Known(inbox[p])
  BY DEF PromptInv
<1>2. PICK l \in Nat : l = Len(inbox) BY <1>1, LenProperties
<1>3. /\ inbox' \in Seq(Events) /\ Len(inbox') = l + 1
      /\ \A p \in 1 .. l : inbox'[p] = inbox[p] /\ inbox'[l + 1] = e
      /\ inbox'[l + 1] = e
  BY <1>1, <1>2, AppendProperties
<1>4. ASSUME NEW p \in 1 .. l PROVE Known(inbox[p])'
  <2>1. PICK x : x = inbox[p] OBVIOUS
  <2>2. Known(x) /\ inbox'[p] = x BY <1>1, <1>2, <1>3, <2>1
  <2>3. QED BY <1>1, <2>2, StaysKnown
<1>5. Known(inbox[l + 1])' BY <1>3 DEF Known, Recorded
<1>6. \A p \in 1 .. l + 1 : p \in 1 .. l \/ p = l + 1 BY <1>2
<1>7. QED BY <1>3, <1>4, <1>5, <1>6

(* An answer closes the action it is awaited for.                          *)
LEMMA AnswerKeeps ==
    ASSUME PromptInv, NEW e, Awaited(e), Apply(e), queued' = <<>>, loop' = Ready
    PROVE  PromptInv'
<1>1. /\ WellOrdered /\ inbox \in Seq(Events) /\ turns \in 0 .. MaxTurns /\ CallsAreAnswered
      /\ \A i \in 1 .. Len(trajectory) :
            trajectory[i].kind = "Requested" => trajectory[i].id <= turns
  BY DEF PromptInv
<1>2. /\ trajectory' = Append(trajectory, e) /\ inbox' = Append(inbox, e)
      /\ prompt' = prompt /\ turns' = turns
  BY DEF Apply
<1>3. PICK N \in Nat : N = Len(trajectory) BY <1>1, LenProperties DEF WellOrdered
<1>4. PICK j \in Open(N) :
          /\ e.id = trajectory[j].id
          /\ \/ e.kind = "Completed" /\ e.what = trajectory[j].what
             \/ e.kind = "Failed" /\ trajectory[j].what = "code"
  BY <1>3 DEF Awaited
<1>5. e \in Events /\ e.kind \in {"Completed", "Failed"} BY <1>4 DEF Awaited
<1>6. N \in 0 .. Len(trajectory) BY <1>3
<1>7. Open(N) = {j} BY <1>1, <1>4, <1>6, OneIsOpen
<1> DEFINE adds == <<e>>
<1>8. adds \in Seq(Events) /\ Len(adds) = 1 /\ adds[1] = e BY <1>5, ListsOf
<1>9. trajectory' = trajectory \o adds BY <1>1, <1>2, <1>5, AppendIsConcat DEF WellOrdered
<1> HIDE DEF adds
<1>10. /\ Len(trajectory') = N + 1 /\ \A i \in 1 .. 1 : trajectory'[N + i] = adds[i]
       /\ \A i \in 1 .. N : trajectory'[i] = trajectory[i]
       /\ \A n \in 0 .. N : Open(n)' = Open(n)
       /\ (\A p \in N + 1 .. N + 1 : InPlace(p)') => WellOrdered'
       /\ trajectory' \in Seq(Events)
  BY <1>1, <1>3, <1>8, <1>9, Adding
<1>11. trajectory'[N + 1] = e BY <1>8, <1>10
<1>12. Open(N)' = {j} BY <1>7, <1>10
<1>13. j \in 1 .. N BY <1>4 DEF Open
<1>14. trajectory'[j] = trajectory[j] BY <1>10, <1>13
<1>15. Open(N + 1)' = {} BY <1>4, <1>5, <1>11, <1>12, <1>14, NewOpens
<1>16. InPlace(N + 1)'
  <2>1. (N + 1) - 1 = N BY <1>3
  <2>2. Open((N + 1) - 1)' = {j} BY <1>12, <2>1
  <2>3. e.kind = "Completed" => Completes(N + 1)' BY <1>4, <1>11, <1>14, <2>2 DEF Completes
  <2>4. e.kind = "Failed" => Fails(N + 1)' BY <1>4, <1>11, <1>14, <2>2 DEF Fails
  <2>5. QED BY <1>5, <1>11, <2>3, <2>4 DEF InPlace
<1>17. WellOrdered'
  <2>1. \A p \in N + 1 .. N + 1 : p = N + 1 BY <1>3
  <2>2. QED BY <1>10, <1>16, <2>1
<1>18. Open(Len(trajectory))' = {} BY <1>10, <1>15
<1>19. Known(e)'
  <2>1. N + 1 \in DOMAIN trajectory' BY <1>3, <1>10, LenProperties
  <2>2. \A k \in N + 1 .. N + 1 : k = N + 1 BY <1>3
  <2>3. \A k \in N + 1 .. Len(trajectory') : trajectory'[k].kind # "LoopCompleted"
    BY <1>5, <1>10, <1>11, <2>2
  <2>4. Recorded(e)' BY <1>5, <1>11, <2>1, <2>3 DEF Recorded
  <2>5. QED BY <2>4 DEF Known
<1>20. \A i \in 1 .. Len(adds) : adds[i].kind \notin {"LoopCompleted", "Requested"}
  <2>1. \A i \in 1 .. 1 : i = 1 OBVIOUS
  <2>2. QED BY <1>5, <1>8, <2>1
<1>21. inbox' \in Seq(Events) /\ \A p \in 1 .. Len(inbox') : Known(inbox[p])'
  BY <1>2, <1>5, <1>8, <1>9, <1>19, <1>20, InboxStaysKnown
<1>22. \A i \in 1 .. Len(trajectory') :
          trajectory'[i].kind = "Requested" => trajectory'[i].id <= turns'
  <2>1. turns \in Nat /\ turns' \in Nat /\ turns <= turns' BY <1>1, <1>2, PromptAssumption
  <2>2. QED BY <1>1, <1>8, <1>9, <1>20, <2>1, IdsStay
<1>23. CallsAreAnswered' BY <1>1, <1>2 DEF CallsAreAnswered, Calls, Results
<1>24. turns' \in 0 .. MaxTurns /\ Ready \notin Actions BY <1>1, <1>2 DEF Ready, Actions
<1>25. QED BY <1>17, <1>18, <1>21, <1>22, <1>23, <1>24 DEF PromptInv

LEMMA ApplyQueuedKeeps == PromptInv /\ ApplyQueued => PromptInv'
<1> SUFFICES ASSUME PromptInv, ApplyQueued PROVE PromptInv' OBVIOUS
<1>1. queued # <<>> /\ Apply(Head(queued)) /\ queued' = Tail(queued) BY DEF ApplyQueued
<1>2. loop = Ready /\ \E e : queued = <<e>> /\ Awaited(e) BY <1>1 DEF PromptInv
<1>3. PICK e : queued = <<e>> /\ Awaited(e) BY <1>2
<1>4. Head(queued) = e /\ Tail(queued) = <<>> BY <1>3
<1>5. Apply(e) /\ queued' = <<>> BY <1>1, <1>4
<1>6. loop' = Ready BY <1>2, <1>5 DEF Apply
<1>7. QED BY <1>3, <1>5, <1>6, AnswerKeeps

LEMMA AnswerCodeKeeps == PromptInv /\ AnswerCode => PromptInv'
<1> SUFFICES ASSUME PromptInv, AnswerCode PROVE PromptInv' OBVIOUS
<1>1. loop \in Actions /\ queued' = queued BY DEF AnswerCode
<1>2. PICK e \in {Event("Completed", loop, "code"), Event("Failed", loop, "error")} : Apply(e)
  BY DEF AnswerCode
<1>3. /\ queued = <<>>
      /\ \E j \in Open(Len(trajectory)) : trajectory[j].id = loop /\ trajectory[j].what = "code"
  BY <1>1 DEF PromptInv
<1>4. /\ e \in Events /\ e.id = loop
      /\ \/ e.kind = "Completed" /\ e.what = "code"
         \/ e.kind = "Failed"
  BY <1>1, <1>2 DEF Events, Event, Words
<1>5. Awaited(e) BY <1>3, <1>4 DEF Awaited
<1>6. loop' = Ready BY <1>2, <1>4 DEF Apply
<1>7. QED BY <1>1, <1>2, <1>3, <1>5, <1>6, AnswerKeeps

LEMMA IsToldKeeps == PromptInv /\ IsTold => PromptInv'
<1> SUFFICES ASSUME PromptInv, IsTold PROVE PromptInv' OBVIOUS
<1>1. /\ WellOrdered /\ inbox \in Seq(Events) /\ turns \in 0 .. MaxTurns /\ CallsAreAnswered
      /\ loop \in Actions \union {Idle, Ready}
      /\ \A i \in 1 .. Len(trajectory) :
            trajectory[i].kind = "Requested" => trajectory[i].id <= turns
      /\ loop \in Actions =>
            \E j \in Open(Len(trajectory)) : trajectory[j].id = loop /\ trajectory[j].what = "code"
      /\ queued = <<>> /\ loop \notin Actions => Open(Len(trajectory)) = {}
  BY DEF PromptInv
<1>2. /\ queued = <<>> /\ queued' = queued /\ loop' = loop /\ prompt' = prompt /\ turns' = turns
      /\ \/ trajectory' = Append(trajectory, Message("user"))
            /\ inbox' = Append(inbox, Message("user"))
         \/ inbox' = Append(inbox, Told) /\ trajectory' = trajectory
  BY DEF IsTold
<1>3. Message("user") \in Events /\ Message("user").kind = "Message"
      /\ Told \in Events /\ Told.kind = "Notification"
  BY DEF Events, Event, Message, Told, Words
<1>4. PICK N \in Nat : N = Len(trajectory) BY <1>1, LenProperties DEF WellOrdered
<1>5. PICK e \in Events, adds \in Seq(Events) :
          /\ e.kind \in {"Message", "Notification"} /\ inbox' = Append(inbox, e)
          /\ trajectory' = trajectory \o adds
          /\ adds = <<>> \/ (Len(adds) = 1 /\ adds[1].kind = "Message")
  <2>1. CASE /\ trajectory' = Append(trajectory, Message("user"))
             /\ inbox' = Append(inbox, Message("user"))
    <3>1. trajectory' = trajectory \o <<Message("user")>>
      BY <1>1, <1>3, <2>1, AppendIsConcat DEF WellOrdered
    <3>2. <<Message("user")>> \in Seq(Events) /\ Len(<<Message("user")>>) = 1
          /\ <<Message("user")>>[1] = Message("user")
      BY <1>3, ListsOf
    <3>3. QED BY <1>3, <2>1, <3>1, <3>2
  <2>2. CASE inbox' = Append(inbox, Told) /\ trajectory' = trajectory
    <3>1. trajectory' = trajectory \o <<>> /\ <<>> \in Seq(Events)
      BY <1>1, <2>2, ConcatEmptySeq DEF WellOrdered
    <3>2. QED BY <1>3, <2>2, <3>1
  <2>3. QED BY <1>2, <2>1, <2>2
<1>6. Len(adds) \in {0, 1} /\ (Len(adds) = 1 => adds[1].kind = "Message") BY <1>5
<1>7. /\ Len(trajectory') = N + Len(adds)
      /\ \A i \in 1 .. Len(adds) : trajectory'[N + i] = adds[i]
      /\ \A i \in 1 .. N : trajectory'[i] = trajectory[i]
      /\ \A n \in 0 .. N : Open(n)' = Open(n)
      /\ (\A p \in N + 1 .. Len(trajectory') : InPlace(p)') => WellOrdered'
  BY <1>1, <1>4, <1>5, Adding
<1>8. Open(N)' = Open(N) BY <1>4, <1>7
<1>9. WellOrdered' /\ Open(Len(trajectory))' = Open(N)
  <2>1. CASE Len(adds) = 0
    <3>1. Len(trajectory') = N BY <1>4, <1>7, <2>1
    <3>2. \A p \in N + 1 .. N : FALSE BY <1>4
    <3>3. QED BY <1>7, <1>8, <3>1, <3>2
  <2>2. CASE Len(adds) = 1
    <3>1. Len(trajectory') = N + 1 /\ trajectory'[N + 1] = adds[1] BY <1>7, <2>2
    <3>2. Open(N + 1)' = Open(N) BY <1>4, <1>6, <1>8, <2>2, <3>1, NewOpens
    <3>3. InPlace(N + 1)' BY <1>6, <2>2, <3>1 DEF InPlace
    <3>4. \A p \in N + 1 .. N + 1 : p = N + 1 BY <1>4
    <3>5. QED BY <1>7, <3>1, <3>2, <3>3, <3>4
  <2>3. QED BY <1>6, <2>1, <2>2
<1>10. \A i \in 1 .. Len(adds) : adds[i].kind \notin {"LoopCompleted", "Requested"}
  <2>1. \A i \in 1 .. 0 : FALSE OBVIOUS
  <2>2. \A i \in 1 .. 1 : i = 1 OBVIOUS
  <2>3. QED BY <1>6, <2>1, <2>2
<1>11. Known(e)' BY <1>5 DEF Known
<1>12. inbox' \in Seq(Events) /\ \A p \in 1 .. Len(inbox') : Known(inbox[p])'
  BY <1>5, <1>10, <1>11, InboxStaysKnown
<1>13. \A i \in 1 .. Len(trajectory') :
          trajectory'[i].kind = "Requested" => trajectory'[i].id <= turns'
  <2>1. turns \in Nat /\ turns' \in Nat /\ turns <= turns' BY <1>1, <1>2, PromptAssumption
  <2>2. QED BY <1>1, <1>5, <1>10, <2>1, IdsStay
<1>14. CallsAreAnswered' BY <1>1, <1>2 DEF CallsAreAnswered, Calls, Results
<1>15. loop' \in Actions => \E j \in Open(Len(trajectory))' :
          trajectory'[j].id = loop' /\ trajectory'[j].what = "code"
  <2>1. \A j \in Open(N) : trajectory'[j] = trajectory[j] BY <1>7 DEF Open
  <2>2. QED BY <1>1, <1>2, <1>4, <1>9, <2>1
<1>16. queued' = <<>> /\ loop' \notin Actions => Open(Len(trajectory))' = {}
  BY <1>1, <1>2, <1>4, <1>9
<1>17. turns' \in 0 .. MaxTurns /\ loop' \in Actions \union {Idle, Ready} /\ queued' = <<>>
  BY <1>1, <1>2
<1>18. QED BY <1>9, <1>12, <1>13, <1>14, <1>15, <1>16, <1>17 DEF PromptInv

LEMMA PromptRests == PromptInv /\ UNCHANGED promptVars => PromptInv'
<1> SUFFICES ASSUME PromptInv, UNCHANGED promptVars PROVE PromptInv' OBVIOUS
<1>1. /\ trajectory' = trajectory /\ inbox' = inbox /\ loop' = loop /\ queued' = queued
      /\ prompt' = prompt /\ turns' = turns
  BY DEF promptVars
<1>2. \A n : Open(n)' = Open(n) BY <1>1 DEF Open, Answers
<1>3. \A i : InPlace(i)' <=> InPlace(i)
  BY <1>1, <1>2 DEF InPlace, Requests, Schedules, Completes, Fails
<1>4. WellOrdered' BY <1>1, <1>3 DEF WellOrdered, PromptInv
<1>5. \A e : Awaited(e)' <=> Awaited(e) BY <1>1, <1>2 DEF Awaited
<1>6. \A p : Known(inbox[p])' <=> Known(inbox[p]) BY <1>1 DEF Known, Recorded
<1>7. Open(Len(trajectory))' = Open(Len(trajectory)) BY <1>1, <1>2
<1>8. CallsAreAnswered' BY <1>1 DEF CallsAreAnswered, Calls, Results, PromptInv
<1>9. QED BY <1>1, <1>4, <1>5, <1>6, <1>7, <1>8 DEF PromptInv

(***************************************************************************)
(* The theorems                                                            *)
(***************************************************************************)
(* What the trajectory records is in order: an action is requested when no  *)
(* other is open, is scheduled right after and is answered once, and what   *)
(* the inbox holds of an action the trajectory has recorded in this loop.   *)
THEOREM PromptInvariant == PromptSpec => []PromptInv
<1>1. PromptInv /\ [PromptNext]_promptVars => PromptInv'
  BY FinalMessageKeeps, ImmediateKeeps, ExecuteCodeKeeps, ScheduleRefusedKeeps,
     ApplyQueuedKeeps, AnswerCodeKeeps, IsToldKeeps, PromptRests DEF PromptNext
<1>2. QED BY <1>1, PromptBegins, PTL DEF PromptSpec

(* In every prompt the agent sends its model, a call is followed by its one  *)
(* result, which is the outcome of the action called, and no two calls share *)
(* an id (build_prompt_messages).                                            *)
THEOREM PromptsPairUp == PromptSpec => []CallsAreAnswered
<1>1. PromptInv => CallsAreAnswered BY DEF PromptInv
<1>2. QED BY <1>1, PromptInvariant, PTL

(***************************************************************************)
(* THE VERDICT                                                             *)
(***************************************************************************)
(* That a finished evaluation has passed only if every criterion holds of  *)
(* the run, and has been refused only where one does not or expectations   *)
(* without an order are misordered: for any run, any criteria and any      *)
(* replies of the judge.  The comparisons are loops; what they decide is   *)
(* proved by induction over their turns.                                   *)
(***************************************************************************)

(***************************************************************************)
(* The events of some kinds                                                *)
(***************************************************************************)
(* What has been kept after each turn of the loop of EventsOf.             *)
Keeping(g, log, kinds) ==
    /\ g[0] = <<>>
    /\ \A n \in 1 .. Len(log) :
          g[n] = IF log[n].kind \in kinds THEN Append(g[n - 1], log[n]) ELSE g[n - 1]

(* A loop that keeps those events ends with the events of the kinds.       *)
LEMMA EventsOfIs ==
    ASSUME NEW E, NEW log \in Seq(E), NEW kinds,
           NEW g \in [0 .. Len(log) -> Seq(E)], Keeping(g, log, kinds)
    PROVE  EventsOf(log, kinds) = g[Len(log)]
<1> DEFINE Turn(k, n) == IF n = 0 THEN <<>>
                         ELSE IF log[n].kind \in kinds THEN Append(k[n - 1], log[n])
                              ELSE k[n - 1]
           Made(k) == k = [n \in 0 .. Len(log) |-> Turn(k, n)]
           kept == CHOOSE k : Made(k)
<1>1. Len(log) \in Nat BY LenProperties
<1>2. Made(g)
  <2>1. ASSUME NEW n \in 0 .. Len(log) PROVE g[n] = Turn(g, n)
    <3>1. CASE n = 0 BY <3>1 DEF Keeping
    <3>2. CASE n # 0
      <4>1. n \in 1 .. Len(log) BY <1>1, <3>2
      <4>2. QED BY <3>2, <4>1 DEF Keeping
    <3>3. QED BY <3>1, <3>2
  <2>2. QED BY <2>1
<1>3. Made(kept)
  <2> HIDE DEF Made
  <2>1. \E k : Made(k) BY <1>2
  <2>2. QED BY <2>1
<1>4. EventsOf(log, kinds) = kept[Len(log)] BY DEF EventsOf
<1> HIDE DEF kept
<1> DEFINE S == {n \in 0 .. Len(log) : kept[n] = g[n]}
<1>5. 0 \in S BY <1>1, <1>2, <1>3
<1>6. ASSUME NEW n \in 1 .. Len(log), n - 1 \in S PROVE n \in S
  <2>1. n \in 0 .. Len(log) BY <1>1
  <2>2. kept[n] = Turn(kept, n) BY <1>3, <2>1
  <2>3. g[n] = Turn(g, n) BY <1>2, <2>1
  <2>4. kept[n - 1] = g[n - 1] BY <1>6
  <2>5. Turn(kept, n) = Turn(g, n) BY <2>4
  <2> HIDE DEF Turn
  <2>6. QED BY <2>1, <2>2, <2>3, <2>5
<1> HIDE DEF S
<1>7. \A n \in 0 .. Len(log) : n \in S BY <1>1, <1>5, <1>6, BoundedInduction
<1>8. kept[Len(log)] = g[Len(log)] BY <1>1, <1>7 DEF S
<1>9. QED BY <1>4, <1>8

(* There is such a loop for every log.                                     *)
LEMMA EventsOfTurns ==
    ASSUME NEW E, NEW log \in Seq(E), NEW kinds
    PROVE  \E g \in [0 .. Len(log) -> Seq(E)] :
              Keeping(g, log, kinds) /\ EventsOf(log, kinds) = g[Len(log)]
<1> DEFINE F == [n \in 1 .. Len(log) |->
                    [s \in Seq(E) |-> IF log[n].kind \in kinds THEN Append(s, log[n]) ELSE s]]
<1>1. Len(log) \in Nat /\ \A n \in 1 .. Len(log) : log[n] \in E BY LenProperties, ElementOfSeq
<1>2. F \in [1 .. Len(log) -> [Seq(E) -> Seq(E)]] BY <1>1, AppendProperties
<1>3. <<>> \in Seq(E) OBVIOUS
<1>4. \A n \in 1 .. Len(log), s \in Seq(E) :
        F[n][s] = IF log[n].kind \in kinds THEN Append(s, log[n]) ELSE s OBVIOUS
<1> HIDE DEF F
<1>5. PICK g : IsLoop(g, Len(log), Seq(E), <<>>, F)
  BY <1>1, <1>2, <1>3, LoopExists
<1>6. ASSUME NEW n \in 1 .. Len(log)
      PROVE  g[n] = IF log[n].kind \in kinds THEN Append(g[n - 1], log[n]) ELSE g[n - 1]
  <2>1. n - 1 \in 0 .. Len(log) BY <1>1
  <2>2. g[n - 1] \in Seq(E) BY <1>5, <2>1 DEF IsLoop
  <2>3. QED BY <1>4, <1>5, <2>2 DEF IsLoop
<1>7. Keeping(g, log, kinds) BY <1>5, <1>6 DEF Keeping, IsLoop
<1>8. g \in [0 .. Len(log) -> Seq(E)] BY <1>5 DEF IsLoop
<1>9. QED BY <1>7, <1>8, EventsOfIs

LEMMA EventsOfType ==
    ASSUME NEW E, NEW log \in Seq(E), NEW kinds
    PROVE  EventsOf(log, kinds) \in Seq(E)
<1>1. PICK g \in [0 .. Len(log) -> Seq(E)] : EventsOf(log, kinds) = g[Len(log)]
  BY EventsOfTurns
<1>2. Len(log) \in 0 .. Len(log) BY LenProperties
<1>3. QED BY <1>1, <1>2

(* An event that is added to the log is kept exactly if it has a kind.     *)
LEMMA EventsOfAppend ==
    ASSUME NEW E, NEW log \in Seq(E), NEW event \in E, NEW kinds
    PROVE  EventsOf(Append(log, event), kinds)
             = IF event.kind \in kinds THEN Append(EventsOf(log, kinds), event)
               ELSE EventsOf(log, kinds)
<1> DEFINE more == Append(log, event)
<1>1. Len(log) \in Nat BY LenProperties
<1>2. /\ more \in Seq(E) /\ Len(more) = Len(log) + 1 /\ more[Len(log) + 1] = event
      /\ \A n \in 1 .. Len(log) : more[n] = log[n]
  BY AppendProperties
<1> HIDE DEF more
<1>3. PICK g \in [0 .. Len(more) -> Seq(E)] :
        Keeping(g, more, kinds) /\ EventsOf(more, kinds) = g[Len(more)]
  BY <1>2, EventsOfTurns
<1> DEFINE h == [n \in 0 .. Len(log) |-> g[n]]
<1>4. h \in [0 .. Len(log) -> Seq(E)] BY <1>1, <1>2
<1>5. Keeping(h, log, kinds)
  <2>1. h[0] = <<>> BY <1>1, <1>3 DEF Keeping
  <2>2. ASSUME NEW n \in 1 .. Len(log)
        PROVE  h[n] = IF log[n].kind \in kinds THEN Append(h[n - 1], log[n]) ELSE h[n - 1]
    <3>1. n \in 0 .. Len(log) /\ n - 1 \in 0 .. Len(log) /\ n \in 1 .. Len(more) BY <1>1, <1>2
    <3>2. h[n] = g[n] /\ h[n - 1] = g[n - 1] BY <3>1
    <3>3. QED BY <1>2, <1>3, <3>1, <3>2 DEF Keeping
  <2>3. QED BY <2>1, <2>2 DEF Keeping
<1> HIDE DEF h
<1>6. EventsOf(log, kinds) = h[Len(log)] BY <1>4, <1>5, EventsOfIs
<1>7. h[Len(log)] = g[Len(log)] BY <1>1 DEF h
<1>8. Len(more) \in 1 .. Len(more) /\ Len(more) - 1 = Len(log) BY <1>1, <1>2
<1>9. g[Len(more)] = IF event.kind \in kinds THEN Append(g[Len(log)], event) ELSE g[Len(log)]
  BY <1>2, <1>3, <1>8 DEF Keeping
<1>10. QED BY <1>3, <1>6, <1>7, <1>9 DEF more

(* To keep some of the kinds that have been kept is to keep those.         *)
LEMMA EventsOfEventsOf ==
    ASSUME NEW E, NEW log \in Seq(E), NEW all, NEW some \in SUBSET all
    PROVE  EventsOf(EventsOf(log, all), some) = EventsOf(log, some)
<1>1. Len(log) \in Nat /\ \A n \in 1 .. Len(log) : log[n] \in E BY LenProperties, ElementOfSeq
<1>2. PICK g \in [0 .. Len(log) -> Seq(E)] :
        Keeping(g, log, all) /\ EventsOf(log, all) = g[Len(log)]
  BY EventsOfTurns
<1>3. PICK h \in [0 .. Len(log) -> Seq(E)] :
        Keeping(h, log, some) /\ EventsOf(log, some) = h[Len(log)]
  BY EventsOfTurns
<1> DEFINE S == {n \in 0 .. Len(log) : EventsOf(g[n], some) = h[n]}
<1>4. 0 \in S
  <2> DEFINE empty == <<>> none == [n \in 0 .. 0 |-> <<>>]
  <2>1. empty \in Seq(E) /\ Len(empty) = 0 OBVIOUS
  <2>2. none \in [0 .. Len(empty) -> Seq(E)] /\ none[0] = <<>> BY <2>1
  <2>3. none[Len(empty)] = <<>> BY <2>1
  <2> HIDE DEF none, empty
  <2>4. Keeping(none, empty, some) BY <2>1, <2>2 DEF Keeping
  <2>5. EventsOf(empty, some) = <<>> BY <2>1, <2>2, <2>3, <2>4, EventsOfIs
  <2>6. g[0] = <<>> /\ h[0] = <<>> BY <1>2, <1>3 DEF Keeping
  <2>7. QED BY <1>1, <2>5, <2>6 DEF empty
<1>5. ASSUME NEW n \in 1 .. Len(log), n - 1 \in S PROVE n \in S
  <2>1. n \in 0 .. Len(log) /\ n - 1 \in 0 .. Len(log) BY <1>1
  <2>2. g[n - 1] \in Seq(E) /\ log[n] \in E BY <1>1, <2>1
  <2>3. g[n] = IF log[n].kind \in all THEN Append(g[n - 1], log[n]) ELSE g[n - 1]
    BY <1>2 DEF Keeping
  <2>4. h[n] = IF log[n].kind \in some THEN Append(h[n - 1], log[n]) ELSE h[n - 1]
    BY <1>3 DEF Keeping
  <2>5. EventsOf(g[n - 1], some) = h[n - 1] BY <1>5
  <2>6. EventsOf(Append(g[n - 1], log[n]), some)
          = IF log[n].kind \in some THEN Append(h[n - 1], log[n]) ELSE h[n - 1]
    <3> DEFINE before == g[n - 1] event == log[n]
    <3>1. before \in Seq(E) /\ event \in E BY <2>2
    <3> HIDE DEF before, event
    <3>2. EventsOf(Append(before, event), some)
            = IF event.kind \in some THEN Append(EventsOf(before, some), event)
              ELSE EventsOf(before, some)
      BY <3>1, EventsOfAppend
    <3>3. QED BY <2>5, <3>2 DEF before, event
  <2>7. EventsOf(g[n], some) = h[n]
    <3>1. CASE log[n].kind \in all BY <2>3, <2>4, <2>6, <3>1
    <3>2. CASE log[n].kind \notin all BY <2>3, <2>4, <2>5, <3>2
    <3>3. QED BY <3>1, <3>2
  <2>8. QED BY <2>1, <2>7
<1> HIDE DEF S
<1>6. \A n \in 0 .. Len(log) : n \in S BY <1>1, <1>4, <1>5, BoundedInduction
<1>7. Len(log) \in S BY <1>1, <1>6
<1>8. QED BY <1>2, <1>3, <1>7 DEF S

(***************************************************************************)
(* Actions expected in order                                               *)
(***************************************************************************)
(* The action after the cursor that matches first, or one past the last.   *)
LEMMA MatchAfterIs ==
    ASSUME NEW A, NEW actual \in Seq(A), NEW cursor \in Nat, NEW e
    PROVE  /\ MatchAfter(cursor, e, actual) \in Nat
           /\ MatchAfter(cursor, e, actual) <= Len(actual) =>
                /\ MatchAfter(cursor, e, actual) \in DOMAIN actual
                /\ cursor < MatchAfter(cursor, e, actual)
                /\ ActionMatches(e, actual[MatchAfter(cursor, e, actual)])
           /\ \A j \in DOMAIN actual :
                cursor < j /\ ActionMatches(e, actual[j]) => MatchAfter(cursor, e, actual) <= j
<1> DEFINE found == {j \in DOMAIN actual : j > cursor /\ ActionMatches(e, actual[j])}
<1>1. DOMAIN actual = 1 .. Len(actual) /\ Len(actual) \in Nat BY LenProperties
<1>2. found \in SUBSET Nat BY <1>1
<1>3. MatchAfter(cursor, e, actual) = IF found = {} THEN Len(actual) + 1 ELSE Min(found)
  BY DEF MatchAfter
<1>4. ASSUME NEW j \in DOMAIN actual, cursor < j, ActionMatches(e, actual[j]) PROVE j \in found
  BY <1>1, <1>4
<1>5. ASSUME NEW j \in found
      PROVE  j \in DOMAIN actual /\ cursor < j /\ ActionMatches(e, actual[j])
  BY <1>1
<1> HIDE DEF found
<1>6. CASE found = {}
  <2>1. MatchAfter(cursor, e, actual) = Len(actual) + 1 BY <1>3, <1>6
  <2>2. QED BY <1>1, <1>4, <1>6, <2>1
<1>7. CASE found # {}
  <2>1. MatchAfter(cursor, e, actual) = Min(found) BY <1>3, <1>7
  <2>2. Min(found) \in found /\ \A y \in found : Min(found) <= y BY <1>2, <1>7, MinIs
  <2>3. Min(found) \in Nat BY <1>2, <2>2
  <2>4. QED BY <1>4, <1>5, <2>1, <2>2, <2>3
<1>8. QED BY <1>6, <1>7

(* Where the cursor is after each expectation.                             *)
Advancing(g, expected, actual) ==
    /\ g[0] = 0
    /\ \A n \in 1 .. Len(expected) : g[n] = MatchAfter(g[n - 1], expected[n], actual)

LEMMA CursorTurns ==
    ASSUME NEW A, NEW B, NEW expected \in Seq(B), NEW actual \in Seq(A)
    PROVE  \E g \in [0 .. Len(expected) -> Nat] :
              /\ Advancing(g, expected, actual)
              /\ MatchesInOrder(expected, actual) <=> g[Len(expected)] <= Len(actual)
<1> DEFINE N == Len(expected)
           F == [n \in 1 .. N |-> [c \in Nat |-> MatchAfter(c, expected[n], actual)]]
           Turn(k, n) == IF n = 0 THEN 0 ELSE MatchAfter(k[n - 1], expected[n], actual)
           Made(k) == k = [n \in 0 .. N |-> Turn(k, n)]
           cursor == CHOOSE k : Made(k)
<1>1. N \in Nat BY LenProperties
<1>2. F \in [1 .. N -> [Nat -> Nat]] BY MatchAfterIs
<1>3. \A n \in 1 .. N, c \in Nat : F[n][c] = MatchAfter(c, expected[n], actual) OBVIOUS
<1>4. MatchesInOrder(expected, actual) <=> cursor[N] <= Len(actual) BY DEF MatchesInOrder
<1> HIDE DEF F, N, cursor
<1>5. PICK g : IsLoop(g, N, Nat, 0, F) BY <1>1, <1>2, LoopExists
<1>6. g \in [0 .. N -> Nat] /\ g[0] = 0 BY <1>5 DEF IsLoop
<1>7. ASSUME NEW n \in 1 .. N PROVE g[n] = MatchAfter(g[n - 1], expected[n], actual)
  <2>1. n - 1 \in 0 .. N BY <1>1
  <2>2. g[n - 1] \in Nat BY <1>6, <2>1
  <2>3. QED BY <1>3, <1>5, <2>2 DEF IsLoop
<1>8. ASSUME NEW n \in 0 .. N PROVE g[n] = Turn(g, n)
  <2>1. CASE n = 0 BY <1>6, <2>1
  <2>2. CASE n # 0
    <3>1. n \in 1 .. N BY <1>1, <2>2
    <3>2. QED BY <1>7, <2>2, <3>1
  <2>3. QED BY <2>1, <2>2
<1>9. Made(g)
  <2> HIDE DEF Turn
  <2>1. QED BY <1>6, <1>8
<1>10. Made(cursor)
  <2> HIDE DEF Made
  <2>1. QED BY <1>9 DEF cursor
<1> DEFINE S == {n \in 0 .. N : cursor[n] = g[n]}
<1>11. 0 \in S BY <1>1, <1>6, <1>10
<1>12. ASSUME NEW n \in 1 .. N, n - 1 \in S PROVE n \in S
  <2>1. n \in 0 .. N BY <1>1
  <2>2. cursor[n] = Turn(cursor, n) BY <1>10, <2>1
  <2>3. Turn(cursor, n) = Turn(g, n) BY <1>12
  <2> HIDE DEF Turn
  <2>4. QED BY <1>8, <2>1, <2>2, <2>3
<1> HIDE DEF S
<1>13. \A n \in 0 .. N : n \in S BY <1>1, <1>11, <1>12, BoundedInduction
<1>14. cursor[N] = g[N] BY <1>1, <1>13 DEF S
<1>15. Advancing(g, expected, actual) BY <1>6, <1>7 DEF Advancing, N
<1>16. QED BY <1>4, <1>6, <1>14, <1>15 DEF N

(* The ways to assign actions, one by one.                                 *)
LEMMA AssignmentIs ==
    ASSUME NEW expected, NEW actual, NEW f
    PROVE  f \in Assignments(expected, actual) <=>
             /\ f \in [DOMAIN expected -> DOMAIN actual]
             /\ \A i, j \in DOMAIN expected : f[i] = f[j] => i = j
             /\ \A i \in DOMAIN expected : ActionMatches(expected[i], actual[f[i]])
BY DEF Assignments, IsInjective

(* The loop finds increasing matches exactly if there are any.             *)
LEMMA InOrderIsExpected ==
    ASSUME NEW A, NEW B, NEW expected \in Seq(B), NEW actual \in Seq(A)
    PROVE  MatchesInOrder(expected, actual) <=>
             \E f \in Assignments(expected, actual) : Increasing(f)
<1> DEFINE N == Len(expected)
<1>1. /\ N \in Nat /\ DOMAIN expected = 1 .. N
      /\ Len(actual) \in Nat /\ DOMAIN actual = 1 .. Len(actual)
  BY LenProperties
<1>2. PICK g \in [0 .. N -> Nat] :
        /\ Advancing(g, expected, actual)
        /\ MatchesInOrder(expected, actual) <=> g[N] <= Len(actual)
  BY CursorTurns
<1>3. ASSUME NEW n \in 1 .. N
      PROVE  /\ g[n] \in Nat /\ g[n - 1] \in Nat
             /\ g[n] <= Len(actual) =>
                  /\ g[n] \in DOMAIN actual /\ g[n - 1] < g[n]
                  /\ ActionMatches(expected[n], actual[g[n]])
             /\ \A j \in DOMAIN actual :
                  g[n - 1] < j /\ ActionMatches(expected[n], actual[j]) => g[n] <= j
  <2>1. g[n - 1] \in Nat BY <1>1
  <2>2. g[n] = MatchAfter(g[n - 1], expected[n], actual) BY <1>2 DEF Advancing
  <2>3. QED BY <2>1, <2>2, MatchAfterIs
<1> HIDE DEF N
<1>4. ASSUME g[N] <= Len(actual)
      PROVE  \E f \in Assignments(expected, actual) : Increasing(f)
  <2> DEFINE Good(n) ==
               /\ \A m \in 1 .. n : /\ g[m] \in DOMAIN actual
                                    /\ ActionMatches(expected[m], actual[g[m]])
               /\ \A m, k \in 0 .. n : m < k => g[m] < g[k]
             S == {n \in 0 .. N : g[n] <= Len(actual) => Good(n)}
  <2>1. 0 \in S BY <1>1
  <2>2. ASSUME NEW n \in 1 .. N, n - 1 \in S PROVE n \in S
    <3>1. SUFFICES ASSUME g[n] <= Len(actual) PROVE Good(n) BY <1>1
    <3>2. /\ g[n] \in DOMAIN actual /\ g[n - 1] < g[n] /\ g[n] \in Nat /\ g[n - 1] \in Nat
          /\ ActionMatches(expected[n], actual[g[n]])
      BY <1>3, <3>1
    <3>3. Good(n - 1) BY <1>1, <2>2, <3>1, <3>2
    <3>4. ASSUME NEW m \in 1 .. n
          PROVE  g[m] \in DOMAIN actual /\ ActionMatches(expected[m], actual[g[m]])
      <4>1. m = n \/ m \in 1 .. n - 1 BY <1>1
      <4>2. QED BY <3>2, <3>3, <4>1
    <3>5. ASSUME NEW m \in 0 .. n, NEW k \in 0 .. n, m < k PROVE g[m] < g[k]
      <4>1. m \in 0 .. n - 1 /\ (k = n \/ k \in 0 .. n - 1) BY <1>1, <3>5
      <4>2. CASE k \in 0 .. n - 1 BY <3>3, <3>5, <4>1, <4>2
      <4>3. CASE k = n
        <5>1. m = n - 1 \/ (m < n - 1 /\ n - 1 \in 0 .. n - 1) BY <1>1, <4>1
        <5>2. m \in 0 .. N BY <1>1
        <5>3. g[m] \in Nat BY <5>2
        <5>4. CASE m = n - 1 BY <3>2, <4>3, <5>4
        <5>5. CASE m < n - 1 /\ n - 1 \in 0 .. n - 1
          <6>1. g[m] < g[n - 1] BY <3>3, <4>1, <5>5
          <6>2. QED BY <3>2, <4>3, <5>3, <6>1
        <5>6. QED BY <5>1, <5>4, <5>5
      <4>4. QED BY <4>1, <4>2, <4>3
    <3>6. QED BY <3>4, <3>5
  <2> HIDE DEF S
  <2>3. \A n \in 0 .. N : n \in S BY <1>1, <2>1, <2>2, BoundedInduction
  <2>4. Good(N) BY <1>1, <1>4, <2>3 DEF S
  <2> DEFINE f == [i \in DOMAIN expected |-> g[i]]
  <2>5. \A i \in DOMAIN expected : f[i] = g[i] /\ i \in 1 .. N /\ i \in 0 .. N BY <1>1
  <2>6. f \in [DOMAIN expected -> DOMAIN actual] BY <1>1, <2>4
  <2>7. \A i, j \in DOMAIN expected : i < j => f[i] < f[j] BY <2>4, <2>5
  <2>8. ASSUME NEW i \in DOMAIN expected, NEW j \in DOMAIN expected, f[i] = f[j] PROVE i = j
    <3>1. i \in Nat /\ j \in Nat /\ f[i] \in Nat /\ f[j] \in Nat BY <1>1, <2>6
    <3>2. ~ (i < j) /\ ~ (j < i) BY <2>7, <2>8, <3>1
    <3>3. QED BY <3>1, <3>2
  <2>9. \A i \in DOMAIN expected : ActionMatches(expected[i], actual[f[i]]) BY <2>4, <2>5
  <2>10. DOMAIN f = DOMAIN expected OBVIOUS
  <2> HIDE DEF f
  <2>11. f \in Assignments(expected, actual) BY <2>6, <2>8, <2>9, AssignmentIs
  <2>12. Increasing(f) BY <2>7, <2>10 DEF Increasing
  <2>13. QED BY <2>11, <2>12
<1>5. ASSUME NEW f \in Assignments(expected, actual), Increasing(f)
      PROVE  g[N] <= Len(actual)
  <2>1. /\ f \in [DOMAIN expected -> DOMAIN actual]
        /\ \A i \in DOMAIN expected : ActionMatches(expected[i], actual[f[i]])
    BY AssignmentIs
  <2>2. \A i, j \in 1 .. N : i < j => f[i] < f[j] BY <1>1, <1>5, <2>1 DEF Increasing
  <2> DEFINE S == {n \in 0 .. N : n # 0 => g[n] <= f[n]}
  <2>3. 0 \in S BY <1>1
  <2>4. ASSUME NEW n \in 1 .. N, n - 1 \in S PROVE n \in S
    <3>1. f[n] \in DOMAIN actual /\ f[n] \in Nat /\ 0 < f[n] BY <1>1, <2>1
    <3>2. g[n - 1] < f[n]
      <4>1. CASE n = 1 BY <1>2, <3>1, <4>1 DEF Advancing
      <4>2. CASE n # 1
        <5>1. n - 1 \in 1 .. N /\ n - 1 < n /\ n - 1 # 0 BY <1>1, <4>2
        <5>2. g[n - 1] <= f[n - 1] BY <2>4, <5>1
        <5>3. f[n - 1] < f[n] /\ f[n - 1] \in Nat /\ g[n - 1] \in Nat BY <1>1, <1>3, <2>1, <2>2, <5>1
        <5>4. QED BY <3>1, <5>2, <5>3
      <4>3. QED BY <4>1, <4>2
    <3>3. ActionMatches(expected[n], actual[f[n]]) BY <1>1, <2>1
    <3>4. g[n] <= f[n] BY <1>3, <3>1, <3>2, <3>3
    <3>5. QED BY <1>1, <3>4
  <2> HIDE DEF S
  <2>5. \A n \in 0 .. N : n \in S BY <1>1, <2>3, <2>4, BoundedInduction
  <2>6. CASE N = 0 BY <1>1, <1>2, <2>6 DEF Advancing
  <2>7. CASE N # 0
    <3>1. N \in 1 .. N /\ N \in S BY <1>1, <2>5, <2>7
    <3>2. g[N] <= f[N] BY <2>7, <3>1 DEF S
    <3>3. f[N] \in Nat /\ f[N] <= Len(actual) /\ g[N] \in Nat BY <1>1, <1>3, <2>1, <3>1
    <3>4. QED BY <1>1, <3>2, <3>3
  <2>8. QED BY <2>6, <2>7
<1>6. QED BY <1>2, <1>4, <1>5 DEF N

(* Increasing assignments of as many actions as are expected go one by one. *)
LEMMA PairwiseIsExpected ==
    ASSUME NEW A, NEW B, NEW expected \in Seq(B), NEW actual \in Seq(A)
    PROVE  MatchesPairwise(expected, actual) <=>
             /\ Len(expected) = Len(actual)
             /\ \E f \in Assignments(expected, actual) : Increasing(f)
<1> DEFINE N == Len(expected)
<1>1. /\ N \in Nat /\ DOMAIN expected = 1 .. N
      /\ Len(actual) \in Nat /\ DOMAIN actual = 1 .. Len(actual)
  BY LenProperties
<1> HIDE DEF N
<1>2. ASSUME N = Len(actual), \A i \in DOMAIN expected : ActionMatches(expected[i], actual[i])
      PROVE  \E f \in Assignments(expected, actual) : Increasing(f)
  <2> DEFINE f == [i \in DOMAIN expected |-> i]
  <2>1. f \in [DOMAIN expected -> DOMAIN actual] /\ DOMAIN f = DOMAIN expected BY <1>1, <1>2
  <2>2. \A i \in DOMAIN expected : f[i] = i OBVIOUS
  <2> HIDE DEF f
  <2>3. f \in Assignments(expected, actual) BY <1>2, <2>1, <2>2, AssignmentIs
  <2>4. Increasing(f) BY <2>1, <2>2 DEF Increasing
  <2>5. QED BY <2>3, <2>4
<1>3. ASSUME N = Len(actual), NEW f \in Assignments(expected, actual), Increasing(f),
             NEW i \in DOMAIN expected
      PROVE  ActionMatches(expected[i], actual[i])
  <2>1. /\ f \in [1 .. N -> 1 .. N]
        /\ \A n \in 1 .. N : ActionMatches(expected[n], actual[f[n]])
    BY <1>1, <1>3, AssignmentIs
  <2>2. \A n, m \in 1 .. N : n < m => f[n] < f[m] BY <1>1, <1>3, <2>1 DEF Increasing
  <2>3. \A n \in 1 .. N : f[n] \in Nat /\ 1 <= f[n] /\ f[n] <= N BY <1>1, <2>1
  <2> DEFINE S == {n \in 0 .. N : n # 0 => n <= f[n]}
             T == {k \in 0 .. N : k # N => f[N - k] <= N - k}
  <2>4. 0 \in S BY <1>1
  <2>5. ASSUME NEW n \in 1 .. N, n - 1 \in S PROVE n \in S
    <3>1. CASE n = 1 BY <1>1, <2>3, <3>1
    <3>2. CASE n # 1
      <4>1. n - 1 \in 1 .. N /\ n - 1 < n /\ n - 1 # 0 BY <1>1, <3>2
      <4>2. n - 1 <= f[n - 1] /\ f[n - 1] < f[n] BY <2>2, <2>5, <4>1
      <4>3. f[n] \in Nat /\ f[n - 1] \in Nat BY <2>3, <4>1
      <4>4. n <= f[n] BY <1>1, <4>2, <4>3
      <4>5. QED BY <1>1, <4>4
    <3>3. QED BY <3>1, <3>2
  <2> HIDE DEF S
  <2>6. \A n \in 0 .. N : n \in S BY <1>1, <2>4, <2>5, BoundedInduction
  <2>7. 0 \in T
    <3>1. N # 0 => N \in 1 .. N BY <1>1
    <3>2. N # 0 => f[N - 0] <= N - 0 BY <1>1, <2>3, <3>1
    <3>3. QED BY <1>1, <3>2
  <2>8. ASSUME NEW k \in 1 .. N, k - 1 \in T PROVE k \in T
    <3>1. CASE k = N BY <1>1, <3>1
    <3>2. CASE k # N
      <4> DEFINE n == N - k
      <4>1. n \in 1 .. N /\ n + 1 \in 1 .. N /\ n < n + 1 /\ N - (k - 1) = n + 1 /\ k - 1 # N
        BY <1>1, <3>2
      <4>2. f[N - (k - 1)] <= N - (k - 1) BY <2>8, <4>1
      <4>3. k \in 0 .. N BY <1>1
      <4> HIDE DEF n
      <4>4. f[n + 1] <= n + 1 BY <4>1, <4>2
      <4>5. f[n] < f[n + 1] BY <2>2, <4>1
      <4>6. f[n] \in Nat /\ f[n + 1] \in Nat /\ n \in Nat BY <1>1, <2>3, <4>1
      <4>7. f[n] <= n BY <4>4, <4>5, <4>6
      <4>8. QED BY <4>3, <4>7 DEF n
    <3>3. QED BY <3>1, <3>2
  <2> HIDE DEF T
  <2>9. \A k \in 0 .. N : k \in T BY <1>1, <2>7, <2>8, BoundedInduction
  <2>10. i \in 1 .. N BY <1>1
  <2>11. i <= f[i] BY <1>1, <2>6, <2>10 DEF S
  <2>12. f[i] <= i
    <3>1. N - i \in 0 .. N /\ N - i # N /\ N - (N - i) = i BY <1>1, <2>10
    <3>2. QED BY <2>9, <3>1 DEF T
  <2>13. f[i] = i BY <2>3, <2>10, <2>11, <2>12
  <2>14. QED BY <2>1, <2>10, <2>13
<1>4. QED BY <1>2, <1>3 DEF MatchesPairwise, N

(***************************************************************************)
(* Actions expected in any order                                           *)
(***************************************************************************)
(* An expectation takes an action that is left, if one of these matches.   *)
LEMMA TakeIs ==
    ASSUME NEW A, NEW actual \in Seq(A), NEW used \in SUBSET Nat, NEW e
    PROVE  /\ Take(used, e, actual) \in SUBSET Nat
           /\ \/ /\ Take(used, e, actual) = {0}
                 /\ \/ 0 \in used
                    \/ \A j \in DOMAIN actual : j \notin used => ~ ActionMatches(e, actual[j])
              \/ /\ 0 \notin used
                 /\ \E j \in DOMAIN actual :
                      /\ j \notin used /\ ActionMatches(e, actual[j])
                      /\ Take(used, e, actual) = used \union {j}
<1> DEFINE free == {j \in DOMAIN actual : j \notin used /\ ActionMatches(e, actual[j])}
<1>1. DOMAIN actual = 1 .. Len(actual) /\ Len(actual) \in Nat BY LenProperties
<1>2. free \in SUBSET Nat BY <1>1
<1>3. Take(used, e, actual) = IF 0 \in used \/ free = {} THEN {0} ELSE used \union {Min(free)}
  BY DEF Take
<1>4. ASSUME NEW j \in free
      PROVE  j \in DOMAIN actual /\ j \in Nat /\ j \notin used /\ ActionMatches(e, actual[j])
  BY <1>1
<1>5. free = {} => \A j \in DOMAIN actual : j \notin used => ~ ActionMatches(e, actual[j])
  OBVIOUS
<1> HIDE DEF free
<1>6. CASE 0 \in used \/ free = {} BY <1>3, <1>5, <1>6
<1>7. CASE ~ (0 \in used \/ free = {})
  <2>1. Min(free) \in free BY <1>2, <1>7, MinIs
  <2>2. Take(used, e, actual) = used \union {Min(free)} BY <1>3, <1>7
  <2>3. Min(free) \in Nat BY <1>4, <2>1
  <2>4. QED BY <1>4, <1>7, <2>1, <2>2, <2>3
<1>8. QED BY <1>6, <1>7

(* There are no actions too many; and none is left unused in the end.      *)
Fits(expected, actual, extra) == extra \/ Len(expected) = Len(actual)
Accepted(used, expected, actual, extra) ==
    Fits(expected, actual, extra) /\ 0 \notin used /\ (extra \/ used = DOMAIN actual)

(* What is used after each expectation.                                    *)
Using(g, expected, actual) ==
    /\ g[0] = {}
    /\ \A n \in 1 .. Len(expected) : g[n] = Take(g[n - 1], expected[n], actual)

LEMMA TakenTurns ==
    ASSUME NEW A, NEW B, NEW expected \in Seq(B), NEW actual \in Seq(A), NEW extra
    PROVE  \E g \in [0 .. Len(expected) -> SUBSET Nat] :
              /\ Using(g, expected, actual)
              /\ MatchesActionSet(expected, actual, extra) <=>
                   Accepted(g[Len(expected)], expected, actual, extra)
<1> DEFINE N == Len(expected)
           F == [n \in 1 .. N |-> [c \in SUBSET Nat |-> Take(c, expected[n], actual)]]
           Turn(k, n) == IF n = 0 THEN {} ELSE Take(k[n - 1], expected[n], actual)
           Made(k) == k = [n \in 0 .. N |-> Turn(k, n)]
           taken == CHOOSE k : Made(k)
<1>1. N \in Nat BY LenProperties
<1>2. F \in [1 .. N -> [SUBSET Nat -> SUBSET Nat]] BY TakeIs
<1>3. \A n \in 1 .. N, c \in SUBSET Nat : F[n][c] = Take(c, expected[n], actual) OBVIOUS
<1>4. MatchesActionSet(expected, actual, extra) <=> Accepted(taken[N], expected, actual, extra)
  BY DEF MatchesActionSet, Accepted, Fits
<1> HIDE DEF F, N, taken
<1>5. PICK g : IsLoop(g, N, SUBSET Nat, {}, F) BY <1>1, <1>2, LoopExists
<1>6. g \in [0 .. N -> SUBSET Nat] /\ g[0] = {} BY <1>5 DEF IsLoop
<1>7. ASSUME NEW n \in 1 .. N PROVE g[n] = Take(g[n - 1], expected[n], actual)
  <2>1. n - 1 \in 0 .. N BY <1>1
  <2>2. g[n - 1] \in SUBSET Nat BY <1>6, <2>1
  <2>3. QED BY <1>3, <1>5, <2>2 DEF IsLoop
<1>8. ASSUME NEW n \in 0 .. N PROVE g[n] = Turn(g, n)
  <2>1. CASE n = 0 BY <1>6, <2>1
  <2>2. CASE n # 0
    <3>1. n \in 1 .. N BY <1>1, <2>2
    <3>2. QED BY <1>7, <2>2, <3>1
  <2>3. QED BY <2>1, <2>2
<1>9. Made(g)
  <2> HIDE DEF Turn
  <2>1. QED BY <1>6, <1>8
<1>10. Made(taken)
  <2> HIDE DEF Made
  <2>1. QED BY <1>9 DEF taken
<1> DEFINE S == {n \in 0 .. N : taken[n] = g[n]}
<1>11. 0 \in S BY <1>1, <1>6, <1>10
<1>12. ASSUME NEW n \in 1 .. N, n - 1 \in S PROVE n \in S
  <2>1. n \in 0 .. N BY <1>1
  <2>2. taken[n] = Turn(taken, n) BY <1>10, <2>1
  <2>3. Turn(taken, n) = Turn(g, n) BY <1>12
  <2> HIDE DEF Turn
  <2>4. QED BY <1>8, <2>1, <2>2, <2>3
<1> HIDE DEF S
<1>13. \A n \in 0 .. N : n \in S BY <1>1, <1>11, <1>12, BoundedInduction
<1>14. taken[N] = g[N] BY <1>1, <1>13 DEF S
<1>15. Using(g, expected, actual) BY <1>6, <1>7 DEF Using, N
<1>16. QED BY <1>4, <1>6, <1>14, <1>15 DEF N

(* The first n expectations have taken the actions used, each one of them.  *)
Takers(f, n, used, expected, actual) ==
    /\ f \in [1 .. n -> used] /\ used \subseteq DOMAIN actual
    /\ \A i, j \in 1 .. n : f[i] = f[j] => i = j
    /\ \A i \in 1 .. n : ActionMatches(expected[i], actual[f[i]])
    /\ \A x \in used : \E i \in 1 .. n : f[i] = x

LEMMA TakersGrow ==
    ASSUME NEW expected, NEW actual, NEW n \in Nat, n # 0, NEW f, NEW used,
           Takers(f, n - 1, used, expected, actual),
           NEW x \in DOMAIN actual, x \notin used, ActionMatches(expected[n], actual[x])
    PROVE  \E h : Takers(h, n, used \union {x}, expected, actual)
<1> DEFINE h == [i \in 1 .. n |-> IF i = n THEN x ELSE f[i]]
<1>1. \A i \in 1 .. n : i = n \/ (i \in 1 .. n - 1 /\ i # n) OBVIOUS
<1>2. f \in [1 .. n - 1 -> used] /\ used \subseteq DOMAIN actual BY DEF Takers
<1>3. \A i \in 1 .. n - 1 : i \in 1 .. n /\ h[i] = f[i] /\ f[i] \in used /\ f[i] # x
  BY <1>2
<1>4. n \in 1 .. n /\ h[n] = x OBVIOUS
<1>5. h \in [1 .. n -> used \union {x}] BY <1>1, <1>2
<1> HIDE DEF h
<1>6. \A i, j \in 1 .. n : h[i] = h[j] => i = j BY <1>1, <1>3, <1>4 DEF Takers
<1>7. \A i \in 1 .. n : ActionMatches(expected[i], actual[h[i]]) BY <1>1, <1>3, <1>4 DEF Takers
<1>8. \A y \in used \union {x} : \E i \in 1 .. n : h[i] = y BY <1>3, <1>4 DEF Takers
<1>9. QED BY <1>2, <1>5, <1>6, <1>7, <1>8 DEF Takers

(* What the loop takes is an assignment, unless it has failed.             *)
LEMMA TakenIsAssigned ==
    ASSUME NEW A, NEW B, NEW expected \in Seq(B), NEW actual \in Seq(A),
           NEW g \in [0 .. Len(expected) -> SUBSET Nat], Using(g, expected, actual),
           NEW n \in 0 .. Len(expected), 0 \notin g[n]
    PROVE  \E f : Takers(f, n, g[n], expected, actual)
<1> DEFINE S == {m \in 0 .. Len(expected) :
                   0 \notin g[m] => \E f : Takers(f, m, g[m], expected, actual)}
<1>1. Len(expected) \in Nat BY LenProperties
<1>2. 0 \in S
  <2> DEFINE f == [i \in 1 .. 0 |-> i]
  <2>1. g[0] = {} /\ 1 .. 0 = {} BY DEF Using
  <2>2. f \in [1 .. 0 -> g[0]] BY <2>1
  <2> HIDE DEF f
  <2>3. Takers(f, 0, g[0], expected, actual) BY <2>1, <2>2 DEF Takers
  <2>4. QED BY <1>1, <2>3
<1>3. ASSUME NEW m \in 1 .. Len(expected), m - 1 \in S PROVE m \in S
  <2>1. SUFFICES ASSUME 0 \notin g[m] PROVE \E f : Takers(f, m, g[m], expected, actual)
    BY <1>1
  <2>2. m \in Nat /\ m # 0 /\ m - 1 \in 0 .. Len(expected) BY <1>1
  <2>3. g[m] = Take(g[m - 1], expected[m], actual) /\ g[m - 1] \in SUBSET Nat
    BY <2>2 DEF Using
  <2>4. /\ 0 \notin g[m - 1]
        /\ \E x \in DOMAIN actual :
             /\ x \notin g[m - 1] /\ ActionMatches(expected[m], actual[x])
             /\ g[m] = g[m - 1] \union {x}
    <3> DEFINE used == g[m - 1] e == expected[m]
    <3>1. used \in SUBSET Nat /\ g[m] = Take(used, e, actual) BY <2>3
    <3> HIDE DEF used, e
    <3>2. \/ Take(used, e, actual) = {0}
          \/ /\ 0 \notin used
             /\ \E x \in DOMAIN actual :
                  /\ x \notin used /\ ActionMatches(e, actual[x])
                  /\ Take(used, e, actual) = used \union {x}
      BY <3>1, TakeIs
    <3>3. QED BY <2>1, <3>1, <3>2 DEF used, e
  <2>5. PICK x \in DOMAIN actual :
          /\ x \notin g[m - 1] /\ ActionMatches(expected[m], actual[x])
          /\ g[m] = g[m - 1] \union {x}
    BY <2>4
  <2>6. PICK f : Takers(f, m - 1, g[m - 1], expected, actual) BY <1>3, <2>4
  <2>7. \E h : Takers(h, m, g[m - 1] \union {x}, expected, actual)
    BY <2>2, <2>5, <2>6, TakersGrow
  <2>8. QED BY <2>5, <2>7
<1> HIDE DEF S
<1>4. \A m \in 0 .. Len(expected) : m \in S BY <1>1, <1>2, <1>3, BoundedInduction
<1>5. QED BY <1>4 DEF S

(* An expectation finds an action that is left, if the expectations can be  *)
(* assigned at all and none before it takes one it has more use for: the    *)
(* ones that took its actions would have to share them with it otherwise.   *)
LEMMA OneIsLeft ==
    ASSUME NEW A, NEW B, NEW expected \in Seq(B), NEW actual \in Seq(A),
           NEW f \in Assignments(expected, actual),
           \A i, j \in DOMAIN expected :
              i < j /\ Taking(expected[i], actual) \cap Taking(expected[j], actual) # {} =>
                Taking(expected[i], actual) \subseteq Taking(expected[j], actual),
           NEW n \in DOMAIN expected, NEW h, NEW used,
           Takers(h, n - 1, used, expected, actual)
    PROVE  \E x \in DOMAIN actual : x \notin used /\ ActionMatches(expected[n], actual[x])
<1> SUFFICES ASSUME \A x \in DOMAIN actual : ActionMatches(expected[n], actual[x]) => x \in used
             PROVE  FALSE
  OBVIOUS
<1> DEFINE T == Taking(expected[n], actual)
           K == {k \in 1 .. n - 1 : h[k] \in T}
           b == [k \in K |-> h[k]]
           L == K \union {n}
           d == [k \in L |-> f[k]]
<1>1. /\ DOMAIN expected = 1 .. Len(expected) /\ Len(expected) \in Nat
      /\ DOMAIN actual = 1 .. Len(actual) /\ Len(actual) \in Nat
  BY LenProperties
<1>2. n \in Nat /\ \A k \in 1 .. n - 1 : k \in DOMAIN expected /\ k < n BY <1>1
<1>3. \A x : x \in T <=> x \in DOMAIN actual /\ ActionMatches(expected[n], actual[x])
  BY DEF Taking
<1>4. T \subseteq used BY <1>3
<1>5. /\ f \in [DOMAIN expected -> DOMAIN actual]
      /\ \A i, j \in DOMAIN expected : f[i] = f[j] => i = j
      /\ \A i \in DOMAIN expected : ActionMatches(expected[i], actual[f[i]])
  BY AssignmentIs
<1>6. IsFiniteSet(T)
  <2>1. IsFiniteSet(1 .. Len(actual)) BY <1>1, FS_Interval
  <2>2. T \in SUBSET (1 .. Len(actual)) BY <1>1, <1>3
  <2> HIDE DEF T
  <2>3. QED BY <2>1, <2>2, FS_Subset
<1> HIDE DEF T
<1>7. ASSUME NEW k \in K PROVE k \in DOMAIN expected /\ k # n /\ h[k] \in T /\ f[k] \in T
  <2>1. k \in 1 .. n - 1 /\ h[k] \in T BY <1>7
  <2>2. k \in DOMAIN expected /\ k < n BY <1>2, <2>1
  <2>3. ActionMatches(expected[k], actual[h[k]]) BY <2>1 DEF Takers
  <2>4. h[k] \in DOMAIN actual BY <1>3, <2>1
  <2>5. h[k] \in Taking(expected[k], actual) BY <2>3, <2>4 DEF Taking
  <2>6. Taking(expected[k], actual) \subseteq T BY <2>1, <2>2, <2>5 DEF T
  <2>7. f[k] \in Taking(expected[k], actual) BY <1>5, <2>2 DEF Taking
  <2>8. QED BY <1>1, <2>1, <2>2, <2>6, <2>7
<1>8. b \in Injection(K, T) /\ b \in Surjection(K, T)
  <2>1. b \in [K -> T] BY <1>7
  <2>2. \A i, j \in K : b[i] = b[j] => i = j BY DEF Takers
  <2>3. ASSUME NEW x \in T PROVE \E k \in K : b[k] = x
    <3>1. x \in used BY <1>4
    <3>2. PICK k \in 1 .. n - 1 : h[k] = x BY <3>1 DEF Takers
    <3>3. k \in K BY <3>2
    <3>4. b[k] = x BY <3>2, <3>3
    <3>5. QED BY <3>3, <3>4
  <2> HIDE DEF b, K
  <2>4. QED BY <2>1, <2>2, <2>3 DEF Injection, Surjection, IsInjective
<1>9. n \notin K BY <1>2
<1> HIDE DEF b, K
<1>10. IsFiniteSet(K) /\ Cardinality(K) = Cardinality(T)
  <2>1. IsFiniteSet(K) /\ (Cardinality(K) = Cardinality(T) <=> b \in Surjection(K, T))
    BY <1>6, <1>8, FS_Injection
  <2>2. QED BY <1>8, <2>1
<1>11. IsFiniteSet(L) /\ Cardinality(L) = Cardinality(K) + 1 BY <1>9, <1>10, FS_AddElement
<1>12. Cardinality(T) \in Nat BY <1>6, FS_CardinalityType
<1>13. d \in [L -> T]
  <2>1. f[n] \in T BY <1>3, <1>5
  <2>2. QED BY <1>7, <2>1
<1>14. \A i, j \in L : d[i] = d[j] => i = j BY <1>5, <1>7
<1> HIDE DEF d, L
<1>15. Cardinality(T) < Cardinality(L) BY <1>10, <1>11, <1>12
<1>16. \E x, y \in L : x # y /\ d[x] = d[y] BY <1>6, <1>11, <1>13, <1>15, FS_PigeonHole
<1>17. QED BY <1>14, <1>16

LEMMA TakersAssign ==
    ASSUME NEW A, NEW B, NEW expected \in Seq(B), NEW actual \in Seq(A), NEW f, NEW used,
           Takers(f, Len(expected), used, expected, actual)
    PROVE  f \in Assignments(expected, actual)
<1>1. DOMAIN expected = 1 .. Len(expected) BY LenProperties
<1>2. f \in [DOMAIN expected -> DOMAIN actual] BY <1>1 DEF Takers
<1>3. QED BY <1>1, <1>2, AssignmentIs DEF Takers

(* What the loop accepts can be assigned.                                  *)
LEMMA SetIsExpected ==
    ASSUME NEW A, NEW B, NEW expected \in Seq(B), NEW actual \in Seq(A), NEW extra,
           MatchesActionSet(expected, actual, extra)
    PROVE  /\ Fits(expected, actual, extra)
           /\ \E f : f \in Assignments(expected, actual)
<1>1. PICK g \in [0 .. Len(expected) -> SUBSET Nat] :
        Using(g, expected, actual) /\ Accepted(g[Len(expected)], expected, actual, extra)
  BY TakenTurns
<1>2. Fits(expected, actual, extra) /\ 0 \notin g[Len(expected)] BY <1>1 DEF Accepted
<1>3. Len(expected) \in 0 .. Len(expected) BY LenProperties
<1>4. PICK f : Takers(f, Len(expected), g[Len(expected)], expected, actual)
  BY <1>1, <1>2, <1>3, TakenIsAssigned
<1>5. QED BY <1>2, <1>4, TakersAssign

(* Every expectation finds an action if they can be assigned at all, unless *)
(* they are misordered; if there are no others, every action is used.      *)
LEMMA AllAreTaken ==
    ASSUME NEW A, NEW B, NEW expected \in Seq(B), NEW actual \in Seq(A),
           NEW g \in [0 .. Len(expected) -> SUBSET Nat], Using(g, expected, actual),
           NEW f \in Assignments(expected, actual),
           \A i, j \in DOMAIN expected :
              i < j /\ Taking(expected[i], actual) \cap Taking(expected[j], actual) # {} =>
                Taking(expected[i], actual) \subseteq Taking(expected[j], actual)
    PROVE  /\ 0 \notin g[Len(expected)]
           /\ Len(expected) = Len(actual) => g[Len(expected)] = DOMAIN actual
<1> DEFINE N == Len(expected)
<1>1. /\ DOMAIN expected = 1 .. N /\ N \in Nat
      /\ DOMAIN actual = 1 .. Len(actual) /\ Len(actual) \in Nat
  BY LenProperties
<1>2. g \in [0 .. N -> SUBSET Nat] OBVIOUS
<1> HIDE DEF N
<1> DEFINE S == {m \in 0 .. N : 0 \notin g[m]}
<1>3. 0 \in S BY <1>1 DEF Using
<1>4. ASSUME NEW m \in 1 .. N, m - 1 \in S PROVE m \in S
  <2>1. m - 1 \in 0 .. N /\ m \in DOMAIN expected /\ m \in 0 .. N BY <1>1
  <2>2. g[m] = Take(g[m - 1], expected[m], actual) /\ g[m - 1] \in SUBSET Nat
    BY <1>2, <2>1 DEF Using, N
  <2>3. 0 \notin g[m - 1] BY <1>4
  <2>4. \E h : Takers(h, m - 1, g[m - 1], expected, actual)
    BY <1>2, <2>1, <2>3, TakenIsAssigned DEF N
  <2>5. PICK h : Takers(h, m - 1, g[m - 1], expected, actual) BY <2>4
  <2>6. PICK x \in DOMAIN actual : x \notin g[m - 1] /\ ActionMatches(expected[m], actual[x])
    BY <2>1, <2>5, OneIsLeft
  <2>7. 0 \notin g[m]
    <3> DEFINE used == g[m - 1] e == expected[m]
    <3>1. used \in SUBSET Nat /\ g[m] = Take(used, e, actual) BY <2>2
    <3>2. 0 \notin used /\ x \notin used /\ ActionMatches(e, actual[x]) BY <2>3, <2>6
    <3> HIDE DEF used, e
    <3>3. \E y \in DOMAIN actual : Take(used, e, actual) = used \union {y}
      BY <3>1, <3>2, TakeIs
    <3>4. QED BY <1>1, <3>1, <3>2, <3>3
  <2>8. QED BY <2>1, <2>7
<1> HIDE DEF S
<1>5. \A m \in 0 .. N : m \in S BY <1>1, <1>3, <1>4, BoundedInduction
<1>6. 0 \notin g[N] BY <1>1, <1>5 DEF S
<1>7. PICK h : Takers(h, N, g[N], expected, actual) BY <1>1, <1>2, <1>6, TakenIsAssigned DEF N
<1>8. ASSUME N = Len(actual) PROVE g[N] = DOMAIN actual
  <2> DEFINE used == g[N]
  <2>1. used \in SUBSET (1 .. Len(actual)) /\ N = Len(actual) BY <1>1, <1>7, <1>8 DEF Takers
  <2>2. IsFiniteSet(1 .. N) /\ Cardinality(1 .. N) = N BY <1>1, FS_Interval
  <2>3. IsFiniteSet(used) BY <2>1, <2>2, FS_Subset
  <2>4. h \in Injection(1 .. N, used)
    <3>1. h \in [1 .. N -> used] /\ \A i, j \in 1 .. N : h[i] = h[j] => i = j
      BY <1>7 DEF Takers
    <3> HIDE DEF used
    <3>2. QED BY <3>1 DEF Injection, IsInjective
  <2> HIDE DEF used
  <2>5. Cardinality(1 .. N) <= Cardinality(used) BY <2>3, <2>4, FS_Injection
  <2>6. /\ Cardinality(used) <= Cardinality(1 .. N)
        /\ Cardinality(1 .. N) = Cardinality(used) => 1 .. N = used
    BY <2>1, <2>2, FS_Subset
  <2>7. Cardinality(used) \in Nat BY <2>3, FS_CardinalityType
  <2>8. used = 1 .. N BY <1>1, <2>2, <2>5, <2>6, <2>7
  <2>9. QED BY <1>1, <2>1, <2>8 DEF used
<1>9. QED BY <1>6, <1>8 DEF N

(* What can be assigned is accepted, unless it is misordered.              *)
LEMMA SetFindsExpected ==
    ASSUME NEW A, NEW B, NEW expected \in Seq(B), NEW actual \in Seq(A), NEW extra,
           Fits(expected, actual, extra),
           NEW f \in Assignments(expected, actual),
           \A i, j \in DOMAIN expected :
              i < j /\ Taking(expected[i], actual) \cap Taking(expected[j], actual) # {} =>
                Taking(expected[i], actual) \subseteq Taking(expected[j], actual)
    PROVE  MatchesActionSet(expected, actual, extra)
<1>1. PICK g \in [0 .. Len(expected) -> SUBSET Nat] :
        /\ Using(g, expected, actual)
        /\ MatchesActionSet(expected, actual, extra) <=>
             Accepted(g[Len(expected)], expected, actual, extra)
  BY TakenTurns
<1>2. /\ 0 \notin g[Len(expected)]
      /\ Len(expected) = Len(actual) => g[Len(expected)] = DOMAIN actual
  BY <1>1, AllAreTaken
<1>3. Accepted(g[Len(expected)], expected, actual, extra)
  <2> DEFINE used == g[Len(expected)]
  <2>1. Len(expected) = Len(actual) => used = DOMAIN actual BY <1>2
  <2>2. 0 \notin used BY <1>2
  <2> HIDE DEF used
  <2>3. extra \/ used = DOMAIN actual BY <2>1, Zenon DEF Fits
  <2>4. Accepted(used, expected, actual, extra) BY <2>2, <2>3 DEF Accepted
  <2>5. QED BY <2>4 DEF used
<1>4. QED BY <1>1, <1>3

(***************************************************************************)
(* The criteria                                                            *)
(***************************************************************************)
(* What is compared is what was expected, but for misordered expectations. *)
LEMMA SequenceIsExpected ==
    ASSUME NEW A, NEW B, NEW c, NEW actual \in Seq(A), c.actions \in Seq(B),
           c.ordered \in BOOLEAN, c.extra \in BOOLEAN
    PROVE  /\ MatchesActionSequence(c, actual) => Expected(c, actual)
           /\ Expected(c, actual) => MatchesActionSequence(c, actual) \/ Misordered(c, actual)
<1>1. CASE ~ c.ordered
  <2>1. MatchesActionSequence(c, actual) <=> MatchesActionSet(c.actions, actual, c.extra)
    BY <1>1 DEF MatchesActionSequence
  <2>2. Expected(c, actual) <=>
          /\ Fits(c.actions, actual, c.extra)
          /\ \E f : f \in Assignments(c.actions, actual)
    BY <1>1 DEF Expected, Fits
  <2>3. MatchesActionSet(c.actions, actual, c.extra) => Expected(c, actual)
    BY <2>2, SetIsExpected
  <2>4. ASSUME Expected(c, actual), ~ Misordered(c, actual)
        PROVE  MatchesActionSet(c.actions, actual, c.extra)
    <3>1. PICK f : f \in Assignments(c.actions, actual) BY <2>2, <2>4
    <3>2. ASSUME NEW i \in DOMAIN c.actions, NEW j \in DOMAIN c.actions, i < j,
                 Taking(c.actions[i], actual) \cap Taking(c.actions[j], actual) # {}
          PROVE  Taking(c.actions[i], actual) \subseteq Taking(c.actions[j], actual)
      BY <1>1, <2>4, <3>2 DEF Misordered
    <3>3. QED BY <2>2, <2>4, <3>1, <3>2, SetFindsExpected
  <2>5. QED BY <2>1, <2>3, <2>4
<1>2. CASE c.ordered /\ c.extra
  <2>1. MatchesActionSequence(c, actual) <=> MatchesInOrder(c.actions, actual)
    BY <1>2 DEF MatchesActionSequence
  <2>2. Expected(c, actual) <=> \E f \in Assignments(c.actions, actual) : Increasing(f)
    BY <1>2 DEF Expected
  <2>3. QED BY <2>1, <2>2, InOrderIsExpected
<1>3. CASE c.ordered /\ ~ c.extra
  <2>1. MatchesActionSequence(c, actual) <=> MatchesPairwise(c.actions, actual)
    BY <1>3 DEF MatchesActionSequence
  <2>2. Expected(c, actual) <=>
          /\ Len(c.actions) = Len(actual)
          /\ \E f \in Assignments(c.actions, actual) : Increasing(f)
    BY <1>3 DEF Expected
  <2>3. QED BY <2>1, <2>2, PairwiseIsExpected
<1>4. QED BY <1>1, <1>2, <1>3

(* A set has a subset of each size up to its own.                          *)
LEMMA SubsetOfSize ==
    ASSUME NEW S, IsFiniteSet(S), NEW n \in Nat, n <= Cardinality(S)
    PROVE  \E T \in SUBSET S : Cardinality(T) = n
<1>1. Cardinality(S) \in Nat /\ ExistsBijection(1 .. Cardinality(S), S) BY FS_CardinalityType
<1>2. PICK b : b \in Bijection(1 .. Cardinality(S), S) BY <1>1 DEF ExistsBijection
<1>3. /\ b \in [1 .. Cardinality(S) -> S]
      /\ \A i, j \in 1 .. Cardinality(S) : b[i] = b[j] => i = j
  BY <1>2 DEF Bijection, Injection, IsInjective
<1> DEFINE T == {b[i] : i \in 1 .. n}
           d == [i \in 1 .. n |-> b[i]]
<1>4. \A i \in 1 .. n : i \in 1 .. Cardinality(S) BY <1>1
<1>5. T \in SUBSET S BY <1>3, <1>4
<1>6. d \in [1 .. n -> T] OBVIOUS
<1>7. \A i, j \in 1 .. n : d[i] = d[j] => i = j BY <1>3, <1>4
<1>8. \A x \in T : \E i \in 1 .. n : d[i] = x OBVIOUS
<1>9. IsFiniteSet(1 .. n) /\ Cardinality(1 .. n) = n BY FS_Interval
<1> HIDE DEF d, T
<1>10. d \in Bijection(1 .. n, T)
  BY <1>6, <1>7, <1>8 DEF Bijection, Injection, Surjection, IsInjective
<1>11. ExistsBijection(1 .. n, T) BY <1>10 DEF ExistsBijection
<1>12. Cardinality(T) = n BY <1>9, <1>11, FS_Bijection
<1>13. QED BY <1>5, <1>12

(* An action was counted often enough exactly if that many were requested. *)
LEMMA CountIsEnough ==
    ASSUME NEW A, NEW actual \in Seq(A), NEW action, NEW n \in Nat
    PROVE  CountOf(action, actual) >= n <=>
             \E js \in SUBSET DOMAIN actual :
                Cardinality(js) = n /\ \A j \in js : actual[j].action = action
<1> DEFINE all == {j \in DOMAIN actual : actual[j].action = action}
<1>1. DOMAIN actual = 1 .. Len(actual) /\ Len(actual) \in Nat BY LenProperties
<1>2. IsFiniteSet(all)
  <2>1. IsFiniteSet(1 .. Len(actual)) BY <1>1, FS_Interval
  <2>2. all \in SUBSET (1 .. Len(actual)) BY <1>1
  <2> HIDE DEF all
  <2>3. QED BY <2>1, <2>2, FS_Subset
<1>3. CountOf(action, actual) = Cardinality(all) BY DEF CountOf
<1>4. \A js : js \in SUBSET all <=>
        js \in SUBSET DOMAIN actual /\ \A j \in js : actual[j].action = action
  OBVIOUS
<1> HIDE DEF all
<1>5. Cardinality(all) \in Nat BY <1>2, FS_CardinalityType
<1>6. ASSUME n <= Cardinality(all) PROVE \E js \in SUBSET all : Cardinality(js) = n
  BY <1>2, <1>6, SubsetOfSize
<1>7. ASSUME NEW js \in SUBSET all, Cardinality(js) = n PROVE n <= Cardinality(all)
  BY <1>2, <1>7, FS_Subset
<1>8. CountOf(action, actual) >= n <=> n <= Cardinality(all) BY <1>3, <1>5
<1>9. QED BY <1>4, <1>6, <1>7, <1>8

(***************************************************************************)
(* The judge                                                               *)
(***************************************************************************)
(* The criteria listed for the judge after each turn of the loop.          *)
Listing(g) ==
    /\ g[0] = <<>>
    /\ \A n \in 1 .. Len(criteria) :
          g[n] = IF criteria[n].kind = "LlmJudge" THEN Append(g[n - 1], n) ELSE g[n - 1]

LEMMA JudgedTurns ==
    ASSUME NEW C, criteria \in Seq(C)
    PROVE  \E g \in [0 .. Len(criteria) -> Seq(Nat)] :
              Listing(g) /\ Judged = g[Len(criteria)]
<1> DEFINE N == Len(criteria)
           F == [n \in 1 .. N |->
                   [s \in Seq(Nat) |-> IF criteria[n].kind = "LlmJudge" THEN Append(s, n) ELSE s]]
           Turn(k, n) == IF n = 0 THEN <<>>
                         ELSE IF criteria[n].kind = "LlmJudge" THEN Append(k[n - 1], n)
                              ELSE k[n - 1]
           Made(k) == k = [n \in 0 .. N |-> Turn(k, n)]
           listed == CHOOSE k : Made(k)
<1>1. N \in Nat BY LenProperties
<1>2. F \in [1 .. N -> [Seq(Nat) -> Seq(Nat)]]
  <2>1. \A n \in 1 .. N : n \in Nat BY <1>1
  <2>2. \A n \in 1 .. N, s \in Seq(Nat) : Append(s, n) \in Seq(Nat) BY <2>1, AppendProperties
  <2> HIDE DEF N
  <2>3. QED BY <2>2
<1>3. \A n \in 1 .. N, s \in Seq(Nat) :
        F[n][s] = IF criteria[n].kind = "LlmJudge" THEN Append(s, n) ELSE s OBVIOUS
<1>4. Judged = listed[N] BY DEF Judged
<1> HIDE DEF F, N, listed
<1>5. <<>> \in Seq(Nat) OBVIOUS
<1>6. PICK g : IsLoop(g, N, Seq(Nat), <<>>, F) BY <1>1, <1>2, <1>5, LoopExists
<1>7. g \in [0 .. N -> Seq(Nat)] /\ g[0] = <<>> BY <1>6 DEF IsLoop
<1>8. ASSUME NEW n \in 1 .. N
      PROVE  g[n] = IF criteria[n].kind = "LlmJudge" THEN Append(g[n - 1], n) ELSE g[n - 1]
  <2>1. n - 1 \in 0 .. N BY <1>1
  <2>2. g[n - 1] \in Seq(Nat) BY <1>7, <2>1
  <2>3. QED BY <1>3, <1>6, <2>2 DEF IsLoop
<1>9. ASSUME NEW n \in 0 .. N PROVE g[n] = Turn(g, n)
  <2>1. CASE n = 0 BY <1>7, <2>1
  <2>2. CASE n # 0
    <3>1. n \in 1 .. N BY <1>1, <2>2
    <3>2. QED BY <1>8, <2>2, <3>1
  <2>3. QED BY <2>1, <2>2
<1>10. Made(g)
  <2> HIDE DEF Turn
  <2>1. QED BY <1>7, <1>9
<1>11. Made(listed)
  <2> HIDE DEF Made
  <2>1. QED BY <1>10 DEF listed
<1> DEFINE S == {n \in 0 .. N : listed[n] = g[n]}
<1>12. 0 \in S BY <1>1, <1>7, <1>11
<1>13. ASSUME NEW n \in 1 .. N, n - 1 \in S PROVE n \in S
  <2>1. n \in 0 .. N BY <1>1
  <2>2. listed[n] = Turn(listed, n) BY <1>11, <2>1
  <2>3. Turn(listed, n) = Turn(g, n) BY <1>13
  <2> HIDE DEF Turn
  <2>4. QED BY <1>9, <2>1, <2>2, <2>3
<1> HIDE DEF S
<1>14. \A n \in 0 .. N : n \in S BY <1>1, <1>12, <1>13, BoundedInduction
<1>15. listed[N] = g[N] BY <1>1, <1>14 DEF S
<1>16. Listing(g) BY <1>7, <1>8 DEF Listing, N
<1>17. QED BY <1>4, <1>7, <1>15, <1>16 DEF N

(* Every criterion a judge decides is put to it, and none is put twice.    *)
LEMMA JudgedIs ==
    ASSUME NEW C, criteria \in Seq(C)
    PROVE  /\ \A n, m \in DOMAIN Judged : Judged[n] = Judged[m] => n = m
           /\ \A n \in DOMAIN Judged :
                Judged[n] \in DOMAIN criteria /\ criteria[Judged[n]].kind = "LlmJudge"
           /\ \A i \in DOMAIN criteria :
                criteria[i].kind = "LlmJudge" => \E n \in DOMAIN Judged : Judged[n] = i
<1>1. Len(criteria) \in Nat /\ DOMAIN criteria = 1 .. Len(criteria) BY LenProperties
<1>2. PICK g \in [0 .. Len(criteria) -> Seq(Nat)] :
        Listing(g) /\ Judged = g[Len(criteria)]
  BY JudgedTurns
<1> DEFINE Lists(s, k) ==
             /\ \A n, m \in DOMAIN s : s[n] = s[m] => n = m
             /\ \A n \in DOMAIN s : s[n] \in 1 .. k /\ criteria[s[n]].kind = "LlmJudge"
             /\ \A i \in 1 .. k : criteria[i].kind = "LlmJudge" => \E n \in DOMAIN s : s[n] = i
           S == {k \in 0 .. Len(criteria) : Lists(g[k], k)}
<1>3. 0 \in S
  <2>1. g[0] = <<>> BY <1>2 DEF Listing
  <2>2. \A n \in DOMAIN g[0] : FALSE BY <2>1
  <2>3. \A i \in 1 .. 0 : FALSE OBVIOUS
  <2>4. Lists(g[0], 0) BY <2>2, <2>3
  <2> HIDE DEF Lists
  <2>5. QED BY <1>1, <2>4
<1>4. ASSUME NEW k \in 1 .. Len(criteria), k - 1 \in S PROVE k \in S
  <2> DEFINE s == g[k - 1] t == Append(s, k)
  <2>1. k - 1 \in 0 .. Len(criteria) /\ k \in 0 .. Len(criteria) /\ k \in Nat BY <1>1
  <2>2. s \in Seq(Nat) BY <2>1
  <2>3. Lists(s, k - 1) BY <1>4
  <2>4. g[k] = IF criteria[k].kind = "LlmJudge" THEN t ELSE s BY <1>2 DEF Listing
  <2>5. \A i \in 1 .. k : i = k \/ (i \in 1 .. k - 1 /\ i # k) BY <2>1
  <2>6. \A i \in 1 .. k - 1 : i \in 1 .. k /\ i # k BY <2>1
  <2>7. DOMAIN s = 1 .. Len(s) /\ Len(s) \in Nat BY <2>2, LenProperties
  <2>8. /\ DOMAIN t = 1 .. Len(s) + 1 /\ t[Len(s) + 1] = k
        /\ \A n \in 1 .. Len(s) : t[n] = s[n]
    BY <2>1, <2>2, AppendProperties, LenProperties
  <2> HIDE DEF t, s
  <2>9. CASE criteria[k].kind # "LlmJudge"
    <3>1. Lists(s, k) BY <2>3, <2>5, <2>6, <2>9
    <3> HIDE DEF Lists
    <3>2. QED BY <2>1, <2>4, <2>9, <3>1
  <2>10. CASE criteria[k].kind = "LlmJudge"
    <3>1. \A n \in DOMAIN t : \/ n = Len(s) + 1 /\ t[n] = k
                              \/ n \in DOMAIN s /\ t[n] = s[n] /\ s[n] \in 1 .. k - 1
      BY <2>3, <2>7, <2>8
    <3>2. \A n \in DOMAIN s : n \in DOMAIN t /\ t[n] = s[n] BY <2>7, <2>8
    <3>3. Len(s) + 1 \in DOMAIN t BY <2>7, <2>8
    <3>4. \A n, m \in DOMAIN t : t[n] = t[m] => n = m BY <2>3, <2>6, <3>1
    <3>5. \A n \in DOMAIN t : t[n] \in 1 .. k /\ criteria[t[n]].kind = "LlmJudge"
      BY <2>1, <2>3, <2>6, <2>10, <3>1
    <3>6. \A i \in 1 .. k : criteria[i].kind = "LlmJudge" => \E n \in DOMAIN t : t[n] = i
      BY <2>3, <2>5, <2>8, <3>2, <3>3
    <3>7. Lists(t, k) BY <3>4, <3>5, <3>6
    <3> HIDE DEF Lists
    <3>8. QED BY <2>1, <2>4, <2>10, <3>7
  <2>11. QED BY <2>9, <2>10
<1> HIDE DEF S
<1>5. \A k \in 0 .. Len(criteria) : k \in S BY <1>1, <1>3, <1>4, BoundedInduction
<1>6. Lists(Judged, Len(criteria)) BY <1>1, <1>2, <1>5 DEF S
<1>7. QED BY <1>1, <1>6

(***************************************************************************)
(* The run                                                                 *)
(***************************************************************************)
Plain(kind, participant) == [kind |-> kind, participant |-> participant]
Logged ==
    {Said(who, "text") : who \in {"user", "agent"}}
    \union {Requested(a) : a \in AgentActions}
    \union {Plain(k, p) :
              k \in {"ActionCompleted", "ActionFailed", "ParticipantFinished",
                     "ParticipantLoopCompleted", "SessionFinished", "EvaluationCompleted"},
              p \in {"user", "agent", "none"}}

(* When a run is over the evaluator has compared the actions of the whole  *)
(* of it; when the evaluation is done the judge was asked about this run.  *)
AllYes == \A n \in DOMAIN replies : JudgeResult(replies[n]) = "yes"
EvaluationInv ==
    /\ events \in Seq(Logged) /\ passed \in BOOLEAN
    /\ turn \in {"over", "done"} =>
         /\ criteria \in CriteriaLists
         /\ Len(events) >= 2 /\ events[Len(events) - 1] = Plain("SessionFinished", "none")
    /\ turn = "over" => (passed <=> EvaluatePasses(criteria, RequestedActions))
    /\ turn = "done" =>
         /\ requests = JudgeRequests /\ DOMAIN replies = DOMAIN requests
         /\ passed <=> (/\ EvaluatePasses(criteria, RequestedActions)
                        /\ RunCriteriaPass /\ AllYes)

LEMMA LogGrows ==
    ASSUME NEW log \in Seq(Logged), NEW a \in Logged, NEW b \in Logged
    PROVE  /\ log \o <<a, b>> \in Seq(Logged)
           /\ Len(log \o <<a, b>>) = Len(log) + 2 /\ Len(log) \in Nat
           /\ (log \o <<a, b>>)[Len(log) + 1] = a
           /\ {a.kind, b.kind} \cap {"ActionRequested"} = {} =>
                RequestsIn(log \o <<a, b>>) = RequestsIn(log)
<1> DEFINE two == <<a, b>>
           one == Append(log, a)
           more == Append(one, b)
<1>1. two \in Seq(Logged) /\ Len(two) = 2 /\ two[1] = a /\ two[2] = b OBVIOUS
<1>2. Len(log) \in Nat BY LenProperties
<1>3. one \in Seq(Logged) /\ Len(one) = Len(log) + 1 /\ one[Len(log) + 1] = a
      /\ \A i \in 1 .. Len(log) : one[i] = log[i]
  BY AppendProperties
<1> HIDE DEF two, one
<1>4. more \in Seq(Logged) /\ Len(more) = Len(one) + 1 /\ more[Len(one) + 1] = b
      /\ \A i \in 1 .. Len(one) : more[i] = one[i]
  BY <1>3, AppendProperties
<1>5. /\ log \o two \in Seq(Logged) /\ Len(log \o two) = Len(log) + 2
      /\ \A i \in 1 .. Len(log) + 2 :
           (log \o two)[i] = IF i <= Len(log) THEN log[i] ELSE two[i - Len(log)]
  <2>1. /\ log \o two \in Seq(Logged) /\ Len(log \o two) = Len(log) + Len(two)
        /\ \A i \in 1 .. Len(log) + Len(two) :
             (log \o two)[i] = IF i <= Len(log) THEN log[i] ELSE two[i - Len(log)]
    BY <1>1, ConcatProperties
  <2>2. QED BY <1>1, <2>1
<1> HIDE DEF more
<1>6. \A i \in 1 .. Len(log) + 2 : (log \o two)[i] = more[i]
  <2>1. ASSUME NEW i \in 1 .. Len(log) + 2 PROVE (log \o two)[i] = more[i]
    <3>1. CASE i <= Len(log)
      <4>1. i \in 1 .. Len(log) /\ i \in 1 .. Len(one) BY <1>2, <1>3, <3>1
      <4>2. more[i] = log[i] BY <1>3, <1>4, <4>1
      <4>3. QED BY <1>5, <3>1, <4>2
    <3>2. CASE i = Len(log) + 1
      <4>1. i \in 1 .. Len(one) /\ ~ (i <= Len(log)) /\ i - Len(log) = 1 BY <1>2, <1>3, <3>2
      <4>2. more[i] = a BY <1>3, <1>4, <3>2, <4>1
      <4>3. (log \o two)[i] = two[1] BY <1>5, <4>1
      <4>4. QED BY <1>1, <4>2, <4>3
    <3>3. CASE i = Len(log) + 2
      <4>1. i = Len(one) + 1 /\ ~ (i <= Len(log)) /\ i - Len(log) = 2 BY <1>2, <1>3, <3>3
      <4>2. more[i] = b BY <1>4, <4>1
      <4>3. (log \o two)[i] = two[2] BY <1>5, <4>1
      <4>4. QED BY <1>1, <4>2, <4>3
    <3>4. i <= Len(log) \/ i = Len(log) + 1 \/ i = Len(log) + 2
      <4> HIDE DEF more
      <4>1. i \in Nat /\ i <= Len(log) + 2 BY <1>2
      <4>2. QED BY <1>2, <4>1
    <3>5. QED BY <3>1, <3>2, <3>3, <3>4
  <2>2. QED BY <2>1
<1>7. Len(more) = Len(log) + 2 BY <1>2, <1>3, <1>4
<1>8. log \o two = more BY <1>4, <1>5, <1>6, <1>7, SeqEqual
<1>9. (log \o two)[Len(log) + 1] = a
  <2>1. Len(log) + 1 \in 1 .. Len(log) + 2 /\ Len(log) + 1 \in 1 .. Len(one) BY <1>2, <1>3
  <2>2. QED BY <1>3, <1>4, <1>6, <2>1
<1>10. ASSUME {a.kind, b.kind} \cap {"ActionRequested"} = {}
       PROVE  RequestsIn(log \o two) = RequestsIn(log)
  <2>1. a.kind \notin {"ActionRequested"} /\ b.kind \notin {"ActionRequested"} BY <1>10
  <2>2. ASSUME NEW l \in Seq(Logged), NEW e \in Logged, e.kind \notin {"ActionRequested"}
        PROVE  RequestsIn(Append(l, e)) = RequestsIn(l)
    BY <2>2, EventsOfAppend DEF RequestsIn
  <2>3. RequestsIn(one) = RequestsIn(log) BY <2>1, <2>2 DEF one
  <2>4. RequestsIn(more) = RequestsIn(one) BY <1>3, <2>1, <2>2 DEF more
  <2>5. QED BY <1>8, <2>3, <2>4
<1>11. QED BY <1>2, <1>5, <1>9, <1>10 DEF two

LEMMA PlainLogged ==
    ASSUME NEW k \in {"ActionCompleted", "ActionFailed", "ParticipantFinished",
                      "ParticipantLoopCompleted", "SessionFinished", "EvaluationCompleted"},
           NEW p \in {"user", "agent", "none"}
    PROVE  Plain(k, p) \in Logged /\ Plain(k, p).kind = k
BY DEF Logged, Plain

(* A run that ends: what it has logged is a log, with the same actions.    *)
LEMMA EndRunKeeps ==
    ASSUME EvaluationInv, NEW log \in Seq(Logged), RequestsIn(log) = RequestsIn(events),
           NEW why, EndRun(log, why)
    PROVE  EvaluationInv'
<1> DEFINE a == Plain("SessionFinished", "none")
           b == Plain("EvaluationCompleted", "none")
<1>1. a \in Logged /\ b \in Logged /\ a.kind = "SessionFinished" /\ b.kind = "EvaluationCompleted"
  BY PlainLogged
<1>2. events' = log \o <<a, b>> BY DEF EndRun, Plain
<1>3. {a.kind, b.kind} \cap {"ActionRequested"} = {} BY <1>1
<1> HIDE DEF a, b
<1>4. /\ events' \in Seq(Logged) /\ Len(events') = Len(log) + 2 /\ Len(log) \in Nat
      /\ events'[Len(log) + 1] = a /\ RequestsIn(events') = RequestsIn(log)
  BY <1>1, <1>2, <1>3, LogGrows
<1>5. Len(events') >= 2 /\ events'[Len(events') - 1] = a
  <2>1. Len(events') - 1 = Len(log) + 1 BY <1>4
  <2>2. QED BY <1>4, <2>1
<1>6. RequestedActions' = RequestedActions BY <1>4 DEF RequestedActions
<1>7. turn' = "over" /\ criteria' \in CriteriaLists BY DEF EndRun
<1>8. passed' = EvaluatePasses(criteria', RequestedActions) BY DEF EndRun
<1>9. EvaluatePasses(criteria', RequestedActions) \in BOOLEAN BY DEF EvaluatePasses
<1>10. passed' \in BOOLEAN /\ (passed' <=> EvaluatePasses(criteria', RequestedActions'))
  BY <1>6, <1>8, <1>9
<1>11. QED BY <1>4, <1>5, <1>7, <1>10 DEF EvaluationInv, a

(* A run that goes on.                                                     *)
LEMMA GoOnKeeps ==
    ASSUME EvaluationInv, NEW log \in Seq(Logged), NEW next \in {"user", "agent"},
           GoOn(log, next)
    PROVE  EvaluationInv'
BY DEF EvaluationInv, GoOn

LEMMA ConcludeKeeps ==
    ASSUME EvaluationInv, Conclude
    PROVE  EvaluationInv'
<1>1. /\ turn = "over" /\ UNCHANGED <<events, reason, criteria>>
      /\ requests' = JudgeRequests /\ replies' \in [DOMAIN JudgeRequests -> JudgeReplies]
  BY DEF Conclude
<1>2. /\ events \in Seq(Logged) /\ criteria \in CriteriaLists /\ Len(events) >= 2
      /\ events[Len(events) - 1] = Plain("SessionFinished", "none") /\ passed \in BOOLEAN
      /\ passed <=> EvaluatePasses(criteria, RequestedActions)
  BY <1>1 DEF EvaluationInv
<1>3. /\ RequestedActions' = RequestedActions /\ JudgeRequests' = JudgeRequests
      /\ RunCriteriaPass' = RunCriteriaPass
  BY <1>1 DEF RequestedActions, JudgeRequests, Judged, TraceEvents, SerializedEvents,
              RunCriteriaPass, FinalAgentMessages
<1>4. DOMAIN replies' = DOMAIN requests' BY <1>1
<1>5. \/ turn' = "panicked" /\ passed' = passed
      \/ turn' = "done" /\ passed' = (passed /\ RunCriteriaPass /\ AllYes')
  BY DEF Conclude, AllYes
<1>6. CASE turn' = "panicked" /\ passed' = passed
  BY <1>1, <1>2, <1>6 DEF EvaluationInv
<1>7. CASE turn' = "done" /\ passed' = (passed /\ RunCriteriaPass /\ AllYes')
  <2>1. passed' \in BOOLEAN BY <1>7
  <2>2. passed' <=> (passed /\ RunCriteriaPass /\ AllYes') BY <1>7
  <2>3. passed' <=> (/\ EvaluatePasses(criteria', RequestedActions')
                     /\ RunCriteriaPass' /\ AllYes')
    BY <1>1, <1>2, <1>3, <2>2
  <2>4. QED BY <1>1, <1>2, <1>3, <1>4, <1>7, <2>1, <2>3 DEF EvaluationInv
<1>8. QED BY <1>5, <1>6, <1>7

LEMMA StepKeepsEvaluation ==
    ASSUME EvaluationInv, [EvaluationNext]_evaluationVars
    PROVE  EvaluationInv'
<1>1. events \in Seq(Logged) BY DEF EvaluationInv
<1>2. ASSUME UserTurn PROVE EvaluationInv'
  <2> DEFINE finished == Plain("ParticipantFinished", "user")
             completed == Plain("ParticipantLoopCompleted", "user")
  <2>1. \/ EndRun(Append(events, finished), "ParticipantFinished")
        \/ GoOn(events \o <<Said("user", "text"), completed>>, "agent")
    BY <1>2 DEF UserTurn, Plain
  <2>2. /\ finished \in Logged /\ finished.kind = "ParticipantFinished" /\ completed \in Logged
    BY PlainLogged
  <2>3. Said("user", "text") \in Logged BY DEF Logged
  <2> HIDE DEF finished, completed
  <2>4. Append(events, finished) \in Seq(Logged) BY <1>1, <2>2, AppendProperties
  <2>5. RequestsIn(Append(events, finished)) = RequestsIn(events)
    BY <1>1, <2>2, EventsOfAppend DEF RequestsIn
  <2>6. events \o <<Said("user", "text"), completed>> \in Seq(Logged)
    BY <1>1, <2>2, <2>3, LogGrows
  <2>7. QED BY <2>1, <2>4, <2>5, <2>6, EndRunKeeps, GoOnKeeps
<1>3. ASSUME AgentActs PROVE EvaluationInv'
  <2>1. PICK action \in AgentActions, answer \in {"ActionCompleted", "ActionFailed"} :
          GoOn(events \o <<Requested(action), Answered(answer)>>, "agent")
    BY <1>3 DEF AgentActs
  <2>2. Requested(action) \in Logged BY DEF Logged
  <2>3. Answered(answer) \in Logged
    <3>1. Answered(answer) = Plain(answer, "agent") BY DEF Answered, Plain
    <3>2. QED BY <3>1, PlainLogged
  <2>4. events \o <<Requested(action), Answered(answer)>> \in Seq(Logged)
    BY <1>1, <2>2, <2>3, LogGrows
  <2>5. QED BY <2>1, <2>4, GoOnKeeps
<1>4. ASSUME AgentSpeaks PROVE EvaluationInv'
  <2> DEFINE said == Said("agent", "text")
             completed == Plain("ParticipantLoopCompleted", "agent")
             log == events \o <<said, completed>>
  <2>1. EndRun(log, "ParticipantCompletedLoop") \/ GoOn(log, "user")
    BY <1>4 DEF AgentSpeaks, Plain
  <2>2. completed \in Logged /\ completed.kind = "ParticipantLoopCompleted" BY PlainLogged
  <2>3. said \in Logged /\ said.kind = "ParticipantMessage" BY DEF Logged, Said
  <2> HIDE DEF said, completed
  <2>4. log \in Seq(Logged) /\ RequestsIn(log) = RequestsIn(events)
    BY <1>1, <2>2, <2>3, LogGrows
  <2> HIDE DEF log
  <2>5. QED BY <2>1, <2>4, EndRunKeeps, GoOnKeeps
<1>5. ASSUME Stops PROVE EvaluationInv'
  BY <1>1, <1>5, EndRunKeeps DEF Stops
<1>6. ASSUME UNCHANGED evaluationVars PROVE EvaluationInv'
  <2>1. /\ events' = events /\ passed' = passed /\ turn' = turn /\ criteria' = criteria
        /\ requests' = requests /\ replies' = replies /\ reason' = reason
    BY <1>6 DEF evaluationVars
  <2>2. /\ RequestedActions' = RequestedActions /\ JudgeRequests' = JudgeRequests
        /\ RunCriteriaPass' = RunCriteriaPass /\ AllYes' = AllYes
    BY <2>1 DEF RequestedActions, JudgeRequests, Judged, TraceEvents, SerializedEvents,
                RunCriteriaPass, FinalAgentMessages, AllYes
  <2>3. QED BY <2>1, <2>2 DEF EvaluationInv
<1>7. QED BY <1>2, <1>3, <1>4, <1>5, <1>6, ConcludeKeeps DEF EvaluationNext

(* A criterion of the run, and whether it is satisfied.                    *)
LEMMA ActionsCompared ==
    ASSUME events \in Seq(Logged)
    PROVE  \E A : RequestedActions \in Seq(A)
<1> DEFINE rs == RequestsIn(events) A == {rs[i].action : i \in DOMAIN rs}
<1>1. rs \in Seq(Logged) BY EventsOfType DEF RequestsIn
<1> HIDE DEF rs
<1>2. Len(rs) \in Nat /\ DOMAIN rs = 1 .. Len(rs) BY <1>1, LenProperties
<1>3. RequestedActions = [i \in 1 .. Len(rs) |-> rs[i].action] BY <1>2 DEF RequestedActions, rs
<1>4. [i \in 1 .. Len(rs) |-> rs[i].action] \in Seq(A) BY <1>2
<1>5. QED BY <1>3, <1>4

LEMMA CriterionIs ==
    ASSUME EvaluationInv, turn = "done", NEW i \in DOMAIN criteria
    PROVE  /\ criteria[i].kind \in CriterionKinds
           /\ criteria[i].kind = "ActionSequence" =>
                /\ MatchesActionSequence(criteria[i], RequestedActions) => Satisfied(i)
                /\ Satisfied(i) => \/ MatchesActionSequence(criteria[i], RequestedActions)
                                   \/ Misordered(criteria[i], RequestedActions)
           /\ criteria[i].kind = "ActionCount" =>
                (Satisfied(i) <=>
                   CountOf(criteria[i].action, RequestedActions) >= criteria[i].min)
           /\ criteria[i].kind = "FinalMessageRequired" => (Satisfied(i) <=> FinalAgentMessages # {})
           /\ criteria[i].kind = "ForbidFinishReason" =>
                (Satisfied(i) <=> FinishReasonName[reason] # criteria[i].reason)
           /\ criteria[i].kind = "LlmJudge" =>
                (Satisfied(i) <=> \E n \in DOMAIN requests :
                    requests[n].criterion = i /\ JudgeResult(replies[n]) = "yes")
<1> DEFINE c == criteria[i]
<1>1. events \in Seq(Logged) /\ criteria \in CriteriaLists BY DEF EvaluationInv
<1>2. /\ c.kind \in CriterionKinds
      /\ c.kind = "ActionSequence" =>
           /\ c.actions \in Seq(ToSet(c.actions))
           /\ c.ordered \in BOOLEAN /\ c.extra \in BOOLEAN
      /\ c.kind = "ActionCount" => c.min \in Nat
  BY <1>1, EvaluationAssumption
<1>3. PICK A : RequestedActions \in Seq(A) BY <1>1, ActionsCompared
<1>4. CASE c.kind = "ActionSequence"
  <2>1. Satisfied(i) <=> Expected(criteria[i], RequestedActions) BY <1>4 DEF Satisfied
  <2>2. QED BY <1>2, <1>3, <1>4, <2>1, SequenceIsExpected
<1>5. CASE c.kind = "ActionCount"
  <2>1. Satisfied(i) <=>
          \E js \in SUBSET DOMAIN RequestedActions :
             Cardinality(js) = c.min /\ \A j \in js : RequestedActions[j].action = c.action
    BY <1>5 DEF Satisfied
  <2>2. Satisfied(i) <=> CountOf(c.action, RequestedActions) >= c.min
    BY <1>2, <1>3, <1>5, <2>1, CountIsEnough
  <2>3. QED BY <1>2, <1>5, <2>2
<1>6. CASE c.kind = "FinalMessageRequired"
  <2>1. Satisfied(i) <=> FinalAgentMessages # {} BY <1>6 DEF Satisfied, FinalAgentMessages
  <2>2. QED BY <1>2, <1>6, <2>1
<1>7. CASE c.kind = "ForbidFinishReason"
  <2>1. Satisfied(i) <=> FinishReasonName[reason] # c.reason BY <1>7 DEF Satisfied
  <2>2. QED BY <1>2, <1>7, <2>1
<1>8. CASE c.kind = "LlmJudge"
  <2>1. Satisfied(i) <=> \E n \in DOMAIN requests :
          requests[n].criterion = i /\ JudgeResult(replies[n]) = "yes"
    BY <1>8 DEF Satisfied
  <2>2. QED BY <1>2, <1>8, <2>1
<1>9. QED BY <1>2, <1>4, <1>5, <1>6, <1>7, <1>8 DEF CriterionKinds

(* Every criterion for a judge is satisfied exactly if the judge said yes  *)
(* to every request.                                                       *)
LEMMA JudgeDecides ==
    ASSUME EvaluationInv, turn = "done"
    PROVE  AllYes <=> \A i \in DOMAIN criteria : criteria[i].kind = "LlmJudge" =>
                        \E n \in DOMAIN requests :
                           requests[n].criterion = i /\ JudgeResult(replies[n]) = "yes"
<1>1. /\ criteria \in CriteriaLists /\ requests = JudgeRequests
      /\ DOMAIN replies = DOMAIN requests
  BY DEF EvaluationInv
<1>2. criteria \in Seq(ToSet(criteria)) BY <1>1, EvaluationAssumption
<1>3. /\ \A n, m \in DOMAIN Judged : Judged[n] = Judged[m] => n = m
      /\ \A n \in DOMAIN Judged :
           Judged[n] \in DOMAIN criteria /\ criteria[Judged[n]].kind = "LlmJudge"
      /\ \A i \in DOMAIN criteria :
           criteria[i].kind = "LlmJudge" => \E n \in DOMAIN Judged : Judged[n] = i
  BY <1>2, JudgedIs
<1>4. DOMAIN requests = DOMAIN Judged /\ \A n \in DOMAIN requests : requests[n].criterion = Judged[n]
  BY <1>1 DEF JudgeRequests
<1>5. QED BY <1>1, <1>3, <1>4 DEF AllYes

(* What the judge is shown.                                                *)
LEMMA JudgeIsShown ==
    ASSUME EvaluationInv, turn = "done", NEW n \in DOMAIN requests
    PROVE  /\ RequestsIn(requests[n].trace) = RequestsIn(events)
           /\ requests[n].trajectory[Len(events) - 1] =
                <<Len(events) - 2, "SessionFinished", "none">>
<1>1. /\ events \in Seq(Logged) /\ requests = JudgeRequests /\ Len(events) >= 2
      /\ events[Len(events) - 1] = Plain("SessionFinished", "none")
  BY DEF EvaluationInv
<1>2. requests[n].trace = TraceEvents /\ requests[n].trajectory = SerializedEvents
  BY <1>1 DEF JudgeRequests
<1>3. RequestsIn(TraceEvents) = RequestsIn(events)
  <2>1. {"ActionRequested"} \in SUBSET TraceKinds BY DEF TraceKinds
  <2>2. QED BY <1>1, <2>1, EventsOfEventsOf DEF RequestsIn, TraceEvents
<1>4. DOMAIN events = 1 .. Len(events) /\ Len(events) \in Nat BY <1>1, LenProperties
<1>5. Len(events) - 1 \in DOMAIN events /\ (Len(events) - 1) - 1 = Len(events) - 2 BY <1>1, <1>4
<1>6. SerializedEvents[Len(events) - 1] = <<Len(events) - 2, "SessionFinished", "none">>
  BY <1>1, <1>5 DEF SerializedEvents, Plain
<1>7. QED BY <1>2, <1>3, <1>6

LEMMA VerdictFromInv ==
    ASSUME EvaluationInv
    PROVE  VerdictIsSound
<1> SUFFICES ASSUME turn = "done" PROVE VerdictIsSound BY DEF VerdictIsSound
<1> DEFINE All == \A i \in DOMAIN criteria : Satisfied(i)
           Passes == EvaluatePasses(criteria, RequestedActions)
           Wrong == \E i \in DOMAIN criteria :
                       /\ criteria[i].kind = "ActionSequence"
                       /\ Misordered(criteria[i], RequestedActions)
<1>1. passed <=> (Passes /\ RunCriteriaPass /\ AllYes) BY DEF EvaluationInv
<1>2. (Passes /\ RunCriteriaPass /\ AllYes) => All
  <2>1. SUFFICES ASSUME Passes, RunCriteriaPass, AllYes, NEW i \in DOMAIN criteria
                 PROVE  Satisfied(i)
    OBVIOUS
  <2>2. /\ criteria[i].kind = "ActionSequence" =>
             MatchesActionSequence(criteria[i], RequestedActions)
        /\ criteria[i].kind = "ActionCount" =>
             CountOf(criteria[i].action, RequestedActions) >= criteria[i].min
    BY <2>1 DEF EvaluatePasses
  <2>3. /\ criteria[i].kind = "FinalMessageRequired" => FinalAgentMessages # {}
        /\ criteria[i].kind = "ForbidFinishReason" => FinishReasonName[reason] # criteria[i].reason
    BY <2>1 DEF RunCriteriaPass
  <2>4. criteria[i].kind = "LlmJudge" =>
          \E n \in DOMAIN requests :
             requests[n].criterion = i /\ JudgeResult(replies[n]) = "yes"
    BY <2>1, JudgeDecides
  <2>5. QED BY <2>2, <2>3, <2>4, CriterionIs DEF CriterionKinds
<1>3. All => (Passes /\ RunCriteriaPass /\ AllYes) \/ Wrong
  <2>1. SUFFICES ASSUME All, ~ Wrong PROVE Passes /\ RunCriteriaPass /\ AllYes OBVIOUS
  <2>2. Passes
    <3>1. ASSUME NEW i \in DOMAIN criteria
          PROVE  /\ criteria[i].kind = "ActionSequence" =>
                      MatchesActionSequence(criteria[i], RequestedActions)
                 /\ criteria[i].kind = "ActionCount" =>
                      CountOf(criteria[i].action, RequestedActions) >= criteria[i].min
      BY <2>1, CriterionIs
    <3>2. QED BY <3>1 DEF EvaluatePasses
  <2>3. RunCriteriaPass BY <2>1, CriterionIs DEF RunCriteriaPass
  <2>4. AllYes BY <2>1, CriterionIs, JudgeDecides
  <2>5. QED BY <2>2, <2>3, <2>4
<1>4. \A n \in DOMAIN requests :
        /\ RequestsIn(requests[n].trace) = RequestsIn(events)
        /\ requests[n].trajectory[Len(events) - 1] =
             <<Len(events) - 2, "SessionFinished", "none">>
  BY JudgeIsShown
<1> HIDE DEF Passes
<1>5. (passed => All) /\ (All => passed \/ Wrong) BY <1>1, <1>2, <1>3
<1>6. QED BY <1>4, <1>5 DEF VerdictIsSound

(***************************************************************************)
(* The theorems                                                            *)
(***************************************************************************)
(* The evaluator has compared the actions of the whole run when the run is *)
(* over, and the judge was asked about that run when it is done (crates/   *)
(* evals/src/evaluator.rs, runner.rs).                                     *)
THEOREM EvaluationInvariant == EvaluationSpec => []EvaluationInv
<1>1. EvaluationInit => EvaluationInv
  <2>1. SUFFICES ASSUME EvaluationInit PROVE EvaluationInv OBVIOUS
  <2>2. <<>> \in Seq(Logged) OBVIOUS
  <2>3. QED BY <2>1, <2>2 DEF EvaluationInit, EvaluationInv
<1>2. EvaluationInv /\ [EvaluationNext]_evaluationVars => EvaluationInv' BY StepKeepsEvaluation
<1>3. QED BY <1>1, <1>2, PTL DEF EvaluationSpec

(* A finished evaluation has passed exactly if every criterion holds of    *)
(* the run, but that expectations without an order may be refused where    *)
(* they are misordered; the judge sees the actions that were compared and  *)
(* the end of the run.                                                     *)
THEOREM VerdictsAreSound == EvaluationSpec => []VerdictIsSound
<1>1. EvaluationInv => VerdictIsSound BY VerdictFromInv
<1>2. QED BY <1>1, EvaluationInvariant, PTL
=============================================================================
