------------------------- MODULE PaymentEffectsProofs -------------------------
(***************************************************************************)
(* EffectsAreCounted as a theorem: how often the gateway and the merchant  *)
(* are called for a payment.  Every message, wherever it is, entitles the  *)
(* consumer to some calls: one of payments.new to one of the gateway and   *)
(* to MaxRetries of the merchant, one of payments.webhook to the tries     *)
(* that are left.  Each such call is a ticket; what has been spent and the *)
(* tickets that are out never exceed what the payment started with and     *)
(* what returned or copied messages have added.                            *)
(***************************************************************************)
EXTENDS PaymentConsumerProofs

\* c[x] things of each kind x in S, each with h[x] tickets.
Tickets(S, c, h) == UNION {{x} \X ((1..c[x]) \X (1..h[x])) : x \in S}

Kind == {"charge", "post"}
Full(kind) == IF kind = "charge" THEN 1 ELSE MaxRetries

\* The calls for p that a message stands for.
Weight(kind, p) ==
  [m \in Message |->
     IF m.payment # p THEN 0
     ELSE IF kind = "post" THEN MaxRetries - m.tries
     ELSE IF m.type = "payments.new" THEN 1 ELSE 0]
Load(kind, p) == [d \in Delivery |-> Weight(kind, p)[d.msg]]

\* Those that a worker may still make, or cause by a message it commits.
Made(kind) == IF kind = "charge" THEN "committing" ELSE "retrying"
Less(n) == IF n = 0 THEN 0 ELSE n - 1
Left(kind, p) ==
  [w \in Worker |->
     IF pc[w] \in {"idle", "finished"} THEN 0
     ELSE IF pc[w] = Made(kind) THEN Less(Load(kind, p)[job[w]])
     ELSE Load(kind, p)[job[w]]]
One == [w \in Worker |-> 1]

InRows(kind, p) == Tickets(Message, rows, Weight(kind, p))
InQueue(kind, p) == Tickets(Delivery, queue, Load(kind, p))
InHand(kind, p) == Tickets(Worker, Left(kind, p), One)

Spent(kind, p) == IF kind = "charge" THEN charges[p] ELSE posts[p]
Unborn(kind, p) == IF status[p] = "absent" THEN Full(kind) ELSE 0

WithinBudget(kind, p) ==
  /\ IsFiniteSet(InRows(kind, p)) /\ IsFiniteSet(InQueue(kind, p)) /\ IsFiniteSet(InHand(kind, p))
  /\ Spent(kind, p) + Unborn(kind, p) + Cardinality(InRows(kind, p))
       + Cardinality(InQueue(kind, p)) + Cardinality(InHand(kind, p)) <= Full(kind) * (1 + again)

EffectInv == \A p \in Payment, kind \in Kind : WithinBudget(kind, p)

-----------------------------------------------------------------------------
(* Counting tickets.                                                       *)

\* Tickets are numbered within their thing, things within their kind.
LEMMA TicketFields ==
  ASSUME NEW S, NEW c, NEW h
  PROVE  \A x, i, k : <<x, <<i, k>>>> \in Tickets(S, c, h) <=> x \in S /\ i \in 1..c[x] /\ k \in 1..h[x]
BY DEF Tickets

\* Every ticket has such a number.
LEMMA TicketShape ==
  ASSUME NEW S, NEW c, NEW h, NEW t \in Tickets(S, c, h)
  PROVE  \E x \in S : \E i \in 1..c[x] : \E k \in 1..h[x] : t = <<x, <<i, k>>>>
BY DEF Tickets

\* n more things of one kind: as many more tickets as they have.
LEMMA TicketsAdd ==
  ASSUME NEW S, NEW c \in [S -> Nat], NEW b \in [S -> Nat], NEW h \in [S -> Nat],
         NEW x \in S, NEW n \in Nat, b[x] = c[x] + n, \A y \in S \ {x} : b[y] = c[y]
  PROVE  /\ IsFiniteSet(Tickets(S, c, h)) <=> IsFiniteSet(Tickets(S, b, h))
         /\ IsFiniteSet(Tickets(S, c, h)) =>
              Cardinality(Tickets(S, b, h)) = Cardinality(Tickets(S, c, h)) + n * h[x]
<1> DEFINE Slice == {x} \X ((c[x] + 1..b[x]) \X (1..h[x]))
<1>1. IsFiniteSet(Slice) /\ Cardinality(Slice) = n * h[x]
  <2>1. /\ IsFiniteSet(c[x] + 1..b[x]) /\ Cardinality(c[x] + 1..b[x]) = n
        /\ IsFiniteSet(1..h[x]) /\ Cardinality(1..h[x]) = h[x]
    <3>1. c[x] + 1 \in Int /\ b[x] \in Int /\ 1 \in Int /\ h[x] \in Int /\ h[x] >= 0
      OBVIOUS
    <3>2. /\ IsFiniteSet(c[x] + 1..b[x])
          /\ Cardinality(c[x] + 1..b[x]) = IF c[x] + 1 > b[x] THEN 0 ELSE b[x] - (c[x] + 1) + 1
      BY <3>1, FS_Interval
    <3>3. IsFiniteSet(1..h[x]) /\ Cardinality(1..h[x]) = IF 1 > h[x] THEN 0 ELSE h[x] - 1 + 1
      BY <3>1, FS_Interval
    <3> QED
      BY <3>1, <3>2, <3>3
  <2>2. IsFiniteSet((c[x] + 1..b[x]) \X (1..h[x])) /\ Cardinality((c[x] + 1..b[x]) \X (1..h[x])) = n * h[x]
    BY <2>1, FS_Product
  <2>3. IsFiniteSet({x}) /\ Cardinality({x}) = 1
    BY FS_Singleton
  <2> DEFINE Inner == (c[x] + 1..b[x]) \X (1..h[x])
  <2> HIDE DEF Inner
  <2>4. IsFiniteSet(Inner) /\ Cardinality(Inner) = n * h[x] /\ Slice = {x} \X Inner
    BY <2>2 DEF Inner
  <2> HIDE DEF Slice
  <2>5. IsFiniteSet({x} \X Inner) /\ Cardinality({x} \X Inner) = Cardinality({x}) * Cardinality(Inner)
    BY <2>3, <2>4, FS_Product
  <2>6. Cardinality(Inner) \in Nat
    BY <2>4, FS_CardinalityType
  <2> QED
    BY <2>3, <2>4, <2>5, <2>6
<1>2. \A i, k : <<x, <<i, k>>>> \in Slice <=> i \in c[x] + 1..b[x] /\ k \in 1..h[x]
  OBVIOUS
<1>3. Tickets(S, b, h) \subseteq Tickets(S, c, h) \cup Slice
  <2> SUFFICES ASSUME NEW t \in Tickets(S, b, h)
               PROVE  t \in Tickets(S, c, h) \cup Slice
    OBVIOUS
  <2>1. PICK y \in S : \E i \in 1..b[y] : \E k \in 1..h[y] : t = <<y, <<i, k>>>>
    BY TicketShape
  <2>2. PICK i \in 1..b[y], k \in 1..h[y] : t = <<y, <<i, k>>>>
    BY <2>1
  <2> HIDE DEF Slice
  <2>3. y # x => i \in 1..c[y]
    BY <2>2
  <2>4. y = x => i \in 1..c[y] \/ i \in c[x] + 1..b[x]
    BY <2>2
  <2> QED
    BY <1>2, <2>2, <2>3, <2>4, TicketFields
<1>4. Tickets(S, c, h) \subseteq Tickets(S, b, h) /\ Slice \subseteq Tickets(S, b, h)
  <2>1. ASSUME NEW t \in Tickets(S, c, h)
        PROVE  t \in Tickets(S, b, h)
    <3>1. PICK y \in S : \E i \in 1..c[y] : \E k \in 1..h[y] : t = <<y, <<i, k>>>>
      BY TicketShape
    <3>2. PICK i \in 1..c[y], k \in 1..h[y] : t = <<y, <<i, k>>>>
      BY <3>1
    <3>3. i \in 1..b[y]
      BY <3>2
    <3> QED
      BY <3>2, <3>3, TicketFields
  <2>2. ASSUME NEW t \in Slice
        PROVE  t \in Tickets(S, b, h)
    <3>1. PICK i \in c[x] + 1..b[x], k \in 1..h[x] : t = <<x, <<i, k>>>>
      OBVIOUS
    <3>2. i \in 1..b[x]
      BY <3>1
    <3> QED
      BY <3>1, <3>2, TicketFields
  <2> QED
    BY <2>1, <2>2
<1>5. Tickets(S, c, h) \cap Slice = {}
  <2> SUFFICES ASSUME NEW t \in Slice, t \in Tickets(S, c, h)
               PROVE  FALSE
    OBVIOUS
  <2>1. PICK i \in c[x] + 1..b[x], k \in 1..h[x] : t = <<x, <<i, k>>>>
    OBVIOUS
  <2>2. i \in 1..c[x]
    BY <2>1, TicketFields
  <2> QED
    BY <2>1, <2>2
<1> HIDE DEF Slice
<1>6. Tickets(S, b, h) = Tickets(S, c, h) \cup Slice
  BY <1>3, <1>4
<1>7. ASSUME IsFiniteSet(Tickets(S, c, h))
      PROVE  /\ IsFiniteSet(Tickets(S, b, h))
             /\ Cardinality(Tickets(S, b, h)) = Cardinality(Tickets(S, c, h)) + n * h[x]
  <2>1. /\ IsFiniteSet(Tickets(S, c, h) \cup Slice)
        /\ Cardinality(Tickets(S, c, h) \cup Slice) =
             Cardinality(Tickets(S, c, h)) + Cardinality(Slice) - Cardinality(Tickets(S, c, h) \cap Slice)
    BY <1>1, <1>7, FS_Union
  <2>2. Cardinality(Tickets(S, c, h)) \in Nat /\ n * h[x] \in Nat
    BY <1>7, FS_CardinalityType
  <2>3. Cardinality(Tickets(S, c, h) \cap Slice) = 0
    BY <1>5, FS_EmptySet
  <2> QED
    BY <1>1, <1>6, <2>1, <2>2, <2>3
<1>8. IsFiniteSet(Tickets(S, b, h)) => IsFiniteSet(Tickets(S, c, h))
  BY <1>4, FS_Subset
<1> QED
  BY <1>7, <1>8

\* Nothing has more tickets than before: there are no more of them.
LEMMA TicketsFewer ==
  ASSUME NEW S, NEW c \in [S -> Nat], NEW b \in [S -> Nat], NEW h \in [S -> Nat],
         \A y \in S : b[y] <= c[y], IsFiniteSet(Tickets(S, c, h))
  PROVE  /\ IsFiniteSet(Tickets(S, b, h))
         /\ Cardinality(Tickets(S, b, h)) <= Cardinality(Tickets(S, c, h))
<1>1. Tickets(S, b, h) \subseteq Tickets(S, c, h)
  <2> SUFFICES ASSUME NEW t \in Tickets(S, b, h)
               PROVE  t \in Tickets(S, c, h)
    OBVIOUS
  <2>1. PICK y \in S : \E i \in 1..b[y] : \E k \in 1..h[y] : t = <<y, <<i, k>>>>
    BY TicketShape
  <2>2. PICK i \in 1..b[y], k \in 1..h[y] : t = <<y, <<i, k>>>>
    BY <2>1
  <2>3. i \in 1..c[y]
    BY <2>2
  <2> QED
    BY <2>2, <2>3, TicketFields
<1> QED
  BY <1>1, FS_Subset

\* The things of F come back, each as one of the kind into[f] and with at
\* most n tickets: no more than n tickets for each are added.

\* The things of F come back, those of from[y] as things of the kind y, and
\* each with at most n tickets: no more than n tickets for each are added.
LEMMA TicketsReturn ==
  ASSUME NEW S, NEW c \in [S -> Nat], NEW b \in [S -> Nat], NEW h \in [S -> Nat],
         NEW F, IsFiniteSet(F), NEW from \in [S -> SUBSET F], NEW n \in Nat,
         \A y \in S : h[y] <= n,
         \A y, z \in S : y # z => from[y] \cap from[z] = {},
         \A y \in S : b[y] <= c[y] + Cardinality(from[y]),
         IsFiniteSet(Tickets(S, c, h))
  PROVE  /\ IsFiniteSet(Tickets(S, b, h))
         /\ Cardinality(Tickets(S, b, h)) <= Cardinality(Tickets(S, c, h)) + Cardinality(F) * n
<1> DEFINE Old == Tickets(S, c, h)
           Extra == Tickets(S, b, h) \ Old
           Size(y) == Cardinality(from[y])
           g == [y \in S |-> CHOOSE f : f \in Bijection(1..Size(y), from[y])]
           place == [t \in Extra |-> <<g[t[1]][t[2][1] - c[t[1]]], t[2][2]>>]
<1>1. \A y \in S : Size(y) \in Nat /\ g[y] \in Bijection(1..Size(y), from[y])
  <2> SUFFICES ASSUME NEW y \in S
               PROVE  Size(y) \in Nat /\ g[y] \in Bijection(1..Size(y), from[y])
    OBVIOUS
  <2>1. IsFiniteSet(from[y])
    BY FS_Subset
  <2>2. Size(y) \in Nat /\ ExistsBijection(1..Size(y), from[y])
    BY <2>1, FS_CardinalityType
  <2> QED
    BY <2>2 DEF ExistsBijection
<1> HIDE DEF g, Size
<1>2. \A y \in S : \A i, j \in 1..Size(y) : g[y][i] \in from[y] /\ (g[y][i] = g[y][j] => i = j)
  <2> SUFFICES ASSUME NEW y \in S
               PROVE  \A i, j \in 1..Size(y) : g[y][i] \in from[y] /\ (g[y][i] = g[y][j] => i = j)
    OBVIOUS
  <2>1. g[y] \in [1..Size(y) -> from[y]]
    BY <1>1 DEF Bijection, Injection
  <2>2. IsInjective(g[y])
    BY <1>1 DEF Bijection, Injection
  <2>3. DOMAIN g[y] = 1..Size(y)
    BY <2>1
  <2> QED
    BY <2>1, <2>2, <2>3 DEF IsInjective
<1>3. ASSUME NEW t \in Extra
      PROVE  /\ t = <<t[1], <<t[2][1], t[2][2]>>>>
             /\ t[1] \in S /\ t[2][2] \in 1..n /\ t[2][1] \in Nat
             /\ t[2][1] - c[t[1]] \in 1..Size(t[1])
  <2>1. PICK y \in S : \E i \in 1..b[y] : \E k \in 1..h[y] : t = <<y, <<i, k>>>>
    BY TicketShape
  <2>2. PICK i \in 1..b[y], k \in 1..h[y] : t = <<y, <<i, k>>>>
    BY <2>1
  <2>3. i \notin 1..c[y]
    BY <2>2, TicketFields
  <2>4. k \in 1..n
    BY <2>2
  <2>5. i - c[y] \in 1..Size(y)
    <3>1. i \in 1..b[y] /\ c[y] \in Nat /\ b[y] \in Nat /\ Size(y) \in Nat /\ b[y] <= c[y] + Size(y)
      BY <1>1, <2>2 DEF Size
    <3> QED
      BY <2>3, <3>1
  <2> QED
    BY <2>2, <2>4, <2>5
<1> HIDE DEF Extra
<1>4. place \in Injection(Extra, F \X (1..n))
  <2>1. place \in [Extra -> F \X (1..n)]
    <3> SUFFICES ASSUME NEW t \in Extra
                 PROVE  <<g[t[1]][t[2][1] - c[t[1]]], t[2][2]>> \in F \X (1..n)
      OBVIOUS
    <3>1. g[t[1]][t[2][1] - c[t[1]]] \in from[t[1]] /\ t[2][2] \in 1..n /\ t[1] \in S
      BY <1>2, <1>3
    <3> QED
      BY <3>1
  <2>2. ASSUME NEW t \in Extra, NEW u \in Extra, place[t] = place[u]
        PROVE  t = u
    <3>1. g[t[1]][t[2][1] - c[t[1]]] = g[u[1]][u[2][1] - c[u[1]]] /\ t[2][2] = u[2][2]
      BY <2>2
    <3>2. t[1] = u[1]
      BY <1>2, <1>3, <3>1
    <3>3. t[2][1] - c[t[1]] = u[2][1] - c[t[1]]
      BY <1>2, <1>3, <3>1, <3>2
    <3>4. c[t[1]] \in Nat /\ t[2][1] \in Nat /\ u[2][1] \in Nat
      BY <1>3
    <3>5. t[2][1] = u[2][1]
      BY <3>3, <3>4
    <3> QED
      BY <1>3, <3>1, <3>2, <3>5
  <2> HIDE DEF place
  <2> QED
    BY <2>1, <2>2 DEF Injection, IsInjective
<1>5. IsFiniteSet(F \X (1..n)) /\ Cardinality(F \X (1..n)) = Cardinality(F) * n
  <2>1. 1 \in Int /\ n \in Int /\ n >= 0
    OBVIOUS
  <2>2. IsFiniteSet(1..n) /\ Cardinality(1..n) = IF 1 > n THEN 0 ELSE n - 1 + 1
    BY <2>1, FS_Interval
  <2>3. Cardinality(1..n) = n
    BY <2>1, <2>2
  <2> QED
    BY <2>2, <2>3, FS_Product
<1> HIDE DEF place
<1>6. IsFiniteSet(Extra) /\ Cardinality(Extra) <= Cardinality(F) * n
  BY <1>4, <1>5, FS_Injection
<1>7. /\ IsFiniteSet(Old \cup Extra)
      /\ Cardinality(Old \cup Extra) = Cardinality(Old) + Cardinality(Extra) - Cardinality(Old \cap Extra)
  BY <1>6, FS_Union
<1>8. Cardinality(Old \cap Extra) \in Nat /\ Cardinality(Old) \in Nat /\ Cardinality(Extra) \in Nat
  <2>1. IsFiniteSet(Old \cap Extra)
    BY FS_Subset
  <2> QED
    BY <1>6, <2>1, FS_CardinalityType
<1>9. Cardinality(F) * n \in Nat
  <2>1. Cardinality(F) \in Nat
    BY FS_CardinalityType
  <2> QED
    BY <2>1
<1>10. Tickets(S, b, h) \subseteq Old \cup Extra
  BY DEF Extra
<1>11. /\ IsFiniteSet(Tickets(S, b, h))
       /\ Cardinality(Tickets(S, b, h)) <= Cardinality(Old \cup Extra)
  BY <1>7, <1>10, FS_Subset
<1>12. Cardinality(Tickets(S, b, h)) \in Nat
  BY <1>11, FS_CardinalityType
<1> HIDE DEF Old
<1>13. Cardinality(Tickets(S, b, h)) <= Cardinality(Old) + Cardinality(F) * n
  BY <1>6, <1>7, <1>8, <1>9, <1>11, <1>12
<1> QED
  BY <1>11, <1>13 DEF Old

\* One thing more or less of a kind, or any change of a kind whose things
\* have one ticket each.
LEMMA TicketsChange ==
  ASSUME NEW S, NEW c \in [S -> Nat], NEW b \in [S -> Nat], NEW h \in [S -> Nat],
         NEW x \in S, \A y \in S \ {x} : b[y] = c[y], IsFiniteSet(Tickets(S, c, h))
  PROVE  /\ IsFiniteSet(Tickets(S, b, h))
         /\ Cardinality(Tickets(S, c, h)) \in Nat /\ Cardinality(Tickets(S, b, h)) \in Nat
         /\ b[x] = c[x] + 1 =>
              Cardinality(Tickets(S, b, h)) = Cardinality(Tickets(S, c, h)) + h[x]
         /\ c[x] = b[x] + 1 =>
              Cardinality(Tickets(S, c, h)) = Cardinality(Tickets(S, b, h)) + h[x]
         /\ h[x] = 1 =>
              Cardinality(Tickets(S, b, h)) + c[x] = Cardinality(Tickets(S, c, h)) + b[x]
<1> DEFINE old == Cardinality(Tickets(S, c, h))
           new == Cardinality(Tickets(S, b, h))
<1>1. CASE b[x] >= c[x]
  <2> DEFINE n == b[x] - c[x]
  <2>1. n \in Nat /\ b[x] = c[x] + n
    BY <1>1
  <2> HIDE DEF n
  <2>2. IsFiniteSet(Tickets(S, b, h)) /\ new = old + n * h[x]
    BY <2>1, TicketsAdd
  <2>3. old \in Nat /\ new \in Nat
    BY <2>2, FS_CardinalityType
  <2> HIDE DEF old, new
  <2>4. b[x] = c[x] + 1 => new = old + h[x]
    BY <2>1, <2>2, <2>3
  <2>5. h[x] = 1 => new + c[x] = old + b[x]
    BY <2>1, <2>2, <2>3
  <2>6. c[x] # b[x] + 1
    BY <1>1
  <2> QED
    BY <2>2, <2>3, <2>4, <2>5, <2>6 DEF old, new
<1>2. CASE b[x] < c[x]
  <2> DEFINE n == c[x] - b[x]
  <2>1. n \in Nat /\ c[x] = b[x] + n /\ \A y \in S \ {x} : c[y] = b[y]
    BY <1>2
  <2> HIDE DEF n
  <2>2. /\ IsFiniteSet(Tickets(S, b, h)) <=> IsFiniteSet(Tickets(S, c, h))
        /\ IsFiniteSet(Tickets(S, b, h)) => old = new + n * h[x]
    <3> HIDE DEF old, new
    <3>1. /\ IsFiniteSet(Tickets(S, b, h)) <=> IsFiniteSet(Tickets(S, c, h))
          /\ IsFiniteSet(Tickets(S, b, h)) =>
               Cardinality(Tickets(S, c, h)) = Cardinality(Tickets(S, b, h)) + n * h[x]
      BY <2>1, TicketsAdd
    <3> QED
      BY <3>1 DEF old, new
  <2>3. old \in Nat /\ new \in Nat
    BY <2>2, FS_CardinalityType
  <2> HIDE DEF old, new
  <2>4. c[x] = b[x] + 1 => old = new + h[x]
    BY <2>1, <2>2, <2>3
  <2>5. h[x] = 1 => new + c[x] = old + b[x]
    BY <2>1, <2>2, <2>3
  <2>6. b[x] # c[x] + 1
    BY <1>2
  <2> QED
    BY <2>2, <2>3, <2>4, <2>5, <2>6 DEF old, new
<1> QED
  BY <1>1, <1>2

\* Without things there is no ticket.
LEMMA NoTickets ==
  ASSUME NEW S, NEW c, NEW h, \A y \in S : c[y] = 0
  PROVE  IsFiniteSet(Tickets(S, c, h)) /\ Cardinality(Tickets(S, c, h)) = 0
<1>1. Tickets(S, c, h) = {}
  BY DEF Tickets
<1> QED
  BY <1>1, FS_EmptySet

\* What the messages stand for.
LEMMA Weights ==
  ASSUME NEW p \in Payment, NEW kind \in Kind
  PROVE  /\ Full(kind) \in Nat
         /\ Weight(kind, p) \in [Message -> Nat] /\ Load(kind, p) \in [Delivery -> Nat]
         /\ \A m \in Message : Weight(kind, p)[m] <= Full(kind)
         /\ \A m \in Message : m.payment # p => Weight(kind, p)[m] = 0
         /\ \A d \in Delivery : Load(kind, p)[d] = Weight(kind, p)[d.msg]
         /\ Weight(kind, p)[New(p)] = Full(kind)
<1>1. MaxRetries \in Nat \ {0}
  BY ConsumerAssumption
<1>2. Full(kind) \in Nat
  BY <1>1 DEF Full
<1>3. ASSUME NEW m \in Message
      PROVE  /\ Weight(kind, p)[m] \in Nat /\ Weight(kind, p)[m] <= Full(kind)
             /\ m.payment # p => Weight(kind, p)[m] = 0
  <2>1. m.tries \in 0..MaxRetries - 1
    BY MessageFields
  <2> QED
    BY <1>1, <2>1 DEF Weight, Full, Kind
<1>4. Weight(kind, p) \in [Message -> Nat]
  <2>1. DOMAIN Weight(kind, p) = Message /\ Weight(kind, p) = [m \in Message |-> Weight(kind, p)[m]]
    BY DEF Weight
  <2> QED
    BY <1>3, <2>1
<1>5. Load(kind, p) \in [Delivery -> Nat] /\ \A d \in Delivery : Load(kind, p)[d] = Weight(kind, p)[d.msg]
  BY <1>3, DeliveryFields DEF Load
<1>6. Weight(kind, p)[New(p)] = Full(kind)
  <2>1. New(p) \in Message /\ New(p).payment = p /\ New(p).type = "payments.new" /\ New(p).tries = 0
    BY NewMessage DEF New
  <2> QED
    BY <1>1, <2>1 DEF Weight, Full, Kind
<1> QED
  BY <1>2, <1>3, <1>4, <1>5, <1>6

\* What workers have left are numbers.
LEMMA LeftTypes ==
  ASSUME Core, NEW p \in Payment, NEW kind \in Kind
  PROVE  Left(kind, p) \in [Worker -> Nat] /\ One \in [Worker -> Nat]
<1>1. \A w \in Worker : pc[w] # "idle" => Load(kind, p)[job[w]] \in Nat
  BY Weights DEF Core, HandlerInv
<1>2. \A n \in Nat : Less(n) \in Nat
  BY DEF Less
<1> QED
  BY <1>1, <1>2 DEF Left, One

\* The primed form of LeftTypes, as the steps use it.
LEMMA LeftTypesNext ==
  ASSUME Core', NEW p \in Payment, NEW kind \in Kind
  PROVE  Left(kind, p)' \in [Worker -> Nat]
<1>1. \A w \in Worker : pc'[w] # "idle" => Load(kind, p)[job'[w]] \in Nat
  BY Weights DEF Core, HandlerInv
<1>2. \A n \in Nat : Less(n) \in Nat
  BY DEF Less
<1> QED
  BY <1>1, <1>2 DEF Left, One

-----------------------------------------------------------------------------
(* One lemma for each kind of step, about one kind of calls for one payment. *)

\* The budget grows by Full for each message that gets a second life.
LEMMA BudgetGrows ==
  ASSUME NEW full \in Nat, NEW n \in Nat, NEW k \in Nat
  PROVE  /\ full * (1 + n) \in Nat /\ full * (1 + (n + k)) \in Nat
         /\ full * (1 + (n + k)) = full * (1 + n) + k * full
         /\ full * (1 + (n + 1)) = full * (1 + n) + full
<1>1. full * n \in Nat /\ full * k \in Nat /\ k * full = full * k
  OBVIOUS
<1>2. full * (1 + n) = full + full * n
  OBVIOUS
<1>3. full * (1 + (n + k)) = full + full * n + full * k
  OBVIOUS
<1>4. full * (1 + (n + 1)) = full + full * n + full
  OBVIOUS
<1> QED
  BY <1>1, <1>2, <1>3, <1>4

\* A handler's step: it spends a ticket of its own, or passes some on in the
\* message it commits, and never has more than before.
LEMMA HandlerBudget ==
  ASSUME Core, Core', NEW p \in Payment, NEW kind \in Kind, WithinBudget(kind, p),
         NEW w \in Worker, \A v \in Worker \ {w} : pc'[v] = pc[v] /\ job'[v] = job[v],
         UNCHANGED <<queue, again>>, status'[p] = "absent" <=> status[p] = "absent",
         NEW m \in Message, NEW n \in Nat,
         \/ rows' = rows /\ n = 0
         \/ rows' = Plus(rows, m, 1) /\ n = Weight(kind, p)[m],
         Spent(kind, p)' \in Nat, Spent(kind, p) \in Nat,
         Spent(kind, p)' + Left(kind, p)'[w] + n <= Spent(kind, p) + Left(kind, p)[w]
  PROVE  WithinBudget(kind, p)'
<1>1. /\ Left(kind, p) \in [Worker -> Nat] /\ One \in [Worker -> Nat] /\ One[w] = 1
      /\ Left(kind, p)' \in [Worker -> Nat]
      /\ \A v \in Worker \ {w} : Left(kind, p)'[v] = Left(kind, p)[v]
  BY LeftTypes, LeftTypesNext DEF Left, One
<1>2. Weight(kind, p) \in [Message -> Nat] /\ Full(kind) \in Nat
  BY Weights
<1>3. rows \in [Message -> Nat] /\ rows' \in [Message -> Nat] /\ again \in Nat
  BY DEF Core, ConsumerTypeOK
<1>4. PICK r, q, k, r2, k2 :
        /\ r = Cardinality(InRows(kind, p)) /\ q = Cardinality(InQueue(kind, p))
        /\ k = Cardinality(InHand(kind, p))
        /\ r2 = Cardinality(InRows(kind, p)') /\ k2 = Cardinality(InHand(kind, p)')
  OBVIOUS
<1>5. /\ IsFiniteSet(InRows(kind, p)) /\ IsFiniteSet(InQueue(kind, p)) /\ IsFiniteSet(InHand(kind, p))
      /\ Spent(kind, p) + Unborn(kind, p) + r + q + k <= Full(kind) * (1 + again)
  BY <1>4 DEF WithinBudget
<1>6. InQueue(kind, p)' = InQueue(kind, p) /\ q \in Nat
  BY <1>4, <1>5, FS_CardinalityType DEF InQueue
<1>7. /\ IsFiniteSet(InHand(kind, p)') /\ k \in Nat /\ k2 \in Nat
      /\ k2 + Left(kind, p)[w] = k + Left(kind, p)'[w]
  <2>1. /\ InHand(kind, p) = Tickets(Worker, Left(kind, p), One)
        /\ InHand(kind, p)' = Tickets(Worker, Left(kind, p)', One)
    BY DEF InHand, One
  <2> QED
    BY <1>1, <1>4, <1>5, <2>1, TicketsChange
<1>8. IsFiniteSet(InRows(kind, p)') /\ r \in Nat /\ r2 \in Nat /\ r2 = r + n
  <2>1. /\ InRows(kind, p) = Tickets(Message, rows, Weight(kind, p))
        /\ InRows(kind, p)' = Tickets(Message, rows', Weight(kind, p))
    BY DEF InRows
  <2>2. CASE rows' = rows /\ n = 0
    BY <1>4, <1>5, <2>1, <2>2, FS_CardinalityType
  <2>3. CASE rows' = Plus(rows, m, 1) /\ n = Weight(kind, p)[m]
    <3>1. rows'[m] = rows[m] + 1 /\ \A y \in Message \ {m} : rows'[y] = rows[y]
      BY <1>3, <2>3 DEF Plus
    <3> QED
      BY <1>2, <1>3, <1>4, <1>5, <2>1, <2>3, <3>1, TicketsChange
  <2> QED
    BY <2>2, <2>3
<1>9. Unborn(kind, p)' = Unborn(kind, p) /\ Unborn(kind, p) \in Nat
  BY <1>2 DEF Unborn
<1>10. Full(kind) * (1 + again) \in Nat
  BY <1>2, <1>3, BudgetGrows
<1>11. PICK bound \in Nat : bound = Full(kind) * (1 + again) /\ bound = Full(kind) * (1 + again')
  BY <1>10
<1>12. PICK l \in Nat, l2 \in Nat : l = Left(kind, p)[w] /\ l2 = Left(kind, p)'[w]
  BY <1>1
<1>13. PICK s \in Nat, s2 \in Nat, u \in Nat :
         s = Spent(kind, p) /\ s2 = Spent(kind, p)' /\ u = Unborn(kind, p) /\ u = Unborn(kind, p)'
  BY <1>9
<1>14. s2 + u + r2 + q + k2 <= bound
  <2>1. s + u + r + q + k <= bound /\ s2 + l2 + n <= s + l /\ k2 + l = k + l2 /\ r2 = r + n
    BY <1>5, <1>7, <1>8, <1>11, <1>12, <1>13
  <2> QED
    BY <1>6, <1>7, <1>8, <2>1
<1>15. /\ IsFiniteSet(InRows(kind, p)') /\ IsFiniteSet(InQueue(kind, p)') /\ IsFiniteSet(InHand(kind, p)')
       /\ Spent(kind, p)' + Unborn(kind, p)' + Cardinality(InRows(kind, p)')
            + Cardinality(InQueue(kind, p)') + Cardinality(InHand(kind, p)') <= Full(kind) * (1 + again')
  BY <1>4, <1>5, <1>6, <1>7, <1>8, <1>11, <1>13, <1>14
<1> QED
  BY <1>15 DEF WithinBudget, Full

\* A message that RabbitMQ takes back renews the calls it stands for.
LEMMA GiveBackBudget ==
  ASSUME Core, Core', NEW p \in Payment, NEW kind \in Kind, WithinBudget(kind, p),
         NEW W \in SUBSET Worker, GiveBack(W),
         UNCHANGED <<paymentVars, rowVars, outsideVars>>,
         UNCHANGED <<pc, job, copy>> \/ Idle(W)
  PROVE  WithinBudget(kind, p)'
<1>0. \A w \in Worker : \/ pc'[w] = "idle"
                        \/ pc'[w] = pc[w] /\ job'[w] = job[w]
  BY DEF Idle
<1> DEFINE F == W \cap held
           from == [d \in Delivery |->
                      IF d.returns = 0 THEN {} ELSE {w \in F : job[w] = [d EXCEPT !.returns = @ - 1]}]
<1>1. /\ queue' = [d \in Delivery |->
                     queue[d] + IF d.returns = 0 THEN 0
                                ELSE Cardinality({w \in F : job[w] = [d EXCEPT !.returns = @ - 1]})]
      /\ again' = again + Cardinality(F)
  BY DEF GiveBack
<1>2. IsFiniteSet(F) /\ Cardinality(F) \in Nat
  <2>1. IsFiniteSet(F)
    BY ConsumerAssumption, FS_Subset
  <2> QED
    BY <2>1, FS_CardinalityType
<1>3. from \in [Delivery -> SUBSET F]
  OBVIOUS
<1>4. ASSUME NEW d \in Delivery, NEW e \in Delivery, d # e
      PROVE  from[d] \cap from[e] = {}
  <2> SUFFICES ASSUME NEW w \in from[d], w \in from[e]
               PROVE  FALSE
    OBVIOUS
  <2>1. /\ d.returns # 0 /\ job[w] = [d EXCEPT !.returns = @ - 1]
        /\ e.returns # 0 /\ job[w] = [e EXCEPT !.returns = @ - 1]
    OBVIOUS
  <2> HIDE DEF from
  <2>2. PICK m \in Message, n \in 0..DeliveryLimit : d = [msg |-> m, returns |-> n]
    BY DEF Delivery
  <2>3. PICK m2 \in Message, n2 \in 0..DeliveryLimit : e = [msg |-> m2, returns |-> n2]
    BY DEF Delivery
  <2>4. job[w] = [msg |-> m, returns |-> n - 1] /\ job[w] = [msg |-> m2, returns |-> n2 - 1]
    BY <2>1, <2>2, <2>3
  <2>5. m = m2 /\ n - 1 = n2 - 1
    BY <2>4
  <2>6. n \in Nat /\ n2 \in Nat
    BY ConsumerAssumption
  <2> QED
    BY <1>4, <2>2, <2>3, <2>5, <2>6
<1>5. queue \in [Delivery -> Nat] /\ queue' \in [Delivery -> Nat] /\ again \in Nat /\ again' \in Nat
  BY DEF Core, ConsumerTypeOK
<1>6. \A d \in Delivery : queue'[d] <= queue[d] + Cardinality(from[d])
  <2> SUFFICES ASSUME NEW d \in Delivery
               PROVE  queue'[d] <= queue[d] + Cardinality(from[d])
    OBVIOUS
  <2>1. Cardinality({}) = 0
    BY FS_EmptySet
  <2>2. queue'[d] = queue[d] + Cardinality(from[d])
    BY <1>1, <2>1
  <2> HIDE DEF from
  <2> QED
    BY <1>5, <2>2
<1> HIDE DEF F, from
<1>7. /\ Full(kind) \in Nat /\ Load(kind, p) \in [Delivery -> Nat]
      /\ \A d \in Delivery : Load(kind, p)[d] <= Full(kind)
  BY Weights, DeliveryFields
<1>8. PICK r, q, k, q2, k2, f :
        /\ r = Cardinality(InRows(kind, p)) /\ q = Cardinality(InQueue(kind, p))
        /\ k = Cardinality(InHand(kind, p)) /\ f = Cardinality(F)
        /\ q2 = Cardinality(InQueue(kind, p)') /\ k2 = Cardinality(InHand(kind, p)')
  OBVIOUS
<1>9. /\ IsFiniteSet(InRows(kind, p)) /\ IsFiniteSet(InQueue(kind, p)) /\ IsFiniteSet(InHand(kind, p))
      /\ Spent(kind, p) + Unborn(kind, p) + r + q + k <= Full(kind) * (1 + again)
  BY <1>8 DEF WithinBudget
<1>10. IsFiniteSet(InQueue(kind, p)') /\ q2 <= q + f * Full(kind) /\ q \in Nat /\ q2 \in Nat
  <2>1. /\ InQueue(kind, p) = Tickets(Delivery, queue, Load(kind, p))
        /\ InQueue(kind, p)' = Tickets(Delivery, queue', Load(kind, p))
    BY DEF InQueue
  <2>2. /\ IsFiniteSet(Tickets(Delivery, queue', Load(kind, p)))
        /\ Cardinality(Tickets(Delivery, queue', Load(kind, p))) <=
             Cardinality(Tickets(Delivery, queue, Load(kind, p))) + Cardinality(F) * Full(kind)
    <3>1. IsFiniteSet(Tickets(Delivery, queue, Load(kind, p)))
      BY <1>9, <2>1
    <3>2. \A d, e \in Delivery : d # e => from[d] \cap from[e] = {}
      BY <1>4
    <3> QED
      BY <1>2, <1>3, <1>5, <1>6, <1>7, <3>1, <3>2, TicketsReturn
  <2> QED
    BY <1>8, <1>9, <2>1, <2>2, FS_CardinalityType
<1>11. IsFiniteSet(InHand(kind, p)') /\ k2 <= k /\ k \in Nat /\ k2 \in Nat
  <2>1. /\ InHand(kind, p) = Tickets(Worker, Left(kind, p), One)
        /\ InHand(kind, p)' = Tickets(Worker, Left(kind, p)', One)
    BY DEF InHand, One
  <2>2. Left(kind, p) \in [Worker -> Nat] /\ One \in [Worker -> Nat] /\ Left(kind, p)' \in [Worker -> Nat]
    BY LeftTypes, LeftTypesNext
  <2>3. ASSUME NEW w \in Worker
        PROVE  Left(kind, p)'[w] <= Left(kind, p)[w]
    <3>1. Left(kind, p)'[w] = 0 \/ Left(kind, p)'[w] = Left(kind, p)[w]
      BY <1>0 DEF Left
    <3> QED
      BY <2>2, <3>1
  <2> QED
    BY <1>8, <1>9, <2>1, <2>2, <2>3, TicketsFewer, FS_CardinalityType
<1>12. /\ InRows(kind, p)' = InRows(kind, p) /\ Spent(kind, p)' = Spent(kind, p)
       /\ Unborn(kind, p)' = Unborn(kind, p) /\ r \in Nat
  BY <1>8, <1>9, FS_CardinalityType DEF InRows, Spent, Unborn, rowVars, outsideVars, paymentVars, Full
<1>13. Spent(kind, p) \in Nat /\ Unborn(kind, p) \in Nat
  BY <1>7 DEF Core, ConsumerTypeOK, Spent, Unborn
<1>14. /\ Full(kind) * (1 + again) \in Nat /\ f * Full(kind) \in Nat
       /\ Full(kind) * (1 + again') = Full(kind) * (1 + again) + f * Full(kind)
  BY <1>1, <1>2, <1>5, <1>7, <1>8, BudgetGrows
<1>15. PICK bound \in Nat, more \in Nat, s \in Nat, u \in Nat :
         /\ bound = Full(kind) * (1 + again) /\ more = f * Full(kind)
         /\ s = Spent(kind, p) /\ u = Unborn(kind, p)
  BY <1>13, <1>14
<1>16. s + u + r + q2 + k2 <= bound + more
  BY <1>9, <1>10, <1>11, <1>12, <1>15
<1>17. /\ IsFiniteSet(InRows(kind, p)') /\ IsFiniteSet(InQueue(kind, p)') /\ IsFiniteSet(InHand(kind, p)')
       /\ Spent(kind, p)' + Unborn(kind, p)' + Cardinality(InRows(kind, p)')
            + Cardinality(InQueue(kind, p)') + Cardinality(InHand(kind, p)') <= Full(kind) * (1 + again')
  BY <1>8, <1>9, <1>10, <1>11, <1>12, <1>14, <1>15, <1>16
<1> QED
  BY <1>17 DEF WithinBudget, Full

\* A row is relayed, relayed and kept, or given up; or it reaches no queue.
LEMMA RelayBudget ==
  ASSUME Core, Core', NEW p \in Payment, NEW kind \in Kind, WithinBudget(kind, p),
         NEW m \in Message, rows[m] > 0,
         UNCHANGED <<paymentVars, workerVars, outsideVars>>,
         \/ rows' = [rows EXCEPT ![m] = @ - 1] /\ again' = again
         \/ rows' = rows /\ again' = again + 1,
         \/ queue' = Plus(queue, [msg |-> m, returns |-> 0], 1)
         \/ queue' = queue
  PROVE  WithinBudget(kind, p)'
<1>1. PICK d \in Delivery : d = [msg |-> m, returns |-> 0] /\ d.msg = m
  BY ConsumerAssumption, DeliveryFields
<1>2. /\ Full(kind) \in Nat /\ Load(kind, p) \in [Delivery -> Nat] /\ Weight(kind, p) \in [Message -> Nat]
      /\ Load(kind, p)[d] = Weight(kind, p)[m] /\ Weight(kind, p)[m] <= Full(kind)
  BY <1>1, Weights
<1>3. /\ rows \in [Message -> Nat] /\ rows' \in [Message -> Nat]
      /\ queue \in [Delivery -> Nat] /\ queue' \in [Delivery -> Nat] /\ again \in Nat
  BY DEF Core, ConsumerTypeOK
<1>4. PICK r, q, k, r2, q2, n :
        /\ r = Cardinality(InRows(kind, p)) /\ q = Cardinality(InQueue(kind, p))
        /\ k = Cardinality(InHand(kind, p)) /\ n = Weight(kind, p)[m]
        /\ r2 = Cardinality(InRows(kind, p)') /\ q2 = Cardinality(InQueue(kind, p)')
  OBVIOUS
<1>5. /\ IsFiniteSet(InRows(kind, p)) /\ IsFiniteSet(InQueue(kind, p)) /\ IsFiniteSet(InHand(kind, p))
      /\ Spent(kind, p) + Unborn(kind, p) + r + q + k <= Full(kind) * (1 + again)
  BY <1>4 DEF WithinBudget
<1>6. /\ IsFiniteSet(InRows(kind, p)') /\ r \in Nat /\ r2 \in Nat
      /\ \/ r2 + n = r /\ again' = again
         \/ r2 = r /\ again' = again + 1
  <2>1. /\ InRows(kind, p) = Tickets(Message, rows, Weight(kind, p))
        /\ InRows(kind, p)' = Tickets(Message, rows', Weight(kind, p))
    BY DEF InRows
  <2>2. CASE rows' = rows /\ again' = again + 1
    BY <1>4, <1>5, <2>1, <2>2, FS_CardinalityType
  <2>3. CASE rows' = [rows EXCEPT ![m] = @ - 1] /\ again' = again
    <3>1. rows[m] = rows'[m] + 1 /\ \A y \in Message \ {m} : rows'[y] = rows[y]
      BY <1>3, <2>3
    <3>2. IsFiniteSet(Tickets(Message, rows, Weight(kind, p)))
      BY <1>5, <2>1
    <3>3. /\ IsFiniteSet(Tickets(Message, rows', Weight(kind, p)))
          /\ Cardinality(Tickets(Message, rows, Weight(kind, p))) \in Nat
          /\ Cardinality(Tickets(Message, rows', Weight(kind, p))) \in Nat
          /\ Cardinality(Tickets(Message, rows, Weight(kind, p))) =
               Cardinality(Tickets(Message, rows', Weight(kind, p))) + Weight(kind, p)[m]
      BY <1>2, <1>3, <3>1, <3>2, TicketsChange
    <3> QED
      BY <1>4, <2>1, <2>3, <3>3
  <2> QED
    BY <2>2, <2>3
<1>7. IsFiniteSet(InQueue(kind, p)') /\ q \in Nat /\ q2 \in Nat /\ (q2 = q + n \/ q2 = q)
  <2>1. /\ InQueue(kind, p) = Tickets(Delivery, queue, Load(kind, p))
        /\ InQueue(kind, p)' = Tickets(Delivery, queue', Load(kind, p))
    BY DEF InQueue
  <2>2. CASE queue' = queue
    BY <1>4, <1>5, <2>1, <2>2, FS_CardinalityType
  <2>3. CASE queue' = Plus(queue, d, 1)
    <3>1. queue'[d] = queue[d] + 1 /\ \A y \in Delivery \ {d} : queue'[y] = queue[y]
      BY <1>3, <2>3 DEF Plus
    <3> QED
      BY <1>2, <1>3, <1>4, <1>5, <2>1, <2>3, <3>1, TicketsChange
  <2> QED
    BY <1>1, <2>2, <2>3
<1>8. /\ InHand(kind, p)' = InHand(kind, p) /\ Spent(kind, p)' = Spent(kind, p)
      /\ Unborn(kind, p)' = Unborn(kind, p) /\ k \in Nat
  BY <1>4, <1>5, FS_CardinalityType
  DEF InHand, Left, One, Spent, Unborn, workerVars, outsideVars, paymentVars, Full
<1>9. Spent(kind, p) \in Nat /\ Unborn(kind, p) \in Nat
  BY <1>2 DEF Core, ConsumerTypeOK, Spent, Unborn
<1>10. /\ Full(kind) * (1 + again) \in Nat
       /\ Full(kind) * (1 + (again + 1)) = Full(kind) * (1 + again) + Full(kind)
  BY <1>2, <1>3, BudgetGrows
<1>11. PICK bound \in Nat, bound2 \in Nat, s \in Nat, u \in Nat :
         /\ bound = Full(kind) * (1 + again) /\ bound2 = Full(kind) * (1 + again')
         /\ again' = again => bound2 = bound
         /\ again' = again + 1 => bound2 = bound + Full(kind)
         /\ s = Spent(kind, p) /\ u = Unborn(kind, p)
  <2>1. again' = again \/ again' = again + 1
    BY <1>6
  <2> QED
    BY <1>2, <1>9, <1>10, <2>1
<1>12. s + u + r2 + q2 + k <= bound2
  BY <1>2, <1>4, <1>5, <1>6, <1>7, <1>8, <1>11
<1>13. /\ IsFiniteSet(InRows(kind, p)') /\ IsFiniteSet(InQueue(kind, p)') /\ IsFiniteSet(InHand(kind, p)')
       /\ Spent(kind, p)' + Unborn(kind, p)' + Cardinality(InRows(kind, p)')
            + Cardinality(InQueue(kind, p)') + Cardinality(InHand(kind, p)') <= Full(kind) * (1 + again')
  BY <1>4, <1>5, <1>6, <1>7, <1>8, <1>11, <1>12
<1> QED
  BY <1>13 DEF WithinBudget, Full

\* A stored payment has its calls in the row of its first message.
LEMMA CreateBudget ==
  ASSUME Core, Core', NEW p \in Payment, NEW kind \in Kind, WithinBudget(kind, p),
         NEW o \in Payment, Create(o)
  PROVE  WithinBudget(kind, p)'
<1>1. /\ status[o] = "absent" /\ status' = [status EXCEPT ![o] = "pending"]
      /\ rows' = Plus(rows, New(o), 1)
      /\ UNCHANGED <<deadRows, brokerVars, workerVars, outsideVars, faults, again>>
  BY DEF Create
<1>2. PICK m \in Message : m = New(o) /\ m.payment = o
  BY NewMessage
<1>3. /\ Full(kind) \in Nat /\ Weight(kind, p) \in [Message -> Nat]
      /\ o = p => Weight(kind, p)[m] = Full(kind)
      /\ o # p => Weight(kind, p)[m] = 0
  BY <1>2, Weights
<1>4. rows \in [Message -> Nat] /\ rows' \in [Message -> Nat] /\ again \in Nat
      /\ status \in [Payment -> Terminal \cup {"absent", "pending"}]
  BY DEF Core, ConsumerTypeOK
<1>5. PICK r, q, k, r2 :
        /\ r = Cardinality(InRows(kind, p)) /\ q = Cardinality(InQueue(kind, p))
        /\ k = Cardinality(InHand(kind, p)) /\ r2 = Cardinality(InRows(kind, p)')
  OBVIOUS
<1>6. /\ IsFiniteSet(InRows(kind, p)) /\ IsFiniteSet(InQueue(kind, p)) /\ IsFiniteSet(InHand(kind, p))
      /\ Spent(kind, p) + Unborn(kind, p) + r + q + k <= Full(kind) * (1 + again)
  BY <1>5 DEF WithinBudget
<1>7. IsFiniteSet(InRows(kind, p)') /\ r \in Nat /\ r2 \in Nat /\ r2 = r + Weight(kind, p)[m]
  <2>1. /\ InRows(kind, p) = Tickets(Message, rows, Weight(kind, p))
        /\ InRows(kind, p)' = Tickets(Message, rows', Weight(kind, p))
    BY DEF InRows
  <2>2. rows'[m] = rows[m] + 1 /\ \A y \in Message \ {m} : rows'[y] = rows[y]
    BY <1>1, <1>2, <1>4 DEF Plus
  <2> QED
    BY <1>3, <1>4, <1>5, <1>6, <2>1, <2>2, TicketsChange
<1>8. Unborn(kind, p)' + Weight(kind, p)[m] = Unborn(kind, p) /\ Unborn(kind, p)' \in Nat
  <2>1. o = p => Unborn(kind, p) = Full(kind) /\ Unborn(kind, p)' = 0
    BY <1>1, <1>4 DEF Unborn, Full
  <2>2. o # p => Unborn(kind, p)' = Unborn(kind, p) /\ Unborn(kind, p) \in Nat
    BY <1>1, <1>3, <1>4 DEF Unborn, Full
  <2> QED
    BY <1>3, <2>1, <2>2
<1>9. /\ InHand(kind, p)' = InHand(kind, p) /\ InQueue(kind, p)' = InQueue(kind, p)
      /\ Spent(kind, p)' = Spent(kind, p) /\ k \in Nat /\ q \in Nat
  BY <1>1, <1>5, <1>6, FS_CardinalityType
  DEF InHand, InQueue, Left, One, Spent, workerVars, outsideVars, brokerVars
<1>10. Spent(kind, p) \in Nat /\ Full(kind) * (1 + again) \in Nat
  BY <1>3, <1>4, BudgetGrows DEF Core, ConsumerTypeOK, Spent
<1>11. PICK bound \in Nat, s \in Nat, u \in Nat, n \in Nat :
         /\ bound = Full(kind) * (1 + again) /\ s = Spent(kind, p)
         /\ u = Unborn(kind, p)' /\ n = Weight(kind, p)[m] /\ Unborn(kind, p) = u + n
  BY <1>3, <1>8, <1>10
<1>12. s + u + r2 + q + k <= bound
  <2>1. s + (u + n) + r + q + k <= bound /\ r2 = r + n
    BY <1>6, <1>7, <1>11
  <2> QED
    BY <1>7, <1>9, <1>11, <2>1
<1>13. /\ IsFiniteSet(InRows(kind, p)') /\ IsFiniteSet(InQueue(kind, p)') /\ IsFiniteSet(InHand(kind, p)')
       /\ Spent(kind, p)' + Unborn(kind, p)' + Cardinality(InRows(kind, p)')
            + Cardinality(InQueue(kind, p)') + Cardinality(InHand(kind, p)') <= Full(kind) * (1 + again')
  BY <1>1, <1>5, <1>6, <1>7, <1>9, <1>11, <1>12
<1> QED
  BY <1>13 DEF WithinBudget, Full

\* The calls a message stands for go with it to a worker.
LEMMA DeliverBudget ==
  ASSUME Core, Core', NEW p \in Payment, NEW kind \in Kind, WithinBudget(kind, p),
         NEW w \in Worker, NEW d \in Delivery, Deliver(w, d)
  PROVE  WithinBudget(kind, p)'
<1>1. /\ pc[w] = "idle" /\ queue[d] > 0
      /\ queue' = [queue EXCEPT ![d] = @ - 1] /\ job' = [job EXCEPT ![w] = d]
      /\ pc' = [pc EXCEPT ![w] = "loading"]
      /\ UNCHANGED <<paymentVars, rowVars, outsideVars, again>>
  BY DEF Deliver
<1>2. /\ Full(kind) \in Nat /\ Load(kind, p) \in [Delivery -> Nat]
  BY Weights
<1>3. queue \in [Delivery -> Nat] /\ queue' \in [Delivery -> Nat] /\ again \in Nat
      /\ pc \in [Worker -> Location] /\ job \in [Worker -> Delivery \cup {Nothing}]
  BY DEF Core, ConsumerTypeOK
<1>4. /\ Left(kind, p) \in [Worker -> Nat] /\ One \in [Worker -> Nat] /\ One[w] = 1
      /\ Left(kind, p)' \in [Worker -> Nat]
      /\ \A v \in Worker \ {w} : Left(kind, p)'[v] = Left(kind, p)[v]
      /\ Left(kind, p)[w] = 0 /\ Left(kind, p)'[w] = Load(kind, p)[d]
  <2>1. /\ Left(kind, p) \in [Worker -> Nat] /\ One \in [Worker -> Nat] /\ One[w] = 1
        /\ Left(kind, p)' \in [Worker -> Nat]
    BY LeftTypes, LeftTypesNext DEF One
  <2>2. pc'[w] = "loading" /\ job'[w] = d /\ \A v \in Worker \ {w} : pc'[v] = pc[v] /\ job'[v] = job[v]
    BY <1>1, <1>3
  <2>3. Made(kind) # "loading"
    BY DEF Made
  <2> QED
    BY <1>1, <2>1, <2>2, <2>3 DEF Left
<1>5. PICK r, q, k, q2, k2, n :
        /\ r = Cardinality(InRows(kind, p)) /\ q = Cardinality(InQueue(kind, p))
        /\ k = Cardinality(InHand(kind, p)) /\ n = Load(kind, p)[d]
        /\ q2 = Cardinality(InQueue(kind, p)') /\ k2 = Cardinality(InHand(kind, p)')
  OBVIOUS
<1>6. /\ IsFiniteSet(InRows(kind, p)) /\ IsFiniteSet(InQueue(kind, p)) /\ IsFiniteSet(InHand(kind, p))
      /\ Spent(kind, p) + Unborn(kind, p) + r + q + k <= Full(kind) * (1 + again)
  BY <1>5 DEF WithinBudget
<1>7. IsFiniteSet(InQueue(kind, p)') /\ q \in Nat /\ q2 \in Nat /\ q = q2 + n
  <2>1. /\ InQueue(kind, p) = Tickets(Delivery, queue, Load(kind, p))
        /\ InQueue(kind, p)' = Tickets(Delivery, queue', Load(kind, p))
    BY DEF InQueue
  <2>2. queue[d] = queue'[d] + 1 /\ \A y \in Delivery \ {d} : queue'[y] = queue[y]
    BY <1>1, <1>3
  <2> QED
    BY <1>2, <1>3, <1>5, <1>6, <2>1, <2>2, TicketsChange
<1>8. IsFiniteSet(InHand(kind, p)') /\ k \in Nat /\ k2 \in Nat /\ k2 = k + n
  <2>1. /\ InHand(kind, p) = Tickets(Worker, Left(kind, p), One)
        /\ InHand(kind, p)' = Tickets(Worker, Left(kind, p)', One)
    BY DEF InHand, One
  <2>2. /\ IsFiniteSet(InHand(kind, p)') /\ k \in Nat /\ k2 \in Nat
        /\ k2 + Left(kind, p)[w] = k + Left(kind, p)'[w]
    BY <1>4, <1>5, <1>6, <2>1, TicketsChange
  <2> QED
    BY <1>2, <1>4, <1>5, <2>2
<1>9. /\ InRows(kind, p)' = InRows(kind, p) /\ Spent(kind, p)' = Spent(kind, p)
      /\ Unborn(kind, p)' = Unborn(kind, p) /\ r \in Nat
  BY <1>1, <1>5, <1>6, FS_CardinalityType DEF InRows, Spent, Unborn, rowVars, outsideVars, paymentVars, Full
<1>10. Spent(kind, p) \in Nat /\ Unborn(kind, p) \in Nat /\ Full(kind) * (1 + again) \in Nat /\ n \in Nat
  BY <1>2, <1>3, <1>5, BudgetGrows DEF Core, ConsumerTypeOK, Spent, Unborn
<1>11. PICK bound \in Nat, s \in Nat, u \in Nat :
         bound = Full(kind) * (1 + again) /\ s = Spent(kind, p) /\ u = Unborn(kind, p)
  BY <1>10
<1>12. s + u + r + q2 + k2 <= bound
  BY <1>6, <1>7, <1>8, <1>9, <1>10, <1>11
<1>13. /\ IsFiniteSet(InRows(kind, p)') /\ IsFiniteSet(InQueue(kind, p)') /\ IsFiniteSet(InHand(kind, p)')
       /\ Spent(kind, p)' + Unborn(kind, p)' + Cardinality(InRows(kind, p)')
            + Cardinality(InQueue(kind, p)') + Cardinality(InHand(kind, p)') <= Full(kind) * (1 + again')
  BY <1>1, <1>5, <1>6, <1>7, <1>8, <1>9, <1>11, <1>12
<1> QED
  BY <1>13 DEF WithinBudget, Full

-----------------------------------------------------------------------------
(* The steps of a handler.                                                 *)

\* A webhook's message stands for the tries that are left of it.
LEMMA WebhookWeight ==
  ASSUME NEW p \in Payment, NEW kind \in Kind, NEW o \in Payment, NEW n \in 0..MaxRetries - 1
  PROVE  /\ Webhook(o, n) \in Message
         /\ Weight(kind, p)[Webhook(o, n)] = IF o = p /\ kind = "post" THEN MaxRetries - n ELSE 0
<1>1. Webhook(o, n) \in Message
  BY WebhookMessage
<1>2. /\ Webhook(o, n).payment = o /\ Webhook(o, n).type = "payments.webhook"
      /\ Webhook(o, n).tries = n
  BY DEF Webhook
<1> QED
  BY <1>1, <1>2 DEF Weight, Kind

\* What the message of a worker stands for.
LEMMA JobLoad ==
  ASSUME Core, NEW w \in Worker, pc[w] # "idle", NEW p \in Payment, NEW kind \in Kind
  PROVE  /\ job[w] \in Delivery /\ P(w) \in Payment /\ job[w].msg \in Message
         /\ job[w].msg.tries \in 0..MaxRetries - 1
         /\ job[w].msg.type = "payments.new" => job[w].msg.tries = 0
         /\ Load(kind, p)[job[w]] \in Nat
         /\ Load(kind, p)[job[w]] =
              IF P(w) # p THEN 0
              ELSE IF kind = "post" THEN MaxRetries - job[w].msg.tries
              ELSE IF job[w].msg.type = "payments.new" THEN 1 ELSE 0
<1>1. job[w] \in Delivery /\ job[w].msg \in Message
  BY DeliveryFields DEF Core, HandlerInv
<1>2. P(w) \in Payment /\ job[w].msg.tries \in 0..MaxRetries - 1
  BY <1>1, MessageFields DEF P
<1>3. job[w].msg.type = "payments.new" => job[w].msg.tries = 0
  BY <1>1 DEF Message
<1>4. Load(kind, p)[job[w]] \in Nat /\ Load(kind, p)[job[w]] = Weight(kind, p)[job[w].msg]
  BY <1>1, Weights
<1> QED
  BY <1>1, <1>2, <1>3, <1>4 DEF Weight, P

\* The worker's tickets from its place in the handler.
LEMMA LeftAt ==
  ASSUME NEW w \in Worker, NEW p, NEW kind \in Kind
  PROVE  /\ pc[w] \in {"idle", "finished"} => Left(kind, p)[w] = 0
         /\ pc[w] \in {"loading", "charging", "posting"} => Left(kind, p)[w] = Load(kind, p)[job[w]]
         /\ pc[w] = "committing" =>
              Left(kind, p)[w] = IF kind = "charge" THEN Less(Load(kind, p)[job[w]]) ELSE Load(kind, p)[job[w]]
         /\ pc[w] = "retrying" =>
              Left(kind, p)[w] = IF kind = "post" THEN Less(Load(kind, p)[job[w]]) ELSE Load(kind, p)[job[w]]
         /\ pc'[w] \in {"idle", "finished"} => Left(kind, p)'[w] = 0
         /\ pc'[w] \in {"loading", "charging", "posting"} => Left(kind, p)'[w] = Load(kind, p)[job'[w]]
         /\ pc'[w] = "committing" =>
              Left(kind, p)'[w] = IF kind = "charge" THEN Less(Load(kind, p)[job'[w]]) ELSE Load(kind, p)[job'[w]]
         /\ pc'[w] = "retrying" =>
              Left(kind, p)'[w] = IF kind = "post" THEN Less(Load(kind, p)[job'[w]]) ELSE Load(kind, p)[job'[w]]
BY DEF Left, Made, Load, Weight, Kind

\* A step of a handler spends, passes on or drops what the worker had left,
\* and never more.
LEMMA HandlerEffects ==
  ASSUME Core, Core', NEW w \in Worker, Handle(w),
         NEW p \in Payment, NEW kind \in Kind, WithinBudget(kind, p)
  PROVE  WithinBudget(kind, p)'
<1>1. /\ pc \in [Worker -> Location] /\ job \in [Worker -> Delivery \cup {Nothing}]
      /\ charges \in [Payment -> Nat] /\ posts \in [Payment -> Nat]
      /\ charges' \in [Payment -> Nat] /\ posts' \in [Payment -> Nat]
      /\ status \in [Payment -> Terminal \cup {"absent", "pending"}]
      /\ MaxRetries \in Nat \ {0}
  BY ConsumerAssumption DEF Core, ConsumerTypeOK
<1>2. Spent(kind, p) \in Nat /\ Spent(kind, p)' \in Nat
  BY <1>1 DEF Spent
<1>3. pc[w] # "idle"
  BY DEF Handle, LoadNew, GatewayAnswers, CommitProcessed, LoadWebhook, PostSucceeds, PostFails,
         CommitRetry, Ack
<1>4. PICK b \in Nat, n \in 0..MaxRetries - 1, o \in Payment,
          type \in {"payments.new", "payments.webhook"} :
        /\ b = Load(kind, p)[job[w]] /\ n = job[w].msg.tries /\ o = P(w) /\ type = job[w].msg.type
        /\ type = "payments.new" => n = 0
        /\ b = IF o # p THEN 0
               ELSE IF kind = "post" THEN MaxRetries - n
               ELSE IF type = "payments.new" THEN 1 ELSE 0
  BY <1>3, JobLoad, MessageFields
<1>5. /\ pc[w] \in {"charging", "committing"} => type = "payments.new"
      /\ pc[w] \in {"posting", "retrying"} => type = "payments.webhook"
  BY <1>4 DEF Core, HandlerInv
<1>6. Less(b) \in Nat /\ (b # 0 => Less(b) = b - 1) /\ Less(b) <= b
  BY DEF Less
<1>7. PICK some \in Message : some = New(p)
  BY NewMessage
<1>l. /\ pc[w] = "finished" => Left(kind, p)[w] = 0
      /\ pc[w] \in {"loading", "charging", "posting"} => Left(kind, p)[w] = b
      /\ pc[w] = "committing" => Left(kind, p)[w] = IF kind = "charge" THEN Less(b) ELSE b
      /\ pc[w] = "retrying" => Left(kind, p)[w] = IF kind = "post" THEN Less(b) ELSE b
  <2>1. b = Load(kind, p)[job[w]]
    BY <1>4
  <2> QED
    BY <2>1, LeftAt
<1>m. /\ pc'[w] \in {"idle", "finished"} => Left(kind, p)'[w] = 0
      /\ job' = job /\ pc'[w] \in {"charging", "posting"} => Left(kind, p)'[w] = b
      /\ job' = job /\ pc'[w] = "committing" => Left(kind, p)'[w] = IF kind = "charge" THEN Less(b) ELSE b
      /\ job' = job /\ pc'[w] = "retrying" => Left(kind, p)'[w] = IF kind = "post" THEN Less(b) ELSE b
  <2>1. b = Load(kind, p)[job[w]]
    BY <1>4
  <2>2. job' = job => b = Load(kind, p)[job'[w]]
    BY <2>1
  <2> QED
    BY <2>2, LeftAt
<1>8. CASE LoadNew(w) \/ LoadWebhook(w)
  <2>1. /\ pc[w] = "loading" /\ pc'[w] \in {"charging", "posting", "finished"} /\ job' = job
        /\ \A v \in Worker \ {w} : pc'[v] = pc[v] /\ job'[v] = job[v]
        /\ UNCHANGED <<queue, again, rows, status, charges, posts>>
    BY <1>1, <1>8 DEF LoadNew, LoadWebhook, brokerVars, rowVars, paymentVars, outsideVars
  <2>2. Left(kind, p)[w] = b /\ Left(kind, p)'[w] \in {0, b} /\ Spent(kind, p)' = Spent(kind, p)
    BY <1>l, <1>m, <2>1 DEF Spent
  <2>3. Spent(kind, p)' + Left(kind, p)'[w] + 0 <= Spent(kind, p) + Left(kind, p)[w]
    BY <1>2, <2>2
  <2> QED
    BY <1>2, <1>7, <2>1, <2>3, HandlerBudget
<1>9. CASE GatewayAnswers(w)
  <2>1. /\ pc[w] = "charging" /\ pc'[w] = "committing" /\ job' = job
        /\ \A v \in Worker \ {w} : pc'[v] = pc[v] /\ job'[v] = job[v]
        /\ UNCHANGED <<queue, again, rows, status, posts>>
        /\ charges' = Plus(charges, o, 1)
    BY <1>1, <1>4, <1>9 DEF GatewayAnswers, brokerVars, rowVars, paymentVars
  <2>2. /\ Left(kind, p)[w] = b
        /\ Left(kind, p)'[w] = IF kind = "charge" THEN Less(b) ELSE b
    BY <1>l, <1>m, <2>1
  <2>3. Spent(kind, p)' = IF kind = "charge" /\ o = p THEN Spent(kind, p) + 1 ELSE Spent(kind, p)
    BY <1>1, <2>1 DEF Spent, Plus
  <2>4. Spent(kind, p)' + Left(kind, p)'[w] + 0 <= Spent(kind, p) + Left(kind, p)[w]
    <3>1. kind = "charge" /\ o = p => b = 1
      BY <1>4, <1>5, <2>1
    <3> QED
      BY <1>2, <1>6, <2>2, <2>3, <3>1
  <2> QED
    BY <1>2, <1>7, <2>1, <2>4, HandlerBudget
<1>10. CASE CommitProcessed(w)
  <2>1. /\ pc[w] = "committing" /\ pc'[w] = "finished" /\ job' = job
        /\ \A v \in Worker \ {w} : pc'[v] = pc[v] /\ job'[v] = job[v]
        /\ UNCHANGED <<queue, again, charges, posts>>
        /\ status' = [status EXCEPT ![o] = copy[w]]
        /\ rows' = rows \/ rows' = Plus(rows, Webhook(o, 0), 1)
    BY <1>1, <1>4, <1>10 DEF CommitProcessed, brokerVars, outsideVars
  <2>2. status'[p] = "absent" <=> status[p] = "absent"
    <3>1. copy[w] \in Terminal
      BY <2>1 DEF Core, HandlerInv
    <3>2. status[o] # "absent"
      BY <1>3, <1>4 DEF Core, MessageInv, Ready, P
    <3> QED
      BY <1>1, <2>1, <3>1, <3>2 DEF Terminal
  <2>3. /\ Left(kind, p)'[w] = 0 /\ Spent(kind, p)' = Spent(kind, p)
        /\ Left(kind, p)[w] = IF kind = "charge" THEN Less(b) ELSE b
    BY <1>l, <1>m, <2>1 DEF Spent
  <2>4. PICK hook \in Message, more \in Nat :
          /\ hook = Webhook(o, 0) /\ more = Weight(kind, p)[hook]
          /\ more = IF o = p /\ kind = "post" THEN MaxRetries ELSE 0
    <3>1. 0 \in 0..MaxRetries - 1 /\ MaxRetries - 0 = MaxRetries
      BY <1>1
    <3> QED
      BY <1>1, <3>1, WebhookWeight
  <2>5. n = 0
    BY <1>4, <1>5, <2>1
  <2>6. more <= Left(kind, p)[w] /\ Left(kind, p)[w] \in Nat
    BY <1>1, <1>4, <1>6, <2>3, <2>4, <2>5 DEF Kind
  <2>7. CASE rows' = rows
    <3>1. Spent(kind, p)' + Left(kind, p)'[w] + 0 <= Spent(kind, p) + Left(kind, p)[w]
      BY <1>2, <2>3, <2>6
    <3> QED
      BY <1>2, <2>1, <2>2, <2>4, <2>7, <3>1, HandlerBudget
  <2>8. CASE rows' = Plus(rows, hook, 1)
    <3>1. Spent(kind, p)' + Left(kind, p)'[w] + more <= Spent(kind, p) + Left(kind, p)[w]
      BY <1>2, <2>3, <2>6
    <3> QED
      BY <1>2, <2>1, <2>2, <2>4, <2>8, <3>1, HandlerBudget
  <2> QED
    BY <2>1, <2>4, <2>7, <2>8
<1>11. CASE PostSucceeds(w) \/ PostFails(w)
  <2>1. /\ pc[w] = "posting" /\ pc'[w] \in {"finished", "retrying"} /\ job' = job
        /\ \A v \in Worker \ {w} : pc'[v] = pc[v] /\ job'[v] = job[v]
        /\ UNCHANGED <<queue, again, rows, status, charges>>
        /\ posts' = Plus(posts, o, 1)
    BY <1>1, <1>4, <1>11 DEF PostSucceeds, PostFails, brokerVars, rowVars, paymentVars
  <2>2. /\ Left(kind, p)[w] = b
        /\ Left(kind, p)'[w] = 0 \/ Left(kind, p)'[w] = IF kind = "post" THEN Less(b) ELSE b
    BY <1>l, <1>m, <2>1
  <2>3. Spent(kind, p)' = IF kind = "post" /\ o = p THEN Spent(kind, p) + 1 ELSE Spent(kind, p)
    BY <1>1, <2>1 DEF Spent, Plus, Kind
  <2>4. Spent(kind, p)' + Left(kind, p)'[w] + 0 <= Spent(kind, p) + Left(kind, p)[w]
    <3>1. kind = "post" /\ o = p => b = MaxRetries - n /\ b # 0
      BY <1>1, <1>4
    <3> QED
      BY <1>2, <1>6, <2>2, <2>3, <3>1
  <2> QED
    BY <1>2, <1>7, <2>1, <2>4, HandlerBudget
<1>12. CASE CommitRetry(w)
  <2>1. /\ pc[w] = "retrying" /\ pc'[w] = "finished" /\ job' = job
        /\ \A v \in Worker \ {w} : pc'[v] = pc[v] /\ job'[v] = job[v]
        /\ UNCHANGED <<queue, again, status, charges, posts>>
        /\ rows' = rows \/ (n + 1 < MaxRetries /\ rows' = Plus(rows, Webhook(o, n + 1), 1))
    BY <1>1, <1>4, <1>12 DEF CommitRetry, brokerVars, paymentVars, outsideVars
  <2>2. /\ Left(kind, p)'[w] = 0 /\ Spent(kind, p)' = Spent(kind, p)
        /\ Left(kind, p)[w] = IF kind = "post" THEN Less(b) ELSE b
        /\ Left(kind, p)[w] \in Nat
    BY <1>6, <1>l, <1>m, <2>1 DEF Spent
  <2>3. CASE rows' = rows
    <3>1. Spent(kind, p)' + Left(kind, p)'[w] + 0 <= Spent(kind, p) + Left(kind, p)[w]
      BY <1>2, <2>2
    <3> QED
      BY <1>2, <1>7, <2>1, <2>3, <3>1, HandlerBudget
  <2>4. CASE n + 1 < MaxRetries /\ rows' = Plus(rows, Webhook(o, n + 1), 1)
    <3>1. n + 1 \in 0..MaxRetries - 1
      BY <1>1, <2>4
    <3>2. PICK hook \in Message, more \in Nat :
            /\ hook = Webhook(o, n + 1) /\ more = Weight(kind, p)[hook]
            /\ more = IF o = p /\ kind = "post" THEN MaxRetries - (n + 1) ELSE 0
      BY <1>1, <3>1, WebhookWeight
    <3>3. more <= Left(kind, p)[w]
      BY <1>1, <1>4, <1>6, <2>2, <3>2
    <3>4. Spent(kind, p)' + Left(kind, p)'[w] + more <= Spent(kind, p) + Left(kind, p)[w]
      BY <1>2, <2>2, <3>2, <3>3
    <3> QED
      BY <1>2, <2>1, <2>4, <3>2, <3>4, HandlerBudget
  <2> QED
    BY <2>1, <2>3, <2>4
<1>13. CASE Ack(w)
  <2>1. /\ pc[w] = "finished" /\ pc'[w] = "idle"
        /\ \A v \in Worker \ {w} : pc'[v] = pc[v] /\ job'[v] = job[v]
        /\ UNCHANGED <<queue, again, rows, status, charges, posts>>
    BY <1>1, <1>13 DEF Ack, Idle, brokerVars, rowVars, paymentVars, outsideVars
  <2>2. Left(kind, p)[w] = 0 /\ Left(kind, p)'[w] = 0 /\ Spent(kind, p)' = Spent(kind, p)
    BY <1>l, <1>m, <2>1 DEF Spent
  <2>3. Spent(kind, p)' + Left(kind, p)'[w] + 0 <= Spent(kind, p) + Left(kind, p)[w]
    BY <1>2, <2>2
  <2> QED
    BY <1>2, <1>7, <2>1, <2>3, HandlerBudget
<1> QED
  BY <1>8, <1>9, <1>10, <1>11, <1>12, <1>13 DEF Handle

\* A step that leaves messages, handlers and calls alone.
LEMMA BudgetStutters ==
  ASSUME EffectInv, UNCHANGED <<paymentVars, rowVars, brokerVars, workerVars, outsideVars, again>>
  PROVE  EffectInv'
<1> SUFFICES ASSUME NEW p \in Payment, NEW kind \in Kind
             PROVE  WithinBudget(kind, p)'
  BY DEF EffectInv
<1>1. WithinBudget(kind, p)
  BY DEF EffectInv
<1>2. UNCHANGED <<status, rows, queue, pc, job, charges, posts, again>>
  BY DEF paymentVars, rowVars, brokerVars, workerVars, outsideVars
<1>3. /\ InRows(kind, p)' = InRows(kind, p) /\ InQueue(kind, p)' = InQueue(kind, p)
      /\ InHand(kind, p)' = InHand(kind, p)
      /\ Spent(kind, p)' = Spent(kind, p) /\ Unborn(kind, p)' = Unborn(kind, p)
  BY <1>2 DEF InRows, InQueue, InHand, Left, Spent, Unborn, Full, One
<1> QED
  BY <1>1, <1>2, <1>3 DEF WithinBudget, Full

-----------------------------------------------------------------------------
(* The theorem.                                                            *)

\* Before its creation a payment's whole budget is unborn.
LEMMA EffectsInitially == Init => EffectInv
<1> SUFFICES ASSUME Init, NEW p \in Payment, NEW kind \in Kind
             PROVE  WithinBudget(kind, p)
  BY DEF EffectInv
<1>1. Full(kind) \in Nat
  BY Weights
<1>2. IsFiniteSet(InRows(kind, p)) /\ Cardinality(InRows(kind, p)) = 0
  BY NoTickets DEF Init, InRows
<1>3. IsFiniteSet(InQueue(kind, p)) /\ Cardinality(InQueue(kind, p)) = 0
  BY NoTickets DEF Init, InQueue
<1>4. IsFiniteSet(InHand(kind, p)) /\ Cardinality(InHand(kind, p)) = 0
  <2>1. \A w \in Worker : Left(kind, p)[w] = 0
    BY DEF Init, Left
  <2> QED
    BY <2>1, NoTickets DEF InHand
<1>5. Spent(kind, p) = 0 /\ Unborn(kind, p) = Full(kind) /\ again = 0
  BY DEF Init, Spent, Unborn
<1>6. Full(kind) * (1 + 0) = Full(kind)
  BY <1>1
<1> QED
  BY <1>1, <1>2, <1>3, <1>4, <1>5, <1>6 DEF WithinBudget

\* Every step keeps the budget of every payment.
LEMMA EffectsStep ==
  ASSUME Core, EffectInv, [Next]_vars
  PROVE  EffectInv'
<1>1. Core'
  BY ConsumerStep
<1>2. CASE UNCHANGED vars
  BY <1>2, BudgetStutters DEF vars
<1>3. ASSUME NEW p \in Payment, NEW kind \in Kind, ~ UNCHANGED vars
      PROVE  WithinBudget(kind, p)'
  <2>1. WithinBudget(kind, p)
    BY DEF EffectInv
  <2>2. ASSUME NEW o \in Payment, Create(o)
        PROVE  WithinBudget(kind, p)'
    BY <1>1, <2>1, <2>2, CreateBudget
  <2>3. ASSUME NEW m \in Message, Publish(m) \/ PublishCopy(m) \/ GiveUp(m)
        PROVE  WithinBudget(kind, p)'
    <3>1. /\ rows[m] > 0 /\ UNCHANGED <<paymentVars, workerVars, outsideVars>>
          /\ \/ rows' = [rows EXCEPT ![m] = @ - 1] /\ again' = again
             \/ rows' = rows /\ again' = again + 1
          /\ \/ queue' = Plus(queue, [msg |-> m, returns |-> 0], 1)
             \/ queue' = queue
      BY <2>3 DEF Publish, PublishCopy, GiveUp, rowVars, brokerVars
    <3> QED
      BY <1>1, <2>1, <3>1, RelayBudget
  <2>4. ASSUME NEW w \in Worker, NEW d \in Delivery, Deliver(w, d)
        PROVE  WithinBudget(kind, p)'
    BY <1>1, <2>1, <2>4, DeliverBudget
  <2>5. ASSUME NEW w \in Worker, Handle(w)
        PROVE  WithinBudget(kind, p)'
    BY <1>1, <2>1, <2>5, HandlerEffects
  <2>6. ASSUME NEW w \in Worker, Raise(w) \/ PoolTimeout(w)
        PROVE  WithinBudget(kind, p)'
    <3>1. GiveBack({w}) /\ Idle({w}) /\ UNCHANGED <<paymentVars, rowVars, outsideVars>>
      BY <2>6 DEF Raise, PoolTimeout
    <3> QED
      BY <1>1, <2>1, <3>1, GiveBackBudget
  <2>7. CASE ConnectionLost \/ Crash
    <3>1. /\ GiveBack(Worker) /\ UNCHANGED <<paymentVars, rowVars, outsideVars>>
          /\ UNCHANGED <<pc, job, copy>> \/ Idle(Worker)
      BY <2>7 DEF ConnectionLost, Crash
    <3> QED
      BY <1>1, <2>1, <3>1, GiveBackBudget
  <2> QED
    BY <1>3, <2>2, <2>3, <2>4, <2>5, <2>6, <2>7 DEF Next
<1> QED
  BY <1>2, <1>3 DEF EffectInv

\* The budget is a bound on the calls that have been made.
LEMMA BudgetBounds ==
  ASSUME Core, EffectInv
  PROVE  EffectsAreCounted
<1> SUFFICES ASSUME NEW p \in Payment
             PROVE  charges[p] <= 1 + again /\ posts[p] <= MaxRetries * (1 + again)
  BY DEF EffectsAreCounted
<1>1. ASSUME NEW kind \in Kind
      PROVE  Spent(kind, p) <= Full(kind) * (1 + again)
  <2>1. WithinBudget(kind, p)
    BY DEF EffectInv
  <2>2. PICK r \in Nat, q \in Nat, k \in Nat :
          /\ r = Cardinality(InRows(kind, p)) /\ q = Cardinality(InQueue(kind, p))
          /\ k = Cardinality(InHand(kind, p))
    BY <2>1, FS_CardinalityType DEF WithinBudget
  <2>3. Full(kind) \in Nat /\ again \in Nat
    BY Weights DEF Core, ConsumerTypeOK
  <2>4. Spent(kind, p) \in Nat /\ Unborn(kind, p) \in Nat /\ Full(kind) * (1 + again) \in Nat
    BY <2>3, BudgetGrows DEF Core, ConsumerTypeOK, Spent, Unborn
  <2>5. PICK s \in Nat, u \in Nat, bound \in Nat :
          s = Spent(kind, p) /\ u = Unborn(kind, p) /\ bound = Full(kind) * (1 + again)
    BY <2>4
  <2>6. s + u + r + q + k <= bound
    BY <2>1, <2>2, <2>5 DEF WithinBudget
  <2>7. s <= bound
    BY <2>6
  <2> QED
    BY <2>5, <2>7
<1>2. "charge" \in Kind /\ "post" \in Kind
  BY DEF Kind
<1>3. charges[p] <= 1 * (1 + again)
  BY <1>1, <1>2 DEF Spent, Full
<1>4. posts[p] <= MaxRetries * (1 + again)
  BY <1>1, <1>2 DEF Spent, Full
<1>5. again \in Nat
  BY DEF Core, ConsumerTypeOK
<1> QED
  BY <1>3, <1>4, <1>5

\* The gateway is called at most once for a payment, and the merchant at
\* most MaxRetries times, plus as often again for every message that was
\* returned or published twice: retries, raises, kills and the pool's
\* timeouts add nothing of their own.
THEOREM CallsAreCounted == Spec => []EffectsAreCounted
<1>1. ConsumerInv /\ EffectInv /\ [Next]_vars => EffectInv'
  BY EffectsStep DEF ConsumerInv
<1>2. ConsumerInv /\ EffectInv => EffectsAreCounted
  BY BudgetBounds DEF ConsumerInv
<1> QED
  BY <1>1, <1>2, EffectsInitially, ConsumerInvariant, PTL DEF Spec
=============================================================================
