----------------------- MODULE QuotesourceServerProofs -----------------------
(***************************************************************************)
(* What the quote stream promises for any number of clients, tickers, ticks *)
(* and messages, and any width of the credit counter.  The counter of an    *)
(* entry is what its peer has granted and not used, wrapped to the values   *)
(* of an int; a packet is only paid for while it is positive, so the counter *)
(* may lose what was paid for but never make up a packet that was not.      *)
(***************************************************************************)
EXTENDS QuotesourceServer, SequenceTheorems, FiniteSetTheorems, TLAPS

\* The counter of an entry, wrapped as it may be, counts what is outstanding.
Balance == \A i \in DOMAIN clients : clients[i].credits = Wrap(Outstanding(clients[i].peer))

\* The ticks in the pipe are in order, and come after all that was delivered.
Ordered ==
  /\ \A i \in DOMAIN pipe : pipe[i].serial <= serial
  /\ \A i, j \in DOMAIN pipe : i < j => pipe[i].serial < pipe[j].serial
  /\ \A p \in Peers : \A k \in DOMAIN delivered[p] :
       /\ delivered[p][k] <= serial
       /\ \A i \in DOMAIN pipe : delivered[p][k] < pipe[i].serial

IInv == TypeOK /\ OneEntry /\ NoOverdraft /\ Balance /\ Ordered /\ InOrder

----------------------------------------------------------------------------
(* The arithmetic of m_credits. *)

\* Division with remainder is unique.
LEMMA Remainder ==
  ASSUME NEW m \in Nat \ {0}, NEW q \in Int, NEW p \in Int,
         NEW r \in 0 .. m - 1, NEW s \in 0 .. m - 1, q * m + r = p * m + s
  PROVE  r = s
<1>1. (q - p) * m = s - r
  OBVIOUS
<1>2. CASE q - p >= 1
  <2>1. (q - p) * m >= m
    BY <1>2
  <2>. QED
    BY <1>1, <2>1
<1>3. CASE q - p <= -1
  <2>1. (q - p) * m <= -m
    BY <1>3
  <2>. QED
    BY <1>1, <2>1
<1>4. CASE q = p
  BY <1>1, <1>4
<1>. QED
  BY <1>2, <1>3, <1>4

\* Wrap takes x to the values of the counter, by a multiple of Modulus.
LEMMA Wrapped ==
  ASSUME NEW x \in Int
  PROVE  /\ Wrap(x) \in (-Half) .. (Half - 1)
         /\ \E k \in Int : x = k * Modulus + Wrap(x)
<1> DEFINE m == x % Modulus
           d == x \div Modulus
<1>1. Modulus \in Nat \ {0} /\ Modulus = 2 * Half /\ Half \in Nat \ {0}
  BY QuotesourceServerAssumption DEF Modulus
<1>2. x = d * Modulus + m /\ m \in 0 .. Modulus - 1 /\ d \in Int
  BY <1>1
<1>3. Wrap(x) = IF m >= Half THEN m - Modulus ELSE m
  BY DEF Wrap
<1> HIDE DEF m, d
<1>4. CASE m >= Half
  <2>1. x = (d + 1) * Modulus + Wrap(x) /\ d + 1 \in Int
    BY <1>1, <1>2, <1>3, <1>4
  <2>2. Wrap(x) \in (-Half) .. (Half - 1)
    BY <1>1, <1>2, <1>3, <1>4
  <2>. QED
    BY <2>1, <2>2
<1>5. CASE m < Half
  BY <1>1, <1>2, <1>3, <1>5
<1>. QED
  BY <1>1, <1>2, <1>4, <1>5

\* It is the only value of the counter that is so.
LEMMA WrapUnique ==
  ASSUME NEW y \in (-Half) .. (Half - 1), NEW k \in Int
  PROVE  Wrap(k * Modulus + y) = y
<1> DEFINE x == k * Modulus + y
           m == x % Modulus
           d == x \div Modulus
<1>1. Modulus \in Nat \ {0} /\ Modulus = 2 * Half /\ Half \in Nat \ {0} /\ x \in Int
  BY QuotesourceServerAssumption DEF Modulus
<1>2. x = d * Modulus + m /\ m \in 0 .. Modulus - 1 /\ d \in Int
  BY <1>1
<1>3. Wrap(x) = IF m >= Half THEN m - Modulus ELSE m
  BY DEF Wrap
<1>4. x = k * Modulus + y
  OBVIOUS
<1> HIDE DEF m, d, x
<1>5. CASE y >= 0
  <2>1. y \in 0 .. Modulus - 1 /\ k * Modulus + y = d * Modulus + m
    BY <1>1, <1>2, <1>4, <1>5
  <2>2. m = y
    BY <1>1, <1>2, <2>1, Remainder
  <2>. QED
    BY <1>1, <1>3, <2>2 DEF x
<1>6. CASE y < 0
  <2>1. y + Modulus \in 0 .. Modulus - 1 /\ k - 1 \in Int
    BY <1>1, <1>6
  <2>2. (k - 1) * Modulus + (y + Modulus) = d * Modulus + m
    BY <1>1, <1>2, <1>4
  <2> DEFINE z == y + Modulus
             j == k - 1
  <2> HIDE DEF z, j
  <2>3. m = z
    <3>1. z \in 0 .. Modulus - 1 /\ j \in Int /\ j * Modulus + z = d * Modulus + m
      BY <2>1, <2>2 DEF z, j
    <3>. QED
      BY <1>1, <1>2, <3>1, Remainder
  <2>. QED
    BY <1>1, <1>3, <1>6, <2>3 DEF x, z
<1>. QED
  BY <1>5, <1>6

\* Wrapping early or late is the same: a sum of grants, and a payment, which is
\* made only while the counter is positive.
LEMMA WrapFacts ==
  /\ Wrap(0) = 0
  /\ \A x \in Int : Wrap(Wrap(x)) = Wrap(x)
  /\ \A x \in Int, n \in Int : Wrap(Wrap(x) + n) = Wrap(x + n)
  /\ \A x \in Int : Wrap(x) > 0 => Wrap(x - 1) = Wrap(x) - 1
  /\ \A x \in 1 .. Half - 1 : Wrap(x) = x
<1>1. Modulus \in Nat \ {0} /\ Modulus = 2 * Half /\ Half \in Nat \ {0}
  BY QuotesourceServerAssumption DEF Modulus
<1>2. \A y \in (-Half) .. (Half - 1) : Wrap(y) = y
  <2> TAKE y \in (-Half) .. (Half - 1)
  <2>1. 0 * Modulus + y = y
    BY <1>1
  <2>. QED
    BY <2>1, WrapUnique
<1>3. ASSUME NEW x \in Int, NEW n \in Int
      PROVE  Wrap(Wrap(x) + n) = Wrap(x + n)
  <2>1. PICK k \in Int : x = k * Modulus + Wrap(x)
    BY Wrapped
  <2>2. Wrap(x) \in Int
    BY <1>1, Wrapped
  <2>3. PICK j \in Int : x + n = j * Modulus + Wrap(x + n)
    BY Wrapped
  <2>4. Wrap(x + n) \in (-Half) .. (Half - 1)
    BY Wrapped
  <2>5. Wrap(x) + n = (j - k) * Modulus + Wrap(x + n)
    BY <1>1, <2>1, <2>2, <2>3, <2>4
  <2>. QED
    BY <2>4, <2>5, WrapUnique
<1>4. ASSUME NEW x \in Int, Wrap(x) > 0
      PROVE  Wrap(x - 1) = Wrap(x) - 1
  <2>1. Wrap(x) \in (-Half) .. (Half - 1)
    BY Wrapped
  <2>2. Wrap(x) - 1 \in (-Half) .. (Half - 1)
    BY <1>1, <1>4, <2>1
  <2>3. Wrap(x - 1) = Wrap(Wrap(x) - 1)
    <3>1. Wrap(Wrap(x) + (-1)) = Wrap(x + (-1))
      BY <1>3
    <3>. QED
      BY <1>1, <2>1, <3>1
  <2>. QED
    BY <1>2, <2>2, <2>3
<1>5. \A x \in Int : Wrap(Wrap(x)) = Wrap(x)
  BY <1>2, Wrapped
<1>. QED
  BY <1>1, <1>2, <1>3, <1>4, <1>5

----------------------------------------------------------------------------
(* The vector of clients. *)

LEMMA RemoveAtFacts ==
  ASSUME NEW S, NEW s \in Seq(S), NEW k \in 1 .. Len(s)
  PROVE  /\ RemoveAt(s, k) \in Seq(S)
         /\ Len(RemoveAt(s, k)) = Len(s) - 1
         /\ \A i \in 1 .. Len(s) - 1 :
              RemoveAt(s, k)[i] = s[IF i < k THEN i ELSE i + 1]
<1> DEFINE u == SubSeq(s, 1, k - 1)
           v == SubSeq(s, k + 1, Len(s))
<1>1. k \in Nat /\ Len(s) \in Nat /\ 1 <= k /\ k <= Len(s)
  BY LenProperties
<1>2. /\ u \in Seq(S) /\ Len(u) = k - 1
      /\ \A i \in 1 .. k - 1 : u[i] = s[i]
  <2>1. \A i \in 1 .. k - 1 : s[i] \in S
    BY <1>1, ElementOfSeq
  <2>2. /\ u \in Seq(S)
        /\ Len(u) = IF 1 <= k - 1 THEN (k - 1) - 1 + 1 ELSE 0
        /\ \A i \in 1 .. (k - 1) - 1 + 1 : u[i] = s[1 + i - 1]
    BY <1>1, <2>1, SubSeqProperties
  <2> HIDE DEF u
  <2>. QED
    BY <1>1, <2>2
<1>3. /\ v \in Seq(S) /\ Len(v) = Len(s) - k
      /\ \A i \in 1 .. Len(s) - k : v[i] = s[k + i]
  <2>1. \A i \in k + 1 .. Len(s) : s[i] \in S
    BY <1>1, ElementOfSeq
  <2>2. /\ v \in Seq(S)
        /\ Len(v) = IF k + 1 <= Len(s) THEN Len(s) - (k + 1) + 1 ELSE 0
        /\ \A i \in 1 .. Len(s) - (k + 1) + 1 : v[i] = s[(k + 1) + i - 1]
    BY <1>1, <2>1, SubSeqProperties
  <2> HIDE DEF v
  <2>3. Len(s) - (k + 1) + 1 = Len(s) - k
    BY <1>1
  <2>4. \A i \in 1 .. Len(s) - k : (k + 1) + i - 1 = k + i
    BY <1>1
  <2>5. \A i \in 1 .. Len(s) - k : v[i] = s[k + i]
    BY <2>2, <2>3, <2>4
  <2>6. Len(v) = Len(s) - k
    <3>1. Len(v) = IF k + 1 <= Len(s) THEN Len(s) - (k + 1) + 1 ELSE 0
      BY <2>2
    <3>. QED
      BY <1>1, <3>1
  <2>. QED
    BY <2>2, <2>5, <2>6
<1>4. RemoveAt(s, k) = u \o v
  BY DEF RemoveAt
<1> HIDE DEF u, v
<1>5. /\ u \o v \in Seq(S) /\ Len(u \o v) = Len(u) + Len(v)
      /\ \A i \in 1 .. Len(u) + Len(v) :
           (u \o v)[i] = IF i <= Len(u) THEN u[i] ELSE v[i - Len(u)]
  BY <1>2, <1>3, ConcatProperties
<1>6. ASSUME NEW i \in 1 .. Len(s) - 1
      PROVE  (u \o v)[i] = s[IF i < k THEN i ELSE i + 1]
  <2>1. CASE i < k
    BY <1>1, <1>2, <1>3, <1>5, <2>1
  <2>2. CASE ~(i < k)
    <3>1. i - Len(u) \in 1 .. Len(s) - k /\ k + (i - Len(u)) = i + 1
      BY <1>1, <1>2, <2>2
    <3>2. (u \o v)[i] = v[i - Len(u)]
      BY <1>1, <1>2, <1>3, <1>5, <2>2
    <3>3. v[i - Len(u)] = s[i + 1]
      BY <1>3, <3>1
    <3>. QED
      BY <1>1, <2>2, <3>2, <3>3
  <2>. QED
    BY <2>1, <2>2
<1>. QED
  BY <1>1, <1>2, <1>3, <1>4, <1>5, <1>6

\* getClient finds the only entry of a peer.
LEMMA FindFacts ==
  ASSUME clients \in Seq(Clients), NEW p,
         \A i, j \in DOMAIN clients : clients[i].peer = clients[j].peer => i = j
  PROVE  \/ Find(p) = 0 /\ \A i \in DOMAIN clients : clients[i].peer # p
         \/ /\ Find(p) # 0 /\ Find(p) \in DOMAIN clients /\ clients[Find(p)].peer = p
            /\ \A i \in DOMAIN clients : clients[i].peer = p => i = Find(p)
<1> DEFINE I == {i \in 1 .. Len(clients) : clients[i].peer = p}
<1>1. DOMAIN clients = 1 .. Len(clients) /\ Len(clients) \in Nat
  BY LenProperties
<1>2. Find(p) = IF I # {} THEN Min(I) ELSE 0
  BY DEF Find, SelectInSeq
<1>3. CASE I = {}
  BY <1>1, <1>2, <1>3
<1>4. CASE I # {}
  <2>1. PICK k \in 1 .. Len(clients) : clients[k].peer = p
    BY <1>4
  <2>2. I = {k}
    BY <1>1, <2>1
  <2> HIDE DEF I
  <2>3. Min(I) = k
    BY <2>1, <2>2 DEF Min
  <2>4. Find(p) = k
    BY <1>2, <1>4, <2>3
  <2>5. \A i \in DOMAIN clients : clients[i].peer = p => i = k
    BY <1>1, <2>1
  <2>. QED
    BY <1>1, <2>1, <2>4, <2>5
<1>. QED
  BY <1>3, <1>4

\* deleteClient takes out the peer's entry and leaves the others as they are.
LEMMA WithoutFacts ==
  ASSUME clients \in Seq(Clients), NEW p,
         \A i, j \in DOMAIN clients : clients[i].peer = clients[j].peer => i = j
  PROVE  LET w == Without(p)
         IN /\ w \in Seq(Clients)
            /\ \A i \in DOMAIN w : \E j \in DOMAIN clients :
                 w[i] = clients[j] /\ clients[j].peer # p
            /\ \A j \in DOMAIN clients : clients[j].peer # p =>
                 \E i \in DOMAIN w : w[i] = clients[j]
            /\ \A i, j \in DOMAIN w : w[i].peer = w[j].peer => i = j
<1> DEFINE k == Find(p)
           w == Without(p)
<1>1. DOMAIN clients = 1 .. Len(clients) /\ Len(clients) \in Nat
  BY LenProperties
<1>2. CASE k = 0
  BY <1>2, FindFacts DEF Without
<1>3. CASE k # 0
  <2>1. /\ k \in 1 .. Len(clients) /\ clients[k].peer = p
        /\ \A i \in DOMAIN clients : clients[i].peer = p => i = k
    BY <1>1, <1>3, FindFacts
  <2>2. w = RemoveAt(clients, k)
    BY <1>3 DEF Without
  <2> HIDE DEF w, k
  <2>3. /\ w \in Seq(Clients) /\ Len(w) = Len(clients) - 1
        /\ \A i \in 1 .. Len(clients) - 1 : w[i] = clients[IF i < k THEN i ELSE i + 1]
    BY <2>1, <2>2, RemoveAtFacts
  <2>4. DOMAIN w = 1 .. Len(clients) - 1
    BY <2>3, LenProperties
  <2>5. ASSUME NEW i \in DOMAIN w
        PROVE  \E j \in DOMAIN clients : w[i] = clients[j] /\ clients[j].peer # p
    <3>1. (IF i < k THEN i ELSE i + 1) \in DOMAIN clients \ {k}
      BY <1>1, <2>1, <2>4
    <3>. QED
      BY <2>1, <2>3, <2>4, <3>1
  <2>6. ASSUME NEW j \in DOMAIN clients, clients[j].peer # p
        PROVE  \E i \in DOMAIN w : w[i] = clients[j]
    <3>1. j # k /\ (IF j < k THEN j ELSE j - 1) \in DOMAIN w
      BY <1>1, <2>1, <2>4, <2>6
    <3>2. w[IF j < k THEN j ELSE j - 1] = clients[j]
      BY <1>1, <2>1, <2>3, <2>4, <3>1
    <3>. QED
      BY <3>1, <3>2
  <2>7. ASSUME NEW i \in DOMAIN w, NEW j \in DOMAIN w, w[i].peer = w[j].peer
        PROVE  i = j
    <3>1. /\ (IF i < k THEN i ELSE i + 1) \in DOMAIN clients
          /\ (IF j < k THEN j ELSE j + 1) \in DOMAIN clients
      BY <1>1, <2>1, <2>4
    <3>2. (IF i < k THEN i ELSE i + 1) = (IF j < k THEN j ELSE j + 1)
      BY <2>3, <2>4, <2>7, <3>1
    <3>. QED
      BY <1>1, <2>1, <2>4, <3>2
  <2>. QED
    BY <2>3, <2>5, <2>6, <2>7 DEF w
<1>. QED
  BY <1>2, <1>3

\* A peer gets a tick once, if its entry accepts the stream and has credit.
LEMMA CopiesFacts ==
  ASSUME clients \in Seq(Clients), NEW p, NEW s,
         \A i, j \in DOMAIN clients : clients[i].peer = clients[j].peer => i = j
  PROVE  \/ /\ Copies(p, s) = 1
            /\ \E i \in DOMAIN clients : clients[i].peer = p /\ Eligible(clients[i], s)
         \/ /\ Copies(p, s) = 0
            /\ \A i \in DOMAIN clients : clients[i].peer = p => ~Eligible(clients[i], s)
<1> DEFINE I == {i \in DOMAIN clients : clients[i].peer = p /\ Eligible(clients[i], s)}
<1>1. Copies(p, s) = Cardinality(I)
  BY DEF Copies
<1>2. CASE I = {}
  <2>1. Cardinality(I) = 0
    BY <1>2, FS_EmptySet
  <2>. QED
    BY <1>1, <1>2, <2>1
<1>3. CASE I # {}
  <2>1. PICK k : k \in I
    BY <1>3
  <2>2. I = {k}
    BY <2>1
  <2>3. Cardinality(I) = 1
    BY <2>2, FS_Singleton
  <2>. QED
    BY <1>1, <2>1, <2>3
<1>. QED
  BY <1>2, <1>3

----------------------------------------------------------------------------
(* The clients, the main thread, and the turns that leave the entries alone. *)

LEMMA MessageFields ==
  \A m \in Messages : /\ m.type = "start" => m.sel \in SUBSET Selectors /\ m.sel # None
                      /\ m.type = "credit" => m.n \in Nat
BY QuotesourceServerAssumption DEF MessageKinds

\* What of the invariant a step cannot disturb that moves nothing but messages.
LEMMA MessagesOnly ==
  ASSUME IInv, UNCHANGED <<clients, pipe, serial, subscription, granted, used, delivered>>
  PROVE  OneEntry' /\ NoOverdraft' /\ Balance' /\ Ordered' /\ InOrder'
BY DEF IInv, OneEntry, AsksFor, NoOverdraft, Balance, Outstanding, Ordered, InOrder

LEMMA ClientSendStep ==
  ASSUME IInv, NEW p \in Peers, NEW m \in Messages, ClientSend(p, m)
  PROVE  IInv'
<1>1. /\ UNCHANGED <<clients, pipe, pc, serial, subscription, granted, used, answers,
                     delivered>>
      /\ sends' = sends + 1 /\ sends < MaxSends
      /\ inbox' = [inbox EXCEPT ![p] = Append(@, m)]
  BY DEF ClientSend, historyVars
<1>2. inbox' \in [Peers -> Seq(Messages)] /\ inbox'[p] # <<>>
  <2>1. inbox[p] \in Seq(Messages)
    BY DEF IInv, TypeOK
  <2>2. Append(inbox[p], m) \in Seq(Messages) /\ Append(inbox[p], m) # <<>>
    BY <2>1, AppendProperties
  <2>. QED
    BY <1>1, <2>2 DEF IInv, TypeOK
<1>3. TypeOK'
  BY <1>1, <1>2, QuotesourceServerAssumption DEF IInv, TypeOK
<1>. QED
  BY <1>1, <1>3, MessagesOnly DEF IInv

\* DataSink pushes a tick that is later than any other.
LEMMA IncomingTickStep ==
  ASSUME IInv, NEW s \in Streams, IncomingTick(s)
  PROVE  IInv'
<1> DEFINE t == [serial |-> serial + 1, stream |-> s]
<1>1. /\ UNCHANGED <<clients, inbox, pc, sends, subscription, granted, used, answers,
                     delivered>>
      /\ serial' = serial + 1 /\ serial < MaxTicks
      /\ pipe' = Append(pipe, t)
  BY DEF IncomingTick, historyVars
<1>2. /\ pipe \in Seq(Ticks) /\ serial \in Nat /\ t \in Ticks
      /\ \A p \in Peers : \A k \in DOMAIN delivered[p] : delivered[p][k] \in Nat
  BY DEF IInv, TypeOK, Ticks
<1>3. t.serial = serial + 1
  OBVIOUS
<1> HIDE DEF t
<1>4. /\ pipe' \in Seq(Ticks) /\ pipe' # <<>>
      /\ \A i \in DOMAIN pipe' :
           \/ i \in DOMAIN pipe /\ pipe'[i] = pipe[i]
           \/ i = Len(pipe) + 1 /\ pipe'[i] = t
  BY <1>1, <1>2
<1>5. \A i \in DOMAIN pipe : i \in Nat /\ i <= Len(pipe) /\ Len(pipe) \in Nat
  BY <1>2
<1>6. TypeOK'
  BY <1>1, <1>4, QuotesourceServerAssumption DEF IInv, TypeOK
<1>7. OneEntry' /\ NoOverdraft' /\ Balance' /\ InOrder'
  <2>1. OneEntry'
    BY <1>1 DEF IInv, OneEntry, AsksFor
  <2>2. NoOverdraft' /\ InOrder'
    BY <1>1 DEF IInv, NoOverdraft, InOrder
  <2>3. Balance'
    BY <1>1 DEF IInv, Balance, Outstanding
  <2>. QED
    BY <2>1, <2>2, <2>3
<1>8. \A i \in DOMAIN pipe : pipe[i].serial \in Nat
  <2> TAKE i \in DOMAIN pipe
  <2>1. pipe[i] \in Ticks
    BY <1>2
  <2>. QED
    BY <2>1 DEF Ticks
<1>9. ASSUME NEW i \in DOMAIN pipe', NEW j \in DOMAIN pipe', i < j
      PROVE  pipe'[i].serial < pipe'[j].serial
  <2>1. i \in DOMAIN pipe /\ pipe'[i] = pipe[i]
    BY <1>2, <1>4, <1>5, <1>9
  <2>2. CASE j \in DOMAIN pipe /\ pipe'[j] = pipe[j]
    BY <1>9, <2>1, <2>2 DEF IInv, Ordered
  <2>3. CASE pipe'[j] = t
    <3>1. pipe[i].serial <= serial /\ pipe[i].serial \in Nat /\ serial \in Nat
      BY <1>2, <1>8, <2>1 DEF IInv, Ordered
    <3>. QED
      BY <1>3, <2>1, <2>3, <3>1
  <2>. QED
    BY <1>4, <2>2, <2>3
<1>10. Ordered'
  BY <1>1, <1>2, <1>3, <1>4, <1>8, <1>9 DEF IInv, Ordered
<1>. QED
  BY <1>6, <1>7, <1>10 DEF IInv

LEMMA PollStep ==
  ASSUME IInv, Poll
  PROVE  IInv'
<1>1. /\ UNCHANGED <<clients, inbox, pipe, sends, serial, subscription, granted, used,
                     answers, delivered>>
      /\ pc' = IF \E p \in Peers : inbox[p] # <<>> THEN "control"
               ELSE IF pipe # <<>> THEN "pipe" ELSE "poll"
  BY DEF Poll, historyVars
<1>2. TypeOK'
  BY <1>1 DEF IInv, TypeOK
<1>. QED
  BY <1>1, <1>2, MessagesOnly DEF IInv

\* A turn that takes a message.
LEMMA Received ==
  ASSUME TypeOK, NEW p \in Peers, NEW type, Receive(p, type)
  PROVE  /\ pc = "control" /\ pc' = "poll"
         /\ UNCHANGED <<pipe, sends, serial>>
         /\ Head(inbox[p]) \in Messages /\ Head(inbox[p]).type = type
         /\ inbox' \in [Peers -> Seq(Messages)]
<1>1. inbox[p] \in Seq(Messages) /\ inbox[p] # <<>>
  BY DEF TypeOK, Receive
<1>2. Head(inbox[p]) \in Messages /\ Tail(inbox[p]) \in Seq(Messages)
  BY <1>1
<1>. QED
  BY <1>2 DEF TypeOK, Receive

LEMMA HandleOtherStep ==
  ASSUME IInv, NEW p \in Peers, HandleJunk(p) \/ HandleCommand(p)
  PROVE  IInv'
<1>1. /\ UNCHANGED <<clients, pipe, sends, serial, subscription, granted, used, delivered>>
      /\ pc' = "poll" /\ inbox' \in [Peers -> Seq(Messages)]
      /\ answers' = answers \/ answers' = [answers EXCEPT ![p] = @ + 1]
  BY Received DEF IInv, HandleJunk, HandleCommand, Respond, historyVars
<1>2. answers' \in [Peers -> Nat]
  <2>1. answers \in [Peers -> Nat] /\ answers[p] + 1 \in Nat
    BY DEF IInv, TypeOK
  <2>. QED
    BY <1>1, <2>1
<1>3. TypeOK'
  BY <1>1, <1>2 DEF IInv, TypeOK
<1>. QED
  BY <1>1, <1>3, MessagesOnly DEF IInv

----------------------------------------------------------------------------
(* Subscribing. *)

\* A selector that does not throw stands for streams, those AsksFor speaks of.
LEMMA MatchedFacts ==
  ASSUME NEW x \in Selectors, ~Throws(x)
  PROVE  /\ Matched(x) \subseteq Streams
         /\ \A s \in Streams : s \in Matched(x) <=>
              x.ticker = s[1] /\ (s[2] \in x.ids \/ (x.ids = {} /\ s[2] = Price))
<1>1. x.ticker \in Tickers /\ x.ids \subseteq Datatypes \cup {None} /\ None \notin x.ids
  BY DEF Selectors, Throws
<1>2. x.ids \subseteq Datatypes /\ {Price} \subseteq Datatypes
  BY <1>1, QuotesourceServerAssumption
<1> DEFINE d == IF x.ids = {} THEN {Price} ELSE x.ids
<1>3. d \subseteq Datatypes
  BY <1>2
<1>4. Matched(x) = {x.ticker} \X d
  BY DEF Matched
<1> HIDE DEF d
<1>5. Matched(x) \subseteq Streams
  BY <1>1, <1>3, <1>4 DEF Streams
<1>6. \A s \in Streams : s \in Matched(x) <=> s[1] = x.ticker /\ s[2] \in d
  BY <1>4 DEF Streams
<1>. QED
  BY <1>5, <1>6 DEF d

\* What a start does to the vector, its selectors accepted or not.
LEMMA StartFacts ==
  ASSUME IInv, NEW p \in Peers, HandleStart(p)
  PROVE  /\ pc' = "poll" /\ inbox' \in [Peers -> Seq(Messages)]
         /\ UNCHANGED <<pipe, sends, serial, delivered>>
         /\ granted' = [granted EXCEPT ![p] = 0] /\ used' = [used EXCEPT ![p] = 0]
         /\ answers' \in [Peers -> Nat]
         /\ \E sel \in SUBSET Selectors :
              \/ /\ \A x \in sel : ~Throws(x)
                 /\ sel # None
                 /\ clients' = Append(Without(p),
                      [peer |-> p, streams |-> UNION {Matched(x) : x \in sel}, credits |-> 0])
                 /\ subscription' = [subscription EXCEPT ![p] = sel]
              \/ /\ clients' = Without(p)
                 /\ subscription' = [subscription EXCEPT ![p] = None]
<1> DEFINE sel == Head(inbox[p]).sel
<1>1. Receive(p, "start") /\ TypeOK
  BY DEF HandleStart, IInv
<1>2. /\ pc' = "poll" /\ inbox' \in [Peers -> Seq(Messages)]
      /\ UNCHANGED <<pipe, sends, serial>>
      /\ Head(inbox[p]) \in Messages /\ Head(inbox[p]).type = "start"
  BY <1>1, Received
<1>3. sel \in SUBSET Selectors /\ sel # None
  BY <1>2, MessageFields
<1>4. /\ granted' = [granted EXCEPT ![p] = 0] /\ used' = [used EXCEPT ![p] = 0]
      /\ UNCHANGED delivered
  BY DEF HandleStart
<1>5. \/ /\ \A x \in sel : ~Throws(x)
         /\ clients' = Append(Without(p),
              [peer |-> p, streams |-> UNION {Matched(x) : x \in sel}, credits |-> 0])
         /\ subscription' = [subscription EXCEPT ![p] = sel]
      \/ /\ clients' = Without(p)
         /\ subscription' = [subscription EXCEPT ![p] = None]
  BY DEF HandleStart
<1>6. answers' \in [Peers -> Nat]
  <2>1. answers \in [Peers -> Nat] /\ answers[p] + 1 \in Nat
    BY <1>1 DEF TypeOK
  <2>2. answers' = answers \/ answers' = [answers EXCEPT ![p] = @ + 1]
    BY DEF HandleStart, Respond
  <2>. QED
    BY <2>1, <2>2
<1> HIDE DEF sel
<1>. QED
  BY <1>2, <1>3, <1>4, <1>5, <1>6

LEMMA HandleStartStep ==
  ASSUME IInv, NEW p \in Peers, HandleStart(p)
  PROVE  IInv'
<1> DEFINE w == Without(p)
<1>1. /\ pc' = "poll" /\ inbox' \in [Peers -> Seq(Messages)]
      /\ UNCHANGED <<pipe, sends, serial, delivered>>
      /\ granted' = [granted EXCEPT ![p] = 0] /\ used' = [used EXCEPT ![p] = 0]
      /\ answers' \in [Peers -> Nat]
  BY StartFacts
<1>2. PICK sel \in SUBSET Selectors :
        \/ /\ \A x \in sel : ~Throws(x)
           /\ sel # None
           /\ clients' = Append(w,
                [peer |-> p, streams |-> UNION {Matched(x) : x \in sel}, credits |-> 0])
           /\ subscription' = [subscription EXCEPT ![p] = sel]
        \/ /\ clients' = w
           /\ subscription' = [subscription EXCEPT ![p] = None]
  BY StartFacts
<1>3. /\ w \in Seq(Clients)
      /\ \A i \in DOMAIN w : \E j \in DOMAIN clients :
           w[i] = clients[j] /\ clients[j].peer # p
      /\ \A j \in DOMAIN clients : clients[j].peer # p =>
           \E i \in DOMAIN w : w[i] = clients[j]
      /\ \A i, j \in DOMAIN w : w[i].peer = w[j].peer => i = j
  BY WithoutFacts DEF IInv, TypeOK, OneEntry
<1>4. /\ \A q \in Peers : /\ granted'[q] = IF q = p THEN 0 ELSE granted[q]
                          /\ used'[q] = IF q = p THEN 0 ELSE used[q]
      /\ granted' \in [Peers -> Nat] /\ used' \in [Peers -> Nat]
  BY <1>1 DEF IInv, TypeOK
<1> DEFINE streams == UNION {Matched(x) : x \in sel}
           e == [peer |-> p, streams |-> streams, credits |-> 0]
<1>5. e.peer = p /\ e.streams = streams /\ e.credits = 0
  OBVIOUS
<1>6. ASSUME \A x \in sel : ~Throws(x)
      PROVE  /\ e \in Clients
             /\ \A s \in Streams : s \in streams <=>
                  \E x \in sel : x.ticker = s[1]
                                 /\ (s[2] \in x.ids \/ (x.ids = {} /\ s[2] = Price))
  <2>1. \A x \in sel : x \in Selectors /\ Matched(x) \subseteq Streams
    BY <1>6, MatchedFacts
  <2>2. streams \subseteq Streams
    BY <2>1
  <2>3. e \in Clients
    BY <2>2 DEF Clients
  <2>4. \A s \in Streams : s \in streams <=> \E x \in sel : s \in Matched(x)
    OBVIOUS
  <2>5. \A x \in sel : \A s \in Streams : s \in Matched(x) <=>
          x.ticker = s[1] /\ (s[2] \in x.ids \/ (x.ids = {} /\ s[2] = Price))
    BY <1>6, <2>1, MatchedFacts
  <2>. QED
    BY <2>3, <2>4, <2>5
<1> HIDE DEF w, e, streams
<1>7. \/ /\ \A x \in sel : ~Throws(x)
         /\ sel # None
         /\ clients' = Append(w, e)
         /\ subscription' = [subscription EXCEPT ![p] = sel]
      \/ /\ clients' = w
         /\ subscription' = [subscription EXCEPT ![p] = None]
  BY <1>2 DEF e, streams
<1>8. /\ clients' \in Seq(Clients)
      /\ subscription' \in [Peers -> (SUBSET Selectors) \cup {None}]
      /\ \A q \in Peers : q # p => subscription'[q] = subscription[q]
      /\ \A i \in DOMAIN clients' :
           \/ i \in DOMAIN w /\ clients'[i] = w[i]
           \/ /\ i = Len(w) + 1 /\ clients'[i] = e /\ e \in Clients
              /\ subscription'[p] = sel /\ sel # None
              /\ \A x \in sel : ~Throws(x)
      /\ \A i \in DOMAIN w : i \in DOMAIN clients' /\ clients'[i] = w[i]
      /\ subscription'[p] # None => Len(w) + 1 \in DOMAIN clients' /\ clients'[Len(w) + 1] = e
  <2>1. CASE clients' = w /\ subscription' = [subscription EXCEPT ![p] = None]
    <3>1. /\ subscription' \in [Peers -> (SUBSET Selectors) \cup {None}]
          /\ \A q \in Peers : subscription'[q] = IF q = p THEN None ELSE subscription[q]
      <4>1. subscription \in [Peers -> (SUBSET Selectors) \cup {None}]
        BY DEF IInv, TypeOK
      <4>2. subscription' = [subscription EXCEPT ![p] = None]
        BY <2>1
      <4>. QED
        BY <4>1, <4>2
    <3>. QED
      BY <1>3, <2>1, <3>1
  <2>2. CASE /\ \A x \in sel : ~Throws(x)
             /\ sel # None
             /\ clients' = Append(w, e)
             /\ subscription' = [subscription EXCEPT ![p] = sel]
    <3>1. /\ e \in Clients /\ Append(w, e) \in Seq(Clients)
          /\ DOMAIN w = 1 .. Len(w) /\ Len(w) \in Nat
          /\ DOMAIN Append(w, e) = 1 .. Len(w) + 1
          /\ \A i \in DOMAIN w : Append(w, e)[i] = w[i]
          /\ Append(w, e)[Len(w) + 1] = e
      BY <1>3, <1>6, <2>2, AppendProperties, LenProperties
    <3>2. /\ subscription'[p] = sel
          /\ \A q \in Peers : q # p => subscription'[q] = subscription[q]
          /\ subscription' \in [Peers -> (SUBSET Selectors) \cup {None}]
      BY <2>2 DEF IInv, TypeOK
    <3>3. \A i \in 1 .. Len(w) + 1 : i \in DOMAIN w \/ i = Len(w) + 1
      BY <3>1
    <3>. QED
      BY <2>2, <3>1, <3>2, <3>3
  <2>. QED
    BY <1>7, <2>1, <2>2
<1>9. \A i \in DOMAIN w : w[i].peer # p /\ w[i].peer \in Peers
  <2>1. \A j \in DOMAIN clients : clients[j] \in Clients
    BY DEF IInv, TypeOK
  <2>. QED
    BY <1>3, <2>1 DEF Clients
<1>10. OneEntry'
  <2>1. ASSUME NEW i \in DOMAIN clients', NEW j \in DOMAIN clients',
               clients'[i].peer = clients'[j].peer
        PROVE  i = j
    BY <1>3, <1>5, <1>8, <1>9, <2>1
  <2>2. ASSUME NEW i \in DOMAIN clients', NEW s \in Streams
        PROVE  s \in clients'[i].streams <=> AsksFor(clients[i].peer, s)'
    <3>1. CASE i \in DOMAIN w /\ clients'[i] = w[i]
      <4>1. PICK j \in DOMAIN clients : w[i] = clients[j]
        BY <1>3, <3>1
      <4>2. s \in clients[j].streams <=> AsksFor(clients[j].peer, s)
        BY DEF IInv, OneEntry
      <4>3. subscription'[w[i].peer] = subscription[w[i].peer]
        BY <1>8, <1>9, <3>1
      <4>. QED
        BY <3>1, <4>1, <4>2, <4>3 DEF AsksFor
    <3>2. CASE /\ clients'[i] = e /\ subscription'[p] = sel /\ sel # None
               /\ \A x \in sel : ~Throws(x)
      BY <1>5, <1>6, <3>2 DEF AsksFor
    <3>. QED
      BY <1>8, <3>1, <3>2
  <2>3. ASSUME NEW q \in Peers, subscription'[q] # None
        PROVE  \E i \in DOMAIN clients' : clients'[i].peer = q
    <3>1. CASE q = p
      BY <1>5, <1>8, <2>3, <3>1
    <3>2. CASE q # p
      <4>1. PICK j \in DOMAIN clients : clients[j].peer = q
        BY <1>8, <2>3, <3>2 DEF IInv, OneEntry
      <4>2. PICK i \in DOMAIN w : w[i] = clients[j]
        BY <1>3, <3>2, <4>1
      <4>. QED
        BY <1>8, <4>1, <4>2
    <3>. QED
      BY <3>1, <3>2
  <2>. QED
    BY <2>1, <2>2, <2>3 DEF OneEntry
<1>11. Balance'
  <2> SUFFICES ASSUME NEW i \in DOMAIN clients'
               PROVE  clients'[i].credits = Wrap(granted'[clients'[i].peer]
                                                 - used'[clients'[i].peer])
    BY DEF Balance, Outstanding
  <2>1. CASE i \in DOMAIN w /\ clients'[i] = w[i]
    <3>1. PICK j \in DOMAIN clients : w[i] = clients[j]
      BY <1>3, <2>1
    <3>2. clients[j].credits = Wrap(granted[clients[j].peer] - used[clients[j].peer])
      BY DEF IInv, Balance, Outstanding
    <3>. QED
      BY <1>4, <1>9, <2>1, <3>1, <3>2
  <2>2. CASE clients'[i] = e
    BY <1>4, <1>5, <2>2, WrapFacts
  <2>. QED
    BY <1>8, <2>1, <2>2
<1>12. TypeOK'
  <2>1. \A i \in DOMAIN clients' : Wrap(clients'[i].credits) = clients'[i].credits
    <3>1. \A j \in DOMAIN clients : Wrap(clients[j].credits) = clients[j].credits
      BY DEF IInv, TypeOK
    <3>2. \A i \in DOMAIN w : Wrap(w[i].credits) = w[i].credits
      BY <1>3, <3>1
    <3>3. Wrap(e.credits) = e.credits
      BY <1>5, WrapFacts
    <3>. QED
      BY <1>8, <3>2, <3>3
  <2>. QED
    BY <1>1, <1>4, <1>8, <2>1 DEF IInv, TypeOK
<1>13. NoOverdraft'
  BY <1>4 DEF IInv, NoOverdraft
<1>14. Ordered' /\ InOrder'
  BY <1>1 DEF IInv, Ordered, InOrder
<1>. QED
  BY <1>10, <1>11, <1>12, <1>13, <1>14 DEF IInv

----------------------------------------------------------------------------
(* Paying and streaming. *)

\* OneEntry is about who has an entry and for what, and not about credits.
LEMMA SameEntries ==
  ASSUME OneEntry, UNCHANGED subscription,
         DOMAIN clients' = DOMAIN clients,
         \A i \in DOMAIN clients : /\ clients'[i].peer = clients[i].peer
                                   /\ clients'[i].streams = clients[i].streams
  PROVE  OneEntry'
<1>1. ASSUME NEW i \in DOMAIN clients, NEW s \in Streams
      PROVE  s \in clients'[i].streams <=> AsksFor(clients[i].peer, s)'
  <2>1. AsksFor(clients[i].peer, s)' <=> AsksFor(clients[i].peer, s)
    BY DEF AsksFor
  <2>. QED
    BY <2>1 DEF OneEntry
<1>. QED
  BY <1>1 DEF OneEntry

\* An entry is typed if its counter has a value of an int.
LEMMA EntryTyped ==
  ASSUME NEW c \in Clients, NEW x \in Int
  PROVE  LET d == [c EXCEPT !.credits = x]
         IN d \in Clients /\ d.peer = c.peer /\ d.streams = c.streams /\ d.credits = x
BY DEF Clients

\* A grant is added to what is outstanding.
LEMMA HandleCreditStep ==
  ASSUME IInv, NEW p \in Peers, HandleCredit(p)
  PROVE  IInv'
<1> DEFINE n == Head(inbox[p]).n
           k == Find(p)
<1>1. /\ pc' = "poll" /\ inbox' \in [Peers -> Seq(Messages)]
      /\ UNCHANGED <<pipe, sends, serial>>
      /\ Head(inbox[p]) \in Messages /\ Head(inbox[p]).type = "credit"
  BY Received DEF HandleCredit, IInv
<1>2. n \in Nat
  BY <1>1, MessageFields
<1>3. UNCHANGED <<subscription, used, answers, delivered>>
  BY DEF HandleCredit
<1>4. CASE UNCHANGED <<clients, granted>>
  <2>1. TypeOK'
    BY <1>1, <1>3, <1>4 DEF IInv, TypeOK
  <2>. QED
    BY <1>1, <1>3, <1>4, <2>1, MessagesOnly DEF IInv
<1>5. CASE /\ k # 0
           /\ clients' = [clients EXCEPT ![k] = Increment(@, n)]
           /\ granted' = [granted EXCEPT ![p] = @ + n]
  <2>1. /\ k \in DOMAIN clients /\ clients[k].peer = p
        /\ \A i \in DOMAIN clients : clients[i].peer = p => i = k
    BY <1>5, FindFacts DEF IInv, TypeOK, OneEntry
  <2> HIDE DEF n, k
  <2>2. clients[k] \in Clients /\ clients \in Seq(Clients)
    BY <2>1 DEF IInv, TypeOK
  <2>3. clients[k].credits \in Int
    BY <2>2 DEF Clients
  <2> DEFINE x == Wrap(clients[k].credits + n)
             d == [clients[k] EXCEPT !.credits = x]
  <2>4. x \in Int /\ Wrap(x) = x
    <3>1. clients[k].credits + n \in Int
      BY <1>2, <2>3
    <3>2. x \in (-Half) .. (Half - 1)
      BY <3>1, Wrapped
    <3>3. x \in Int
      BY <3>2, QuotesourceServerAssumption
    <3>. QED
      BY <3>1, <3>3, WrapFacts
  <2>5. d \in Clients /\ d.peer = p /\ d.streams = clients[k].streams /\ d.credits = x
    BY <2>1, <2>2, <2>4, EntryTyped
  <2>6. clients' = [clients EXCEPT ![k] = d]
    BY <1>5 DEF Increment
  <2> HIDE DEF d, x
  <2>7. /\ clients' \in Seq(Clients) /\ DOMAIN clients' = DOMAIN clients
        /\ \A i \in DOMAIN clients : clients'[i] = IF i = k THEN d ELSE clients[i]
    BY <2>1, <2>2, <2>5, <2>6
  <2>8. OneEntry'
    BY <1>3, <2>1, <2>5, <2>7, SameEntries DEF IInv
  <2>9. /\ granted' \in [Peers -> Nat]
        /\ \A q \in Peers : /\ granted'[q] = IF q = p THEN granted[p] + n ELSE granted[q]
                            /\ granted[q] \in Nat /\ used[q] \in Nat
    <3>1. granted \in [Peers -> Nat] /\ used \in [Peers -> Nat]
      BY DEF IInv, TypeOK
    <3>. QED
      BY <1>2, <1>5, <3>1
  <2>10. NoOverdraft'
    <3> SUFFICES ASSUME NEW q \in Peers PROVE used[q] <= granted'[q]
      BY <1>3 DEF NoOverdraft
    <3>1. used[q] <= granted[q]
      BY DEF IInv, NoOverdraft
    <3>. QED
      BY <1>2, <2>9, <3>1
  <2>11. Balance'
    <3> SUFFICES ASSUME NEW i \in DOMAIN clients
                 PROVE  clients'[i].credits = Wrap(granted'[clients'[i].peer]
                                                   - used[clients'[i].peer])
      BY <1>3, <2>7 DEF Balance, Outstanding
    <3>1. clients[i].credits = Wrap(granted[clients[i].peer] - used[clients[i].peer])
      BY DEF IInv, Balance, Outstanding
    <3>2. clients[i].peer \in Peers
      <4>1. clients[i] \in Clients
        BY <2>2
      <4>. QED
        BY <4>1 DEF Clients
    <3>3. CASE i = k
      <4>1. granted[p] - used[p] \in Int /\ granted[p] + n - used[p] = granted[p] - used[p] + n
        BY <1>2, <2>9
      <4>2. Wrap(Wrap(granted[p] - used[p]) + n) = Wrap(granted[p] - used[p] + n)
        BY <1>2, <4>1, WrapFacts
      <4>3. d.credits = Wrap(Wrap(granted[p] - used[p]) + n)
        BY <2>1, <2>5, <3>1, <3>3 DEF x
      <4>4. clients'[i].credits = d.credits /\ clients'[i].peer = p
        BY <2>5, <2>7, <3>3
      <4>5. granted'[p] - used[p] = granted[p] - used[p] + n
        <5>1. granted'[p] = granted[p] + n /\ granted[p] \in Int /\ used[p] \in Int
          BY <2>9
        <5>. QED
          BY <1>2, <5>1
      <4>. QED
        BY <4>2, <4>3, <4>4, <4>5
    <3>4. CASE i # k
      BY <2>1, <2>7, <2>9, <3>1, <3>2, <3>4
    <3>. QED
      BY <3>3, <3>4
  <2>12. TypeOK'
    <3>1. \A i \in DOMAIN clients' : Wrap(clients'[i].credits) = clients'[i].credits
      BY <2>4, <2>5, <2>7 DEF IInv, TypeOK
    <3>. QED
      BY <1>1, <1>3, <2>7, <2>9, <3>1 DEF IInv, TypeOK
  <2>13. Ordered' /\ InOrder'
    BY <1>1, <1>3 DEF IInv, Ordered, InOrder
  <2>. QED
    BY <2>8, <2>10, <2>11, <2>12, <2>13 DEF IInv
<1>. QED
  BY <1>4, <1>5 DEF HandleCredit

\* A tick taken from the pipe goes to a peer once, if the peer's entry accepts
\* it and has credit left, and not at all otherwise.
LEMMA PipeFacts ==
  ASSUME IInv, HandlePipe, NEW p \in Peers
  PROVE  LET t == Head(pipe)
         IN \/ /\ \E i \in DOMAIN clients :
                    clients[i].peer = p /\ Eligible(clients[i], t.stream)
               /\ Copies(p, t.stream) = 1
               /\ used'[p] = used[p] + 1
               /\ delivered'[p] = Append(delivered[p], t.serial)
            \/ /\ \A i \in DOMAIN clients :
                    clients[i].peer = p => ~Eligible(clients[i], t.stream)
               /\ Copies(p, t.stream) = 0
               /\ used'[p] = used[p]
               /\ delivered'[p] = delivered[p]
<1> DEFINE t == Head(pipe)
           c == Copies(p, t.stream)
           s == [i \in 1 .. c |-> t.serial]
<1>1. \/ /\ c = 1
         /\ \E i \in DOMAIN clients : clients[i].peer = p /\ Eligible(clients[i], t.stream)
      \/ /\ c = 0
         /\ \A i \in DOMAIN clients : clients[i].peer = p => ~Eligible(clients[i], t.stream)
  BY CopiesFacts DEF IInv, TypeOK, OneEntry
<1>2. used'[p] = used[p] + c /\ delivered'[p] = delivered[p] \o s
  BY DEF HandlePipe
<1>3. used[p] \in Nat /\ delivered[p] \in Seq(Nat)
  BY DEF IInv, TypeOK
<1>4. pipe # <<>> /\ pipe \in Seq(Ticks)
  BY DEF IInv, TypeOK, HandlePipe
<1>5. t \in Ticks
  BY <1>4
<1>6. t.serial \in Nat
  BY <1>5 DEF Ticks
<1> HIDE DEF t
<1>7. CASE c = 1
  <2> DEFINE one == <<t.serial>>
  <2>1. s = one
    BY <1>7
  <2>2. delivered[p] \o one = Append(delivered[p], t.serial)
    BY <1>3, <1>6, AppendIsConcat
  <2>. QED
    BY <1>1, <1>2, <1>7, <2>1, <2>2 DEF t
<1>8. CASE c = 0
  <2>1. s = <<>>
    BY <1>8
  <2>2. delivered[p] \o <<>> = delivered[p]
    BY <1>3, ConcatEmptySeq
  <2>. QED
    BY <1>1, <1>2, <1>3, <1>8, <2>1, <2>2 DEF t
<1>. QED
  BY <1>1, <1>7, <1>8

\* An entry with credit has a peer that has paid.
LEMMA PaidFor ==
  ASSUME IInv, NEW i \in DOMAIN clients, clients[i].credits > 0
  PROVE  used[clients[i].peer] < granted[clients[i].peer]
<1> DEFINE p == clients[i].peer
<1>1. clients[i] \in Clients
  BY DEF IInv, TypeOK
<1>2. p \in Peers
  BY <1>1 DEF Clients
<1>3. granted[p] \in Nat /\ used[p] \in Nat /\ used[p] <= granted[p]
  BY <1>2 DEF IInv, TypeOK, NoOverdraft
<1>4. clients[i].credits = Wrap(granted[p] - used[p])
  BY DEF IInv, Balance, Outstanding
<1>5. ASSUME used[p] = granted[p]
      PROVE  FALSE
  <2>1. granted[p] - used[p] = 0
    BY <1>3, <1>5
  <2>2. clients[i].credits = 0
    BY <1>4, <2>1, WrapFacts
  <2>. QED
    BY <2>2
<1>. QED
  BY <1>3, <1>5

\* sendStreamPacket.
LEMMA HandlePipeStep ==
  ASSUME IInv, HandlePipe
  PROVE  IInv'
<1> DEFINE t == Head(pipe)
           s == t.stream
<1>1. /\ pipe # <<>> /\ pipe \in Seq(Ticks) /\ pipe' = Tail(pipe)
      /\ UNCHANGED <<inbox, sends, serial, subscription, granted, answers>>
      /\ pc' = "poll"
      /\ clients' = [i \in DOMAIN clients |->
           IF Eligible(clients[i], s) THEN Pay(clients[i]) ELSE clients[i]]
      /\ DOMAIN used' = Peers /\ DOMAIN delivered' = Peers
      /\ used' = [p \in Peers |-> used'[p]] /\ delivered' = [p \in Peers |-> delivered'[p]]
  BY DEF HandlePipe, Taken, IInv, TypeOK
<1>2. /\ t \in Ticks /\ Tail(pipe) \in Seq(Ticks)
      /\ 1 \in DOMAIN pipe /\ t = pipe[1]
      /\ \A i \in DOMAIN Tail(pipe) : i + 1 \in DOMAIN pipe /\ Tail(pipe)[i] = pipe[i + 1]
                                      /\ i \in Nat /\ i >= 1
  BY <1>1
<1>3. t.serial \in Nat /\ serial \in Nat
  BY <1>2 DEF Ticks, IInv, TypeOK
<1>4. ASSUME NEW p \in Peers
      PROVE  \/ /\ \E i \in DOMAIN clients : clients[i].peer = p /\ Eligible(clients[i], s)
                /\ used'[p] = used[p] + 1
                /\ delivered'[p] = Append(delivered[p], t.serial)
             \/ /\ \A i \in DOMAIN clients : clients[i].peer = p => ~Eligible(clients[i], s)
                /\ used'[p] = used[p]
                /\ delivered'[p] = delivered[p]
  BY PipeFacts
<1> HIDE DEF t, s
<1>5. \A p \in Peers : granted[p] \in Nat /\ used[p] \in Nat /\ delivered[p] \in Seq(Nat)
  BY DEF IInv, TypeOK
<1>6. ASSUME NEW i \in DOMAIN clients
      PROVE  /\ clients[i] \in Clients /\ clients'[i] \in Clients
             /\ clients'[i].peer = clients[i].peer /\ clients'[i].peer \in Peers
             /\ clients'[i].streams = clients[i].streams
             /\ clients'[i].credits = IF Eligible(clients[i], s) THEN clients[i].credits - 1
                                      ELSE clients[i].credits
  <2> DEFINE c == clients[i]
  <2>1. c \in Clients
    BY DEF IInv, TypeOK
  <2>2. c.credits \in Int /\ c.peer \in Peers
    BY <2>1 DEF Clients
  <2>3. CASE Eligible(c, s)
    <3>1. c.credits > 0
      BY <2>3 DEF Eligible
    <3>2. clients'[i] = [c EXCEPT !.credits = c.credits - (IF c.credits < 1 THEN c.credits ELSE 1)]
      BY <1>1, <2>3 DEF Pay
    <3>3. c.credits - (IF c.credits < 1 THEN c.credits ELSE 1) = c.credits - 1
          /\ c.credits - 1 \in Int
      BY <2>2, <3>1
    <3>4. clients'[i] = [c EXCEPT !.credits = c.credits - 1]
      BY <3>2, <3>3
    <3>. QED
      BY <2>1, <2>2, <2>3, <3>3, <3>4, EntryTyped
  <2>4. CASE ~Eligible(c, s)
    BY <1>1, <2>1, <2>2, <2>4
  <2>. QED
    BY <2>3, <2>4
<1>7. DOMAIN clients' = DOMAIN clients /\ clients' \in Seq(Clients)
  <2>1. DOMAIN clients' = DOMAIN clients
    BY <1>1
  <2>2. PICK n \in Nat : DOMAIN clients = 1 .. n
    BY DEF IInv, TypeOK
  <2>3. clients' \in [1 .. n -> Clients]
    BY <1>1, <1>6, <2>1, <2>2
  <2>. QED
    BY <2>1, <2>3, SeqDef
<1>8. OneEntry'
  BY <1>1, <1>6, <1>7, SameEntries DEF IInv
<1>9. ASSUME NEW i \in DOMAIN clients
      PROVE  /\ Eligible(clients[i], s) => used'[clients[i].peer] = used[clients[i].peer] + 1
             /\ ~Eligible(clients[i], s) => used'[clients[i].peer] = used[clients[i].peer]
  <2>1. \A j \in DOMAIN clients : clients[j].peer = clients[i].peer => j = i
    BY DEF IInv, OneEntry
  <2>2. clients[i].peer \in Peers
    BY <1>6
  <2>. QED
    BY <1>4, <2>1, <2>2
<1>10. Balance'
  <2> SUFFICES ASSUME NEW i \in DOMAIN clients
               PROVE  clients'[i].credits = Wrap(granted[clients'[i].peer]
                                                 - used'[clients'[i].peer])
    BY <1>1, <1>7 DEF Balance, Outstanding
  <2> DEFINE p == clients[i].peer
             x == granted[p] - used[p]
  <2>1. p \in Peers /\ clients'[i].peer = p
    BY <1>6
  <2>2. x \in Int /\ used[p] \in Nat /\ granted[p] \in Nat /\ used'[p] \in {used[p], used[p] + 1}
    BY <1>5, <1>9, <2>1
  <2>3. clients[i].credits = Wrap(x)
    BY DEF IInv, Balance, Outstanding
  <2>4. CASE Eligible(clients[i], s)
    <3>1. Wrap(x) > 0 /\ clients'[i].credits = Wrap(x) - 1 /\ used'[p] = used[p] + 1
      BY <1>6, <1>9, <2>3, <2>4 DEF Eligible
    <3>2. granted[p] - used'[p] = x - 1
      BY <2>2, <3>1
    <3>3. Wrap(x - 1) = Wrap(x) - 1
      BY <2>2, <3>1, WrapFacts
    <3>. QED
      BY <2>1, <3>1, <3>2, <3>3
  <2>5. CASE ~Eligible(clients[i], s)
    BY <1>6, <1>9, <2>1, <2>3, <2>5
  <2>. QED
    BY <2>4, <2>5
<1>11. NoOverdraft'
  <2> SUFFICES ASSUME NEW p \in Peers PROVE used'[p] <= granted[p]
    BY <1>1 DEF NoOverdraft
  <2>1. used[p] <= granted[p]
    BY DEF IInv, NoOverdraft
  <2>2. CASE \E i \in DOMAIN clients : clients[i].peer = p /\ Eligible(clients[i], s)
    <3>1. used[p] < granted[p]
      BY <2>2, PaidFor DEF Eligible
    <3>. QED
      BY <1>4, <1>5, <2>1, <3>1
  <2>3. CASE \A i \in DOMAIN clients : clients[i].peer = p => ~Eligible(clients[i], s)
    BY <1>4, <2>1, <2>3
  <2>. QED
    BY <2>2, <2>3
<1>12. ASSUME NEW p \in Peers
       PROVE  /\ used'[p] \in Nat /\ delivered'[p] \in Seq(Nat)
              /\ \A k \in DOMAIN delivered'[p] :
                   \/ k \in DOMAIN delivered[p] /\ delivered'[p][k] = delivered[p][k]
                   \/ k = Len(delivered[p]) + 1 /\ delivered'[p][k] = t.serial
  <2>1. CASE delivered'[p] = delivered[p]
    BY <1>4, <1>5, <2>1
  <2>2. CASE delivered'[p] = Append(delivered[p], t.serial)
    BY <1>3, <1>4, <1>5, <2>2
  <2>. QED
    BY <1>4, <2>1, <2>2
<1>13. TypeOK'
  <2>1. \A i \in DOMAIN clients' : Wrap(clients'[i].credits) = clients'[i].credits
    <3> SUFFICES ASSUME NEW i \in DOMAIN clients
                 PROVE  Wrap(clients'[i].credits) = clients'[i].credits
      BY <1>7
    <3>1. clients'[i].peer \in Peers
      BY <1>6
    <3>2. granted'[clients'[i].peer] - used'[clients'[i].peer] \in Int
      BY <1>1, <1>5, <1>12, <3>1
    <3>3. clients'[i].credits = Wrap(granted'[clients'[i].peer] - used'[clients'[i].peer])
      BY <1>7, <1>10 DEF Balance, Outstanding
    <3>. QED
      BY <3>2, <3>3, WrapFacts
  <2>2. used' \in [Peers -> Nat] /\ delivered' \in [Peers -> Seq(Nat)]
    BY <1>1, <1>12
  <2>. QED
    BY <1>1, <1>2, <1>7, <2>1, <2>2 DEF IInv, TypeOK
<1>14. \A i \in DOMAIN pipe : pipe[i].serial \in Nat
  <2> TAKE i \in DOMAIN pipe
  <2>1. pipe[i] \in Ticks
    BY <1>1
  <2>. QED
    BY <2>1 DEF Ticks
<1>15. \A i \in DOMAIN Tail(pipe) : t.serial < Tail(pipe)[i].serial
  <2> TAKE i \in DOMAIN Tail(pipe)
  <2>1. 1 < i + 1 /\ i + 1 \in DOMAIN pipe /\ 1 \in DOMAIN pipe
    BY <1>2
  <2>2. pipe[1].serial < pipe[i + 1].serial
    BY <2>1 DEF IInv, Ordered
  <2>. QED
    BY <1>2, <2>2
<1>16. Ordered'
  <2>1. ASSUME NEW i \in DOMAIN pipe' PROVE pipe'[i].serial <= serial
    BY <1>1, <1>2 DEF IInv, Ordered
  <2>2. ASSUME NEW i \in DOMAIN pipe', NEW j \in DOMAIN pipe', i < j
        PROVE  pipe'[i].serial < pipe'[j].serial
    <3>1. /\ i + 1 \in DOMAIN pipe /\ j + 1 \in DOMAIN pipe /\ i + 1 < j + 1
          /\ pipe'[i] = pipe[i + 1] /\ pipe'[j] = pipe[j + 1]
      BY <1>1, <1>2, <2>2
    <3>. QED
      BY <3>1 DEF IInv, Ordered
  <2>3. ASSUME NEW p \in Peers, NEW k \in DOMAIN delivered'[p]
        PROVE  /\ delivered'[p][k] <= serial
               /\ \A i \in DOMAIN pipe' : delivered'[p][k] < pipe'[i].serial
    <3>1. CASE k \in DOMAIN delivered[p] /\ delivered'[p][k] = delivered[p][k]
      BY <1>1, <1>2, <3>1 DEF IInv, Ordered
    <3>2. CASE delivered'[p][k] = t.serial
      BY <1>1, <1>2, <1>15, <3>2 DEF IInv, Ordered
    <3>. QED
      BY <1>12, <3>1, <3>2
  <2>. QED
    BY <1>1, <2>1, <2>2, <2>3 DEF Ordered
<1>17. InOrder'
  <2> SUFFICES ASSUME NEW p \in Peers, NEW i \in DOMAIN delivered'[p],
                      NEW j \in DOMAIN delivered'[p], i < j
               PROVE  delivered'[p][i] < delivered'[p][j]
    BY DEF InOrder
  <2>1. Len(delivered[p]) \in Nat /\ DOMAIN delivered[p] = 1 .. Len(delivered[p])
    BY <1>5
  <2>2. i \in DOMAIN delivered[p] /\ delivered'[p][i] = delivered[p][i]
    <3>1. /\ i \in 1 .. Len(delivered[p]) \/ i = Len(delivered[p]) + 1
          /\ j \in 1 .. Len(delivered[p]) \/ j = Len(delivered[p]) + 1
      BY <1>12, <2>1
    <3>2. i # Len(delivered[p]) + 1
      BY <2>1, <3>1
    <3>. QED
      BY <1>12, <3>2
  <2>3. delivered[p][i] < t.serial
    BY <1>2, <2>2 DEF IInv, Ordered
  <2>. QED
    BY <1>12, <2>2, <2>3 DEF IInv, InOrder
<1>. QED
  BY <1>8, <1>10, <1>11, <1>13, <1>16, <1>17 DEF IInv

----------------------------------------------------------------------------
(* The results. *)

LEMMA InitHolds == Init => IInv
<1> SUFFICES ASSUME Init PROVE IInv
  OBVIOUS
<1>1. TypeOK
  <2>1. \A S : <<>> \in Seq(S)
    OBVIOUS
  <2>. QED
    BY <2>1, QuotesourceServerAssumption DEF Init, TypeOK
<1>2. OneEntry /\ Balance /\ Ordered /\ InOrder
  BY DEF Init, OneEntry, AsksFor, Balance, Ordered, InOrder
<1>3. NoOverdraft
  BY DEF Init, NoOverdraft
<1>. QED
  BY <1>1, <1>2, <1>3 DEF IInv

\* Whatever the clients send and the main thread pushes between two turns, the
\* invariant holds.
LEMMA Inductive == Spec => []IInv
<1>1. IInv /\ [Next]_vars => IInv'
  <2> SUFFICES ASSUME IInv, [Next]_vars PROVE IInv'
    OBVIOUS
  <2>1. CASE \E p \in Peers, m \in Messages : ClientSend(p, m)
    BY <2>1, ClientSendStep
  <2>2. CASE \E s \in Streams : IncomingTick(s)
    BY <2>2, IncomingTickStep
  <2>3. CASE Poll
    BY <2>3, PollStep
  <2>4. CASE \E p \in Peers : HandleJunk(p) \/ HandleCommand(p)
    BY <2>4, HandleOtherStep
  <2>5. CASE \E p \in Peers : HandleStart(p)
    BY <2>5, HandleStartStep
  <2>6. CASE \E p \in Peers : HandleCredit(p)
    BY <2>6, HandleCreditStep
  <2>7. CASE HandlePipe
    BY <2>7, HandlePipeStep
  <2>8. CASE UNCHANGED vars
    <3>1. UNCHANGED <<clients, inbox, pipe, pc, sends, serial, subscription, granted, used,
                      answers, delivered>>
      BY <2>8 DEF vars, historyVars
    <3>2. TypeOK'
      BY <3>1 DEF IInv, TypeOK
    <3>. QED
      BY <3>1, <3>2, MessagesOnly DEF IInv
  <2>. QED
    BY <2>1, <2>2, <2>3, <2>4, <2>5, <2>6, <2>7, <2>8 DEF Next, ServerStep
<1>. QED
  BY <1>1, InitHolds, PTL DEF Spec

\* The vector, the queues and the counters stay of their types, and a credit
\* counter keeps to the values of an int.
THEOREM TypeCorrect == Spec => []TypeOK
<1>1. IInv => TypeOK
  BY DEF IInv
<1>. QED
  BY <1>1, Inductive, PTL

\* getClient, deleteClient and start keep one entry per subscribed peer, with
\* the streams its last start asked for.
THEOREM OneEntryHolds == Spec => []OneEntry
<1>1. IInv => OneEntry
  BY DEF IInv
<1>. QED
  BY <1>1, Inductive, PTL

\* decrementCredits and incrementCredits never let a client have more packets
\* than it has paid for, whatever the counter's width.
THEOREM NoOverdraftHolds == Spec => []NoOverdraft
<1>1. IInv => NoOverdraft
  BY DEF IInv
<1>. QED
  BY <1>1, Inductive, PTL

\* sendStreamPacket sends the ticks in the order of the pipe, and none twice.
THEOREM InOrderHolds == Spec => []InOrder
<1>1. IInv => InOrder
  BY DEF IInv
<1>. QED
  BY <1>1, Inductive, PTL

\* An entry that accepts a stream is that of a peer that asked for it, and it has
\* credit if what its peer has outstanding is in the counter's range.
LEMMA WantedAndPaid ==
  ASSUME IInv, NEW p \in Peers, NEW s \in Streams
  PROVE  /\ AsksFor(p, s) /\ Outstanding(p) \in 1 .. Half - 1 =>
              \E i \in DOMAIN clients : clients[i].peer = p /\ Eligible(clients[i], s)
         /\ ~AsksFor(p, s) \/ Outstanding(p) = 0 =>
              \A i \in DOMAIN clients : clients[i].peer = p => ~Eligible(clients[i], s)
<1>1. ASSUME NEW i \in DOMAIN clients, clients[i].peer = p
      PROVE  /\ s \in clients[i].streams <=> AsksFor(p, s)
             /\ clients[i].credits = Wrap(Outstanding(p))
  BY <1>1 DEF IInv, OneEntry, Balance
<1>2. ASSUME AsksFor(p, s), Outstanding(p) \in 1 .. Half - 1
      PROVE  \E i \in DOMAIN clients : clients[i].peer = p /\ Eligible(clients[i], s)
  <2>1. PICK i \in DOMAIN clients : clients[i].peer = p
    BY <1>2 DEF IInv, OneEntry, AsksFor
  <2>2. Wrap(Outstanding(p)) = Outstanding(p) /\ Outstanding(p) > 0
    BY <1>2, WrapFacts
  <2>. QED
    BY <1>1, <1>2, <2>1, <2>2 DEF Eligible
<1>3. ASSUME ~AsksFor(p, s) \/ Outstanding(p) = 0,
             NEW i \in DOMAIN clients, clients[i].peer = p
      PROVE  ~Eligible(clients[i], s)
  BY <1>1, <1>3, WrapFacts DEF Eligible
<1>. QED
  BY <1>2, <1>3

\* A turn of sendStreamPacket sends the tick to each client that asked for its
\* stream and has credit, until the int overflows, and to nobody else.
THEOREM StreamsWhatIsPaidHolds == Spec => StreamsWhatIsPaid
<1> DEFINE t == Head(pipe)
           Turn == pc = "pipe" /\ pc' = "poll" =>
             \A p \in Peers :
               LET wanted == AsksFor(p, Head(pipe).stream)
               IN /\ wanted /\ Outstanding(p) \in 1 .. (Half - 1)
                       => delivered'[p] = Append(delivered[p], Head(pipe).serial)
                  /\ ~wanted \/ Outstanding(p) = 0 => delivered'[p] = delivered[p]
<1>1. IInv /\ [Next]_vars => [Turn]_vars
  <2> SUFFICES ASSUME IInv, [Next]_vars, pc = "pipe", pc' = "poll", NEW p \in Peers
               PROVE  /\ AsksFor(p, t.stream) /\ Outstanding(p) \in 1 .. (Half - 1)
                           => delivered'[p] = Append(delivered[p], t.serial)
                      /\ ~AsksFor(p, t.stream) \/ Outstanding(p) = 0
                           => delivered'[p] = delivered[p]
    OBVIOUS
  <2>1. HandlePipe
    BY DEF Next, ServerStep, ClientSend, IncomingTick, Poll, HandleJunk, HandleCommand,
      HandleStart, HandleCredit, Receive, vars
  <2>2. t.stream \in Streams
    <3>1. pipe # <<>> /\ pipe \in Seq(Ticks)
      BY DEF IInv, TypeOK
    <3>2. t \in Ticks
      BY <3>1
    <3>. QED
      BY <3>2 DEF Ticks
  <2>3. \/ /\ \E i \in DOMAIN clients : clients[i].peer = p /\ Eligible(clients[i], t.stream)
           /\ delivered'[p] = Append(delivered[p], t.serial)
        \/ /\ \A i \in DOMAIN clients : clients[i].peer = p => ~Eligible(clients[i], t.stream)
           /\ delivered'[p] = delivered[p]
    BY <2>1, PipeFacts
  <2> HIDE DEF t
  <2>. QED
    BY <2>2, <2>3, WantedAndPaid
<1>. QED
  BY <1>1, Inductive, PTL DEF Spec, StreamsWhatIsPaid

=============================================================================
