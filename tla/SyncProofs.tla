----------------------------- MODULE SyncProofs -----------------------------
(***************************************************************************)
(* A server and its clients after start-up, for any number of clients,     *)
(* files, changes and messages in a connection: the types, that a file is  *)
(* tracked once, and that two threads block each other only if users of    *)
(* two sites act.                                                          *)
(*                                                                         *)
(* Both rest on where the requests about a path can be.  While only one    *)
(* user changes it, they flow outward from that user's site and never      *)
(* back, and on each connection the requests on their way lead from what   *)
(* the receiver tracks to what the sender tracks (FlowInv).                *)
(*                                                                         *)
(* The first part types the jobs of a round and of a relay, which are      *)
(* sequences of sequences of messages put together.                        *)
(***************************************************************************)
EXTENDS Sync, Integers, FiniteSetTheorems, NaturalsInduction, WellFoundedInduction, TLAPS

-----------------------------------------------------------------------------
(* Induction over a set of numbers: the prover cannot instantiate the      *)
(* library's theorem for a predicate, but its least-element principle for  *)
(* a set.                                                                  *)
LEMMA InductionOverSet ==
  ASSUME NEW S, 0 \in S, \A n \in Nat : n \in S => n + 1 \in S
  PROVE  Nat \subseteq S
<1>. DEFINE T == Nat \ S
<1>. SUFFICES ASSUME T # {}
              PROVE  FALSE
  OBVIOUS
<1>1. IsWellFoundedOn(OpToRel(<, Nat), Nat)
  BY NatLessThanWellFounded
<1>2. \E x \in T : \A y \in T : ~ (<<y, x>> \in OpToRel(<, Nat))
  BY <1>1, WFMin
<1>3. PICK x \in T : \A y \in T : ~ (y < x)
  BY <1>2 DEF OpToRel
<1>4. x - 1 \in T
  BY <1>3
<1>. QED
  BY <1>3, <1>4

(* FlattenSeq(ss) is the last of the prefixes it builds one after the      *)
(* other.                                                                  *)
ArePartials(f, ss, n) ==
  f = [i \in 1 .. n |-> IF i = 1 THEN ss[i] ELSE f[i - 1] \o ss[i]]
Partials(ss) == CHOOSE f : ArePartials(f, ss, Len(ss))

LEMMA Flattening ==
  ASSUME NEW ss
  PROVE  FlattenSeq(ss) = IF Len(ss) = 0 THEN ss ELSE Partials(ss)[Len(ss)]
BY DEF FlattenSeq, Partials, ArePartials

(* There are such prefixes.                                                *)
LEMMA PartialsExist ==
  ASSUME NEW S, NEW ss \in Seq(S)
  PROVE  ArePartials(Partials(ss), ss, Len(ss))
<1>. DEFINE G == {n \in Nat : \E f : ArePartials(f, ss, n)}
<1>1. 0 \in G
  <2>1. ArePartials([i \in 1 .. 0 |-> ss[i]], ss, 0)
    BY DEF ArePartials
  <2>. QED
    BY <2>1
<1>2. ASSUME NEW n \in Nat, n \in G
      PROVE  n + 1 \in G
  <2>1. PICK f : ArePartials(f, ss, n)
    BY <1>2
  <2>0. \A i \in 1 .. n : f[i] = IF i = 1 THEN ss[i] ELSE f[i - 1] \o ss[i]
    <3>1. f = [i \in 1 .. n |-> IF i = 1 THEN ss[i] ELSE f[i - 1] \o ss[i]]
      BY <2>1 DEF ArePartials
    <3>. DEFINE e(i) == IF i = 1 THEN ss[i] ELSE f[i - 1] \o ss[i]
    <3>. HIDE DEF e
    <3>2. f = [i \in 1 .. n |-> e(i)]
      BY <3>1 DEF e
    <3>3. \A i \in 1 .. n : f[i] = e(i)
      BY <3>2
    <3>. QED
      BY <3>3 DEF e
  <2>. DEFINE g == [i \in 1 .. n + 1 |-> IF i <= n THEN f[i]
                                         ELSE IF i = 1 THEN ss[i] ELSE f[i - 1] \o ss[i]]
  <2>2. ASSUME NEW i \in 1 .. n + 1
        PROVE  g[i] = IF i = 1 THEN ss[i] ELSE g[i - 1] \o ss[i]
    <3>1. CASE i = 1
      BY <2>0, <3>1
    <3>2. CASE i # 1
      <4>1. i - 1 \in 1 .. n /\ g[i - 1] = f[i - 1]
        BY <3>2
      <4>2. i <= n => f[i] = f[i - 1] \o ss[i]
        <5>. SUFFICES ASSUME i <= n
                      PROVE  f[i] = f[i - 1] \o ss[i]
          OBVIOUS
        <5>1. i \in 1 .. n
          OBVIOUS
        <5>. QED
          BY <2>0, <3>2, <5>1, Zenon
      <4>. QED
        BY <3>2, <4>1, <4>2
    <3>. QED
      BY <3>1, <3>2
  <2>3. ArePartials(g, ss, n + 1)
    BY <2>2 DEF ArePartials
  <2>. QED
    BY <2>3
<1>. HIDE DEF G
<1>4. Nat \subseteq G
  BY <1>1, <1>2, InductionOverSet
<1>5. Len(ss) \in Nat
  OBVIOUS
<1>3. Len(ss) \in G
  BY <1>4, <1>5
<1>. QED
  BY <1>3 DEF Partials, G

(* Each is the one before and the next sequence.                           *)
LEMMA PrefixAt ==
  ASSUME NEW S, NEW ss \in Seq(S), NEW n \in 1 .. Len(ss)
  PROVE  Partials(ss)[n] = IF n = 1 THEN ss[n] ELSE Partials(ss)[n - 1] \o ss[n]
<1>. DEFINE f == Partials(ss)
<1>1. f = [i \in 1 .. Len(ss) |-> IF i = 1 THEN ss[i] ELSE f[i - 1] \o ss[i]]
  BY PartialsExist DEF ArePartials
<1>. HIDE DEF f
<1>. QED
  BY <1>1 DEF f

(* What FlattenSeq returns: a sequence of what the sequences hold, with at *)
(* most one element of a set if one of them has at most one and no two     *)
(* have any.                                                               *)
Holds(x, v) == \E k \in 1 .. Len(x) : x[k] = v
Single(x, V) == \A j, k \in 1 .. Len(x) : x[j] \in V /\ x[k] \in V => j = k
Separate(x, y, V) == \A v, w \in V : ~ (Holds(x, v) /\ Holds(y, w))

Flattened(x, ss, n, S) ==
  /\ x \in Seq(S)
  /\ \A v : Holds(x, v) <=> \E i \in 1 .. n : Holds(ss[i], v)
  /\ \A V \in SUBSET S :
       /\ \A i \in 1 .. n : Single(ss[i], V)
       /\ \A i, j \in 1 .. n : i = j \/ Separate(ss[i], ss[j], V)
       => Single(x, V)

(* What is in x \o y, and at which index.                                  *)
LEMMA Concatenated ==
  ASSUME NEW S, NEW x \in Seq(S), NEW y \in Seq(S)
  PROVE  /\ x \o y \in Seq(S)
         /\ \A v : Holds(x \o y, v) <=> Holds(x, v) \/ Holds(y, v)
         /\ \A V : Single(x, V) /\ Single(y, V) /\ Separate(x, y, V) => Single(x \o y, V)
<1>. DEFINE z == x \o y
<1>1. /\ z \in Seq(S) /\ Len(z) = Len(x) + Len(y)
      /\ Len(x) \in Nat /\ Len(y) \in Nat
      /\ \A k \in 1 .. Len(x) : z[k] = x[k]
      /\ \A k \in 1 .. Len(y) : z[Len(x) + k] = y[k]
  OBVIOUS
<1>. HIDE DEF z
<1>2. ASSUME NEW k \in 1 .. Len(z), k \notin 1 .. Len(x)
      PROVE  k - Len(x) \in 1 .. Len(y) /\ z[k] = y[k - Len(x)]
  <2>1. k - Len(x) \in 1 .. Len(y) /\ Len(x) + (k - Len(x)) = k
    BY <1>1, <1>2
  <2>. QED
    BY <1>1, <2>1
<1>3. ASSUME NEW v
      PROVE  Holds(z, v) <=> Holds(x, v) \/ Holds(y, v)
  <2>1. Holds(z, v) => Holds(x, v) \/ Holds(y, v)
    BY <1>1, <1>2 DEF Holds
  <2>2. Holds(x, v) => Holds(z, v)
    BY <1>1 DEF Holds
  <2>3. ASSUME NEW k \in 1 .. Len(y)
        PROVE  Holds(z, y[k])
    <3>1. Len(x) + k \in 1 .. Len(z)
      BY <1>1
    <3>. QED
      BY <1>1, <3>1 DEF Holds
  <2>. QED
    BY <2>1, <2>2, <2>3 DEF Holds
<1>4. ASSUME NEW V, Single(x, V), Single(y, V), Separate(x, y, V)
      PROVE  Single(z, V)
  <2>. SUFFICES ASSUME NEW j \in 1 .. Len(z), NEW k \in 1 .. Len(z), z[j] \in V, z[k] \in V
                PROVE  j = k
    BY DEF Single
  <2>1. CASE j \in 1 .. Len(x) /\ k \in 1 .. Len(x)
    BY <1>1, <1>4, <2>1 DEF Single
  <2>2. CASE j \notin 1 .. Len(x) /\ k \notin 1 .. Len(x)
    <3>1. j - Len(x) = k - Len(x)
      BY <1>2, <1>4, <2>2 DEF Single
    <3>. QED
      BY <1>1, <3>1
  <2>3. CASE j \in 1 .. Len(x) /\ k \notin 1 .. Len(x)
    <3>1. Holds(x, z[j]) /\ Holds(y, z[k])
      BY <1>1, <1>2, <2>3 DEF Holds
    <3>. QED
      BY <1>4, <3>1 DEF Separate
  <2>4. CASE j \notin 1 .. Len(x) /\ k \in 1 .. Len(x)
    <3>1. Holds(x, z[k]) /\ Holds(y, z[j])
      BY <1>1, <1>2, <2>4 DEF Holds
    <3>. QED
      BY <1>4, <3>1 DEF Separate
  <2>. QED
    BY <2>1, <2>2, <2>3, <2>4
<1>. QED
  BY <1>1, <1>3, <1>4 DEF z

(* The prefixes have the property one after the other.                     *)
LEMMA FlattenHolds ==
  ASSUME NEW S, NEW ss \in Seq(Seq(S))
  PROVE  Flattened(FlattenSeq(ss), ss, Len(ss), S)
<1>. DEFINE F(n) == Flattened(Partials(ss)[n], ss, n, S)
            G == {n \in Nat : n > 0 /\ n <= Len(ss) => F(n)}
<1>. HIDE DEF F
<1>1. 0 \in G
  OBVIOUS
<1>2. ASSUME NEW n \in Nat, n \in G
      PROVE  n + 1 \in G
  <2>. SUFFICES ASSUME n + 1 <= Len(ss)
                PROVE  F(n + 1)
    OBVIOUS
  <2>. DEFINE m == n + 1
  <2>0. m \in 1 .. Len(ss) /\ ss[m] \in Seq(S) /\ Len(ss) \in Nat /\ m - 1 = n
    OBVIOUS
  <2>. HIDE DEF m
  <2>1. CASE n = 0
    <3>1. m = 1 /\ Partials(ss)[m] = ss[m]
      BY <2>0, <2>1, PrefixAt
    <3>. QED
      BY <2>0, <3>1 DEF F, Flattened, m
  <2>2. CASE n > 0
    <3>1. Partials(ss)[m] = Partials(ss)[n] \o ss[m]
      <4>1. m # 1
        BY <2>0, <2>2
      <4>. QED
        BY <2>0, <4>1, PrefixAt
    <3>2. Flattened(Partials(ss)[n], ss, n, S)
      BY <1>2, <2>0, <2>2 DEF F
    <3>. DEFINE x == Partials(ss)[n]
    <3>3. x \in Seq(S) /\ \A v : Holds(x, v) <=> \E i \in 1 .. n : Holds(ss[i], v)
      BY <3>2 DEF Flattened
    <3>4. \A i : i \in 1 .. m <=> i \in 1 .. n \/ i = m
      BY <2>0
    <3>5. Partials(ss)[m] \in Seq(S)
          /\ \A v : Holds(Partials(ss)[m], v) <=> \E i \in 1 .. m : Holds(ss[i], v)
      BY <2>0, <3>1, <3>3, <3>4, Concatenated
    <3>6. ASSUME NEW V \in SUBSET S, \A i \in 1 .. m : Single(ss[i], V),
                 \A i, j \in 1 .. m : i = j \/ Separate(ss[i], ss[j], V)
          PROVE  Single(Partials(ss)[m], V)
      <4>1. Single(x, V)
        BY <3>2, <3>4, <3>6 DEF Flattened
      <4>2. Separate(x, ss[m], V)
        <5>1. \A i \in 1 .. n : i # m
          BY <2>0
        <5>. QED
          BY <3>3, <3>4, <3>6, <5>1 DEF Separate
      <4>. QED
        BY <2>0, <3>1, <3>3, <3>4, <3>6, <4>1, <4>2, Concatenated
    <3>. QED
      BY <3>5, <3>6 DEF F, Flattened, m
  <2>. QED
    BY <2>1, <2>2
<1>3. Len(ss) > 0 => F(Len(ss))
  <2>. HIDE DEF G
  <2>1. Nat \subseteq G
    BY <1>1, <1>2, InductionOverSet
  <2>2. Len(ss) \in Nat
    OBVIOUS
  <2>3. Len(ss) \in G
    BY <2>1, <2>2
  <2>. QED
    BY <2>2, <2>3 DEF G
<1>4. CASE Len(ss) = 0
  <2>1. FlattenSeq(ss) = <<>> /\ <<>> \in Seq(S)
    BY <1>4, Flattening
  <2>. QED
    BY <1>4, <2>1 DEF Flattened, Holds, Single
<1>5. CASE Len(ss) # 0
  BY <1>3, <1>5, Flattening DEF F
<1>. QED
  BY <1>4, <1>5

-----------------------------------------------------------------------------
Types == {"CREATE", "UPDATE", "DELETE"}
Job == [link : Links, message : Message]
JobOf(l, m) == [link |-> l, message |-> m]

(* A connection has the server at one end and a client at the other.       *)
LEMMA LinkEnds ==
  /\ \A l \in Links : /\ From(l) \in Sites /\ To(l) \in Sites /\ l = <<From(l), To(l)>>
                      /\ From(l) # To(l)
                      /\ \/ From(l) = server /\ To(l) \in Clients
                         \/ To(l) = server /\ From(l) \in Clients
  /\ \A c \in Clients : /\ <<c, server>> \in Links /\ <<server, c>> \in Links
                        /\ From(<<c, server>>) = c /\ To(<<c, server>>) = server
                        /\ From(<<server, c>>) = server /\ To(<<server, c>>) = c
BY SitesAssumption DEF Links, From, To, Sites

(* A site is a thread, a connection another.                               *)
LEMMA ThreadKinds ==
  /\ \A l \in Links : l \in Threads /\ l \notin Sites
  /\ \A s \in Sites : s \in Threads /\ s \notin Links
  /\ \A t \in Threads : t \in Sites \/ t \in Links
BY ThreadsAssumption DEF Threads

(* The running clients, and the files, once each.                          *)
LEMMA RunningOnce ==
  /\ running \in Seq(Clients) /\ Len(running) \in Nat
  /\ \A c : c \in Clients <=> \E n \in 1 .. Len(running) : running[n] = c
  /\ \A m, n \in 1 .. Len(running) : running[m] = running[n] => m = n
<1>1. running \in Seq(Clients) /\ DOMAIN running = 1 .. Len(running)
  BY SequencesAssumption
<1>. QED
  BY <1>1, SitesAssumption DEF IsInjective, Clients, ToSet

LEMMA ListingOnce ==
  /\ listing \in Seq(Paths) /\ Len(listing) \in Nat /\ listing[1] \in Paths
  /\ DOMAIN listing = 1 .. Len(listing)
  /\ \A p : p \in Paths <=> \E n \in 1 .. Len(listing) : listing[n] = p
  /\ \A m, n \in 1 .. Len(listing) : listing[m] = listing[n] => m = n
<1>1. listing \in Seq(Paths) /\ DOMAIN listing = 1 .. Len(listing) /\ listing # <<>>
  BY SequencesAssumption
<1>. QED
  BY <1>1, SitesAssumption DEF IsInjective, Paths, ToSet

Injective(x) == \A j, k \in 1 .. Len(x) : x[j] = x[k] => j = k

(* The connections a site sends on, once each.                             *)
LEMMA LinksOfSite ==
  ASSUME NEW s \in Sites
  PROVE  /\ LinksFrom(s) \in Seq(Links) /\ Injective(LinksFrom(s))
         /\ \A l : Holds(LinksFrom(s), l) <=> l \in Links /\ From(l) = s
<1>1. CASE s = server
  <2>. DEFINE x == LinksFrom(s)
  <2>1. x = [n \in 1 .. Len(running) |-> <<server, running[n]>>]
    BY <1>1, RunningOnce DEF LinksFrom
  <2>2. \A n \in 1 .. Len(running) :
          x[n] \in Links /\ From(x[n]) = server /\ To(x[n]) = running[n]
    BY <2>1, RunningOnce DEF Links, From, To
  <2>3. x \in Seq(Links) /\ Len(x) = Len(running)
    BY <2>1, <2>2, RunningOnce
  <2>4. Injective(x)
    BY <2>2, <2>3, RunningOnce DEF Injective
  <2>5. ASSUME NEW l \in Links, From(l) = server
        PROVE  Holds(x, l)
    <3>1. To(l) \in Clients /\ l = <<server, To(l)>>
      BY <2>5, LinkEnds, SitesAssumption
    <3>2. PICK n \in 1 .. Len(running) : running[n] = To(l)
      BY <3>1, RunningOnce
    <3>. QED
      BY <2>1, <2>3, <3>1, <3>2 DEF Holds
  <2>. HIDE DEF x
  <2>6. \A l : Holds(x, l) <=> l \in Links /\ From(l) = s
    BY <1>1, <2>2, <2>3, <2>5 DEF Holds
  <2>. QED
    BY <2>3, <2>4, <2>6 DEF x
<1>2. CASE s # server
  <2>1. LinksFrom(s) = <<<<s, server>>>> /\ s \in Clients
    BY <1>2 DEF LinksFrom, Sites
  <2>2. <<s, server>> \in Links /\ \A l : l = <<s, server>> <=> l \in Links /\ From(l) = s
    BY <1>2, <2>1, LinkEnds
  <2>. QED
    BY <2>1, <2>2 DEF Injective, Holds
<1>. QED
  BY <1>1, <1>2

(* The connections a change is relayed on, once each.                      *)
LEMMA LinksOfRelay ==
  ASSUME NEW l \in Links
  PROVE  /\ Others(l) \in Seq(Links) /\ Injective(Others(l))
         /\ \A o : Holds(Others(l), o) <=>
              To(l) = server /\ o \in Links /\ From(o) = server /\ To(o) # From(l)
<1>1. CASE To(l) = server
  <2>. DEFINE x == LinksFrom(server)
              m == CHOOSE n \in DOMAIN running : running[n] = From(l)
              y == RemoveAt(x, m)
              k == Len(running)
  <2>1. From(l) \in Clients
    BY <1>1, LinkEnds, SitesAssumption
  <2>2. m \in 1 .. k /\ running[m] = From(l) /\ k \in Nat
    <3>1. DOMAIN running = 1 .. k
      BY RunningOnce
    <3>2. \E n \in DOMAIN running : running[n] = From(l)
      BY <2>1, <3>1, RunningOnce
    <3>. QED
      BY <3>1, <3>2, RunningOnce
  <2>3. x \in Seq(Links) /\ Len(x) = k /\ \A n \in 1 .. k : x[n] = <<server, running[n]>>
    <3>1. x = [n \in 1 .. k |-> <<server, running[n]>>] /\ k \in Nat
      BY RunningOnce DEF LinksFrom
    <3>2. server \in Sites
      BY DEF Sites
    <3>3. x \in Seq(Links)
      BY <3>2, LinksOfSite
    <3>. QED
      BY <3>1, <3>3
  <2>. HIDE DEF m, x
  <2>4. /\ y \in Seq(Links) /\ Len(y) = k - 1
        /\ \A n \in 1 .. k - 1 : y[n] = x[IF n < m THEN n ELSE n + 1]
    <3>1. /\ SubSeq(x, 1, m - 1) \in Seq(Links) /\ Len(SubSeq(x, 1, m - 1)) = m - 1
          /\ \A n \in 1 .. m - 1 : SubSeq(x, 1, m - 1)[n] = x[n]
      BY <2>2, <2>3
    <3>2. /\ SubSeq(x, m + 1, k) \in Seq(Links) /\ Len(SubSeq(x, m + 1, k)) = k - m
          /\ \A n \in 1 .. k - m : SubSeq(x, m + 1, k)[n] = x[m + n]
      BY <2>2, <2>3
    <3>. DEFINE a == SubSeq(x, 1, m - 1)
                b == SubSeq(x, m + 1, k)
    <3>3. y = a \o b
      BY <2>3 DEF RemoveAt
    <3>6. /\ a \in Seq(Links) /\ Len(a) = m - 1 /\ \A n \in 1 .. m - 1 : a[n] = x[n]
          /\ b \in Seq(Links) /\ Len(b) = k - m /\ \A n \in 1 .. k - m : b[n] = x[m + n]
      BY <3>1, <3>2
    <3>. HIDE DEF a, b, y
    <3>7. /\ a \o b \in Seq(Links) /\ Len(a \o b) = Len(a) + Len(b)
          /\ \A n \in 1 .. Len(a) : (a \o b)[n] = a[n]
          /\ \A n \in 1 .. Len(b) : (a \o b)[Len(a) + n] = b[n]
      BY <3>6
    <3>4. y \in Seq(Links) /\ Len(y) = k - 1
      BY <2>2, <3>3, <3>6, <3>7
    <3>5. ASSUME NEW n \in 1 .. k - 1
          PROVE  y[n] = x[IF n < m THEN n ELSE n + 1]
      <4>1. CASE n < m
        <5>1. n \in 1 .. m - 1
          BY <2>2, <4>1
        <5>. QED
          BY <2>2, <3>3, <3>6, <3>7, <4>1, <5>1
      <4>2. CASE n >= m
        <5>1. n - (m - 1) \in 1 .. k - m /\ m + (n - (m - 1)) = n + 1
          BY <2>2, <4>2
        <5>2. n = Len(a) + (n - (m - 1))
          BY <2>2, <3>6, <4>2
        <5>3. y[n] = b[n - (m - 1)]
          BY <2>2, <3>3, <3>6, <3>7, <5>1, <5>2
        <5>. QED
          BY <2>2, <3>6, <4>2, <5>1, <5>3
      <4>. QED
        BY <2>2, <4>1, <4>2
    <3>. QED
      BY <3>4, <3>5
  <2>5. Others(l) = y
    BY <1>1 DEF Others, m, x
  <2>. HIDE DEF y
  <2>6. Injective(y)
    <3>. DEFINE at(n) == IF n < m THEN n ELSE n + 1
    <3>1. \A n \in 1 .. k - 1 : at(n) \in 1 .. k
      BY <2>2
    <3>2. \A i, n \in 1 .. k : x[i] = x[n] => i = n
      <4>1. \A i, n \in 1 .. k : x[i] = x[n] => running[i] = running[n]
        BY <2>3
      <4>. QED
        BY <4>1, RunningOnce
    <3>3. \A i, n \in 1 .. k - 1 : at(i) = at(n) => i = n
      BY <2>2
    <3>4. \A n \in 1 .. k - 1 : y[n] = x[at(n)]
      BY <2>4
    <3>. HIDE DEF at
    <3>. SUFFICES ASSUME NEW i \in 1 .. k - 1, NEW n \in 1 .. k - 1, y[i] = y[n]
                  PROVE  i = n
      BY <2>4 DEF Injective
    <3>5. at(i) \in 1 .. k /\ at(n) \in 1 .. k /\ x[at(i)] = x[at(n)]
      BY <3>1, <3>4
    <3>6. at(i) = at(n)
      BY <3>2, <3>5
    <3>. QED
      BY <3>3, <3>6
  <2>7. ASSUME NEW n \in 1 .. k - 1
        PROVE  y[n] \in Links /\ From(y[n]) = server /\ To(y[n]) # From(l)
    <3>1. PICK j \in 1 .. k : j # m /\ y[n] = x[j]
      BY <2>2, <2>4
    <3>2. y[n] = <<server, running[j]>> /\ running[j] # From(l) /\ running[j] \in Clients
      BY <2>2, <2>3, <3>1, RunningOnce
    <3>. QED
      BY <3>2, LinkEnds
  <2>8. ASSUME NEW o \in Links, From(o) = server, To(o) # From(l)
        PROVE  Holds(y, o)
    <3>1. To(o) \in Clients /\ o = <<server, To(o)>>
      BY <2>8, LinkEnds, SitesAssumption
    <3>2. PICK j \in 1 .. k : running[j] = To(o)
      BY <3>1, RunningOnce
    <3>3. j # m /\ o = x[j]
      BY <2>2, <2>3, <2>8, <3>1, <3>2
    <3>4. (IF j < m THEN j ELSE j - 1) \in 1 .. k - 1 /\ y[IF j < m THEN j ELSE j - 1] = x[j]
      BY <2>2, <2>4, <3>3
    <3>. QED
      BY <2>4, <3>3, <3>4 DEF Holds
  <2>9. \A o : Holds(y, o) <=> o \in Links /\ From(o) = server /\ To(o) # From(l)
    BY <2>4, <2>7, <2>8 DEF Holds
  <2>. QED
    BY <1>1, <2>4, <2>5, <2>6, <2>9
<1>2. CASE To(l) # server
  BY <1>2 DEF Others, Injective, Holds
<1>. QED
  BY <1>1, <1>2

-----------------------------------------------------------------------------
(* What a message to several connections becomes.                          *)
LEMMA JobsOf ==
  ASSUME NEW m \in Message, NEW x \in Seq(Links)
  PROVE  /\ Jobs(m, x) \in Seq(Job) /\ Len(Jobs(m, x)) = Len(x)
         /\ \A n \in 1 .. Len(x) : Jobs(m, x)[n] = JobOf(x[n], m)
         /\ \A v : Holds(Jobs(m, x), v) <=> \E l : Holds(x, l) /\ v = JobOf(l, m)

<1>1. Jobs(m, x) = [n \in 1 .. Len(x) |-> JobOf(x[n], m)] /\ Len(x) \in Nat
  BY DEF Jobs, JobOf
<1>2. \A n \in 1 .. Len(x) : x[n] \in Links
  OBVIOUS
<1>3. \A n \in 1 .. Len(x) : JobOf(x[n], m) \in Job
  BY <1>2 DEF JobOf, Job
<1>. DEFINE y == Jobs(m, x)
<1>4. y \in Seq(Job) /\ Len(y) = Len(x) /\ \A n \in 1 .. Len(x) : y[n] = JobOf(x[n], m)
  BY <1>1, <1>3
<1>. HIDE DEF y
<1>5. \A v : Holds(y, v) <=> \E l : Holds(x, l) /\ v = JobOf(l, m)
  BY <1>4 DEF Holds
<1>. QED
  BY <1>4, <1>5 DEF y

(* The jobs about a path on a connection.                                  *)
About(l, p) == {j \in Job : j.link = l /\ j.message.path = p}

LEMMA JobsSingle ==
  ASSUME NEW m \in Message, NEW x \in Seq(Links), Injective(x), NEW l, NEW p
  PROVE  Single(Jobs(m, x), About(l, p))
<1>. SUFFICES ASSUME NEW j \in 1 .. Len(x), NEW k \in 1 .. Len(x),
                     JobOf(x[j], m) \in About(l, p), JobOf(x[k], m) \in About(l, p)
              PROVE  j = k
  BY JobsOf DEF Single
<1>1. x[j] = l /\ x[k] = l
  BY DEF About, JobOf
<1>. QED
  BY <1>1 DEF Injective

LEMMA MessageTyped ==
  ASSUME NEW p \in Paths, NEW v \in Versions,
         NEW ty \in {"CREATE", "UPDATE", "DELETE", "DATA", "END"}
  PROVE  Msg(ty, p, v) \in Message
BY DEF Msg, Message

LEMMA NoneTyped == None \in Versions /\ Truncated \in Versions /\ Truncated # None
BY BoundsAssumption DEF None, Truncated, Versions

(* The reports of a round about one path.                                  *)
LEMMA ReportsTyped ==
  ASSUME TypeOK, NEW s \in Sites, NEW p \in Paths
  PROVE  Reports(s, p) \in Seq(Types) /\ tracked[s][p] \in Seq(BOOLEAN)
<1>1. tracked[s][p] \in Seq(BOOLEAN)
  BY DEF TypeOK
<1>. DEFINE e == tracked[s][p]
<1>2. DOMAIN e = 1 .. Len(e) /\ Len(e) \in Nat
  BY <1>1
<1>3. [n \in 1 .. Len(e) |-> "DELETE"] \in Seq(Types)
  BY <1>2 DEF Types
<1>4. <<"CREATE">> \in Seq(Types) /\ <<"UPDATE">> \in Seq(Types) /\ <<>> \in Seq(Types)
  BY DEF Types
<1>. QED
  BY <1>1, <1>2, <1>3, <1>4 DEF Reports

LEMMA PathReports ==
  ASSUME TypeOK, NEW s \in Sites, NEW p \in Paths
  PROVE  /\ PathJobs(s, p) \in Seq(Job)
         /\ \A v : Holds(PathJobs(s, p), v) <=>
              \E l \in Links, ty \in Types : /\ From(l) = s /\ Holds(Reports(s, p), ty)
                                             /\ v = JobOf(l, Msg(ty, p, None))
         /\ \A l : Len(Reports(s, p)) <= 1 => Single(PathJobs(s, p), About(l, p))
<1>. DEFINE r == Reports(s, p)
            x == LinksFrom(s)
            js(n) == Jobs(Msg(r[n], p, None), x)
            ss == [n \in 1 .. Len(r) |-> js(n)]
<1>1. r \in Seq(Types) /\ Len(r) \in Nat /\ DOMAIN r = 1 .. Len(r)
  BY ReportsTyped
<1>2. x \in Seq(Links) /\ Injective(x) /\ \A l : Holds(x, l) <=> l \in Links /\ From(l) = s
  BY LinksOfSite
<1>3. PathJobs(s, p) = FlattenSeq(ss)
  BY <1>1 DEF PathJobs
<1>. HIDE DEF r, x
<1>4. ASSUME NEW n \in 1 .. Len(r)
      PROVE  Msg(r[n], p, None) \in Message
  BY <1>1, MessageTyped, NoneTyped DEF Types
<1>5. ASSUME NEW n \in 1 .. Len(r)
      PROVE  /\ js(n) \in Seq(Job)
             /\ \A v : Holds(js(n), v) <=>
                  \E l \in Links : From(l) = s /\ v = JobOf(l, Msg(r[n], p, None))
             /\ \A l : Single(js(n), About(l, p))
  <2>1. js(n) \in Seq(Job)
        /\ \A v : Holds(js(n), v) <=> \E l : Holds(x, l) /\ v = JobOf(l, Msg(r[n], p, None))
    BY <1>2, <1>4, JobsOf
  <2>2. \A l : Single(js(n), About(l, p))
    BY <1>2, <1>4, JobsSingle
  <2>. QED
    BY <1>2, <2>1, <2>2
<1>. HIDE DEF js
<1>6. ss \in Seq(Seq(Job)) /\ Len(ss) = Len(r) /\ \A n \in 1 .. Len(r) : ss[n] = js(n)
  BY <1>1, <1>5
<1>. HIDE DEF ss
<1>7. Flattened(FlattenSeq(ss), ss, Len(r), Job)
  BY <1>6, FlattenHolds
<1>. DEFINE z == FlattenSeq(ss)
<1>. HIDE DEF z
<1>8. ASSUME NEW v
      PROVE  Holds(z, v) <=> \E l \in Links, ty \in Types : /\ From(l) = s /\ Holds(r, ty)
                                                            /\ v = JobOf(l, Msg(ty, p, None))
  <2>1. Holds(z, v) <=> \E n \in 1 .. Len(r) : Holds(js(n), v)
    BY <1>6, <1>7 DEF Flattened, z
  <2>2. Holds(z, v) <=> \E n \in 1 .. Len(r), l \in Links :
                          From(l) = s /\ v = JobOf(l, Msg(r[n], p, None))
    BY <2>1, <1>5
  <2>3. \A n \in 1 .. Len(r) : r[n] \in Types
    BY <1>1
  <2>. QED
    BY <2>2, <2>3 DEF Holds
<1>9. ASSUME NEW l, Len(r) <= 1
      PROVE  Single(z, About(l, p))
  <2>1. \A i, j \in 1 .. Len(r) : i = j
    BY <1>1, <1>9
  <2>2. About(l, p) \in SUBSET Job
    BY DEF About
  <2>3. \A i \in 1 .. Len(r) : Single(ss[i], About(l, p))
    BY <1>5, <1>6
  <2>. QED
    BY <1>7, <2>1, <2>2, <2>3 DEF Flattened, z
<1>. QED
  BY <1>3, <1>7, <1>8, <1>9 DEF Flattened, z, r

(* A round as a whole.                                                     *)
LEMMA RoundReports ==
  ASSUME TypeOK, NEW s \in Sites
  PROVE  /\ RoundJobs(s) \in Seq(Job)
         /\ \A v : Holds(RoundJobs(s), v) <=>
              \E l \in Links, p \in Paths, ty \in Types :
                From(l) = s /\ Holds(Reports(s, p), ty) /\ v = JobOf(l, Msg(ty, p, None))
         /\ \A l, p : Len(Reports(s, p)) <= 1 => Single(RoundJobs(s), About(l, p))
<1>. DEFINE ss == [n \in 1 .. Len(listing) |-> PathJobs(s, listing[n])]
<1>1. RoundJobs(s) = FlattenSeq(ss)
  BY ListingOnce DEF RoundJobs
<1>2. \A n \in 1 .. Len(listing) : listing[n] \in Paths
  BY ListingOnce
<1>3. ss \in Seq(Seq(Job)) /\ Len(ss) = Len(listing) /\ Len(listing) \in Nat
      /\ \A n \in 1 .. Len(listing) : ss[n] = PathJobs(s, listing[n])
  BY <1>2, PathReports, ListingOnce
<1>. HIDE DEF ss
<1>. DEFINE z == FlattenSeq(ss)
            Reported(p, v) ==
              \E l \in Links, ty \in Types :
                From(l) = s /\ Holds(Reports(s, p), ty) /\ v = JobOf(l, Msg(ty, p, None))
<1>. HIDE DEF z
<1>4. Flattened(z, ss, Len(listing), Job)
  BY <1>3, FlattenHolds DEF z
<1>5. ASSUME NEW n \in 1 .. Len(listing), NEW v
      PROVE  Holds(ss[n], v) <=> Reported(listing[n], v)
  BY <1>2, <1>3, PathReports
<1>6. \A p, v : Reported(p, v) => v.message.path = p
  BY DEF JobOf, Msg
<1>. HIDE DEF Reported
<1>7. \A v : Holds(z, v) <=> \E p \in Paths : Reported(p, v)
  <2>1. \A v : Holds(z, v) <=> \E n \in 1 .. Len(listing) : Reported(listing[n], v)
    BY <1>4, <1>5 DEF Flattened
  <2>. QED
    BY <2>1, ListingOnce
<1>8. ASSUME NEW l, NEW p, Len(Reports(s, p)) <= 1
      PROVE  Single(z, About(l, p))
  <2>1. \A n \in 1 .. Len(listing) : \A v :
          Holds(ss[n], v) /\ v \in About(l, p) => listing[n] = p
    BY <1>5, <1>6 DEF About
  <2>2. ASSUME NEW n \in 1 .. Len(listing)
        PROVE  Single(ss[n], About(l, p))
    <3>1. CASE listing[n] = p
      BY <1>2, <1>3, <1>8, <3>1, PathReports
    <3>2. CASE listing[n] # p
      <4>1. \A k \in 1 .. Len(ss[n]) : ss[n][k] \notin About(l, p)
        BY <2>1, <3>2 DEF Holds
      <4>. QED
        BY <4>1 DEF Single
    <3>. QED
      BY <3>1, <3>2
  <2>3. \A i, j \in 1 .. Len(listing) : i = j \/ Separate(ss[i], ss[j], About(l, p))
    BY <2>1, ListingOnce DEF Separate
  <2>4. About(l, p) \in SUBSET Job
    BY DEF About
  <2>. QED
    BY <1>4, <2>2, <2>3, <2>4 DEF Flattened
<1>. QED
  BY <1>1, <1>4, <1>7, <1>8 DEF Flattened, z, Reported

-----------------------------------------------------------------------------
(* What x \o y is.                                                         *)
LEMMA Concat ==
  ASSUME NEW S, NEW x \in Seq(S), NEW y \in Seq(S)
  PROVE  /\ x \o y \in Seq(S) /\ Len(x \o y) = Len(x) + Len(y)
         /\ Len(x) \in Nat /\ Len(y) \in Nat
         /\ \A n \in 1 .. Len(x) : (x \o y)[n] = x[n]
         /\ \A n \in 1 .. Len(y) : (x \o y)[Len(x) + n] = y[n]
OBVIOUS

(* Two elements one after the other.                                       *)
LEMMA Pair ==
  ASSUME NEW S, NEW d \in S, NEW e \in S
  PROVE  <<d>> \o <<e>> = <<d, e>> /\ <<d, e>> \in Seq(S)
<1>. DEFINE x == <<d>>
            y == <<e>>
            z == <<d, e>>
<1>1. x \in Seq(S) /\ Len(x) = 1 /\ x[1] = d /\ y \in Seq(S) /\ Len(y) = 1 /\ y[1] = e
  OBVIOUS
<1>2. Len(z) = 2 /\ z[1] = d /\ z[2] = e /\ DOMAIN z = 1 .. 2
  OBVIOUS
<1>4. z \in Seq(S)
  OBVIOUS
<1>. HIDE DEF x, y, z
<1>3. /\ x \o y \in Seq(S) /\ Len(x \o y) = Len(x) + Len(y)
      /\ \A n \in 1 .. Len(x) : (x \o y)[n] = x[n]
      /\ \A n \in 1 .. Len(y) : (x \o y)[Len(x) + n] = y[n]
  BY <1>1, Concat
<1>7. Len(x \o y) = 2 /\ (x \o y)[1] = d /\ (x \o y)[2] = e
  BY <1>1, <1>3
<1>5. \A a, b \in Seq(S) : Len(a) = Len(b) /\ (\A n \in 1 .. Len(a) : a[n] = b[n]) => a = b
  OBVIOUS
<1>6. x \o y = z
  BY <1>2, <1>3, <1>4, <1>5, <1>7
<1>. QED
  BY <1>4, <1>6 DEF x, y, z

-----------------------------------------------------------------------------
(* The types.                                                              *)
LEMMA SetTyped ==
  ASSUME NEW A, NEW B, NEW C, NEW f \in [A -> [B -> C]], NEW a \in A, NEW b \in B, NEW c \in C
  PROVE  /\ Set(f, a, b, c) \in [A -> [B -> C]]
         /\ \A x \in A, y \in B : Set(f, a, b, c)[x][y] = IF x = a /\ y = b THEN c ELSE f[x][y]
BY DEF Set

LEMMA EntriesTyped ==
  ASSUME TypeOK, NEW s \in Sites, NEW p \in Paths
  PROVE  /\ disk[s] \in [Paths -> Versions] /\ disk[s][p] \in Versions
         /\ tracked[s][p] \in Seq(BOOLEAN) /\ Len(tracked[s][p]) \in Nat
BY DEF TypeOK

LEMMA ChanTyped ==
  ASSUME TypeOK, NEW l \in Links
  PROVE  chan[l] \in Seq(Message) /\ Len(chan[l]) \in Nat /\ request[l] \in Message
BY DEF TypeOK

(* A message taken from a connection.                                      *)
LEMMA ChanTail ==
  ASSUME TypeOK, NEW l \in Links, chan[l] # <<>>, chan' = [chan EXCEPT ![l] = Tail(@)]
  PROVE  /\ Head(chan[l]) \in Message
         /\ chan' \in [Links -> Seq(Message)] /\ \A k \in Links : Len(chan'[k]) <= Buffer
         /\ chan'[l] = Tail(chan[l]) /\ \A k \in Links : k = l \/ chan'[k] = chan[k]
<1>1. chan[l] \in Seq(Message) /\ Len(chan[l]) <= Buffer
  BY DEF TypeOK
<1>2. /\ Head(chan[l]) \in Message /\ Tail(chan[l]) \in Seq(Message)
      /\ Len(Tail(chan[l])) <= Buffer
  BY <1>1, BoundsAssumption
<1>. QED
  BY <1>2 DEF TypeOK

(* What a thread has still to send.                                        *)
OutboxOK ==
  /\ outbox \in [Threads -> Seq(Job)]
  /\ \A t \in Threads : outbox[t] # <<>> => IF t \in Sites THEN monitor[t] = "report"
                                            ELSE receiver[t] = "relay"
ThreadsOK ==
  /\ monitor \in [Sites -> {"idle", "report"}]
  /\ receiver \in [Links -> {"recv", "lock", "data", "relay"}]
  /\ request \in [Links -> Message] /\ lost \subseteq Links
ChanOK == chan \in [Links -> Seq(Message)] /\ \A l \in Links : Len(chan[l]) <= Buffer
SitesOK ==
  /\ disk \in [Sites -> [Paths -> Versions]]
  /\ tracked \in [Sites -> [Paths -> Seq(BOOLEAN)]]
HistoryOK ==
  /\ author \in [Paths -> Sites] /\ crossed \subseteq Paths /\ acted \subseteq Sites
  /\ torn \in BOOLEAN /\ changes \in 0 .. MaxChanges

LEMMA TypeParts == TypeOK <=> OutboxOK /\ ThreadsOK /\ ChanOK /\ SitesOK /\ HistoryOK
BY DEF TypeOK, OutboxOK, ThreadsOK, ChanOK, SitesOK, HistoryOK, Job

LEMMA TypePartsNext ==
  OutboxOK' /\ ThreadsOK' /\ ChanOK' /\ SitesOK' /\ HistoryOK' => TypeOK'
BY DEF TypeOK, OutboxOK, ThreadsOK, ChanOK, SitesOK, HistoryOK, Job

LEMMA OutdatedTyped ==
  ASSUME TypeOK, NEW s \in Sites, NEW p \in Paths
  PROVE  /\ Outdate(s, p) \in [Sites -> [Paths -> Seq(BOOLEAN)]]
         /\ \A x \in Sites, y \in Paths :
              /\ Len(Outdate(s, p)[x][y]) = Len(tracked[x][y])
              /\ (x = s /\ y = p) \/ Outdate(s, p)[x][y] = tracked[x][y]
<1>. DEFINE e == [n \in DOMAIN tracked[s][p] |-> FALSE]
<1>1. tracked[s][p] \in Seq(BOOLEAN)
  BY EntriesTyped
<1>2. e \in Seq(BOOLEAN) /\ Len(e) = Len(tracked[s][p])
  <2>1. DOMAIN tracked[s][p] = 1 .. Len(tracked[s][p]) /\ Len(tracked[s][p]) \in Nat
    BY <1>1
  <2>. QED
    BY <2>1
<1>. HIDE DEF e
<1>3. tracked \in [Sites -> [Paths -> Seq(BOOLEAN)]]
  BY DEF TypeOK
<1>4. Outdate(s, p) = Set(tracked, s, p, e)
  BY DEF Outdate, e
<1>5. /\ Set(tracked, s, p, e) \in [Sites -> [Paths -> Seq(BOOLEAN)]]
      /\ \A x \in Sites, y \in Paths :
           Set(tracked, s, p, e)[x][y] = IF x = s /\ y = p THEN e ELSE tracked[x][y]
  BY <1>2, <1>3 DEF Set
<1>. QED
  BY <1>2, <1>4, <1>5

LEMMA UserTyped ==
  ASSUME TypeOK, NEW s \in Sites, NEW p \in Paths, NEW v \in Versions, UserChanges(s, p, v)
  PROVE  TypeOK'
<1>. USE TypeParts
<1>1. OutboxOK' /\ ThreadsOK' /\ ChanOK'
  BY DEF UserChanges, threadVars, OutboxOK, ThreadsOK, ChanOK
<1>2. SitesOK'
  <2>1. disk' \in [Sites -> [Paths -> Versions]]
    BY SetTyped DEF UserChanges, SitesOK
  <2>. QED
    BY <2>1, OutdatedTyped DEF UserChanges, SitesOK
<1>3. HistoryOK'
  <2>1. author' \in [Paths -> Sites] /\ crossed' \subseteq Paths /\ acted' \subseteq Sites
    BY DEF UserChanges, HistoryOK
  <2>2. torn' \in BOOLEAN /\ changes' \in 0 .. MaxChanges
    BY BoundsAssumption DEF UserChanges, HistoryOK
  <2>. QED
    BY <2>1, <2>2 DEF HistoryOK
<1>. QED
  BY <1>1, <1>2, <1>3, TypePartsNext

(* The first entry is set.                                                 *)
LEMMA FirstSet ==
  ASSUME NEW q \in Seq(BOOLEAN)
  PROVE  /\ [q EXCEPT ![1] = TRUE] \in Seq(BOOLEAN) /\ Len([q EXCEPT ![1] = TRUE]) = Len(q)
         /\ q # <<>> => [q EXCEPT ![1] = TRUE][1]
<1>. DEFINE k == Len(q)
            e(n) == IF n = 1 THEN TRUE ELSE q[n]
            y == [n \in 1 .. k |-> e(n)]
<1>1. k \in Nat /\ DOMAIN q = 1 .. k /\ \A n \in 1 .. k : q[n] \in BOOLEAN
  OBVIOUS
<1>3. q # <<>> => 1 \in 1 .. k
  OBVIOUS
<1>5. q = [n \in 1 .. k |-> q[n]]
  BY <1>1
<1>. HIDE DEF k
<1>2. [q EXCEPT ![1] = TRUE] = y
  BY <1>1, <1>5
<1>6. \A n \in 1 .. k : e(n) \in BOOLEAN
  BY <1>1
<1>7. e(1) = TRUE
  OBVIOUS
<1>. HIDE DEF e
<1>4. y \in Seq(BOOLEAN) /\ Len(y) = k
  BY <1>1, <1>6
<1>8. q # <<>> => y[1]
  BY <1>3, <1>7
<1>. QED
  BY <1>2, <1>4, <1>8 DEF k

LEMMA RoundTracked ==
  ASSUME TypeOK, NEW s \in Sites, Round(s)
  PROVE  /\ tracked' \in [Sites -> [Paths -> Seq(BOOLEAN)]]
         /\ \A x \in Sites, p \in Paths :
              tracked'[x][p] = IF x # s THEN tracked[x][p]
                               ELSE IF ~Exists(s, p) THEN <<>>
                               ELSE IF tracked[s][p] = <<>> THEN <<TRUE>>
                               ELSE [tracked[s][p] EXCEPT ![1] = TRUE]
<1>. DEFINE e(p) == IF ~Exists(s, p) THEN <<>>
                    ELSE IF tracked[s][p] = <<>> THEN <<TRUE>>
                    ELSE [tracked[s][p] EXCEPT ![1] = TRUE]
<1>1. ASSUME NEW p \in Paths
      PROVE  e(p) \in Seq(BOOLEAN)
  <2>1. tracked[s][p] \in Seq(BOOLEAN)
    BY EntriesTyped
  <2>2. [tracked[s][p] EXCEPT ![1] = TRUE] \in Seq(BOOLEAN)
    BY <2>1, FirstSet
  <2>3. <<>> \in Seq(BOOLEAN) /\ <<TRUE>> \in Seq(BOOLEAN)
    OBVIOUS
  <2>. QED
    BY <2>2, <2>3
<1>2. tracked' = [tracked EXCEPT ![s] = [p \in Paths |-> e(p)]]
  BY DEF Round
<1>3. tracked \in [Sites -> [Paths -> Seq(BOOLEAN)]]
  BY DEF TypeOK
<1>. HIDE DEF e
<1>4. /\ tracked' \in [Sites -> [Paths -> Seq(BOOLEAN)]]
      /\ \A x \in Sites, p \in Paths : tracked'[x][p] = IF x # s THEN tracked[x][p] ELSE e(p)
  BY <1>1, <1>2, <1>3
<1>. QED
  BY <1>4 DEF e

LEMMA RoundTyped ==
  ASSUME TypeOK, NEW s \in Sites, Round(s)
  PROVE  TypeOK'
<1>. USE TypeParts
<1>1. OutboxOK' /\ ThreadsOK'
  <2>1. RoundJobs(s) \in Seq(Job)
    BY RoundReports
  <2>2. OutboxOK'
    BY <2>1, ThreadKinds DEF Round, OutboxOK, ThreadsOK
  <2>. QED
    BY <2>2 DEF Round, ThreadsOK
<1>2. ChanOK' /\ HistoryOK'
  BY DEF Round, ChanOK, HistoryOK, historyVars
<1>3. SitesOK'
  BY RoundTracked DEF Round, SitesOK
<1>. QED
  BY <1>1, <1>2, <1>3, TypePartsNext

(* What a thread puts before the rest of its outbox when it sends a header. *)
Content(t) ==
  LET job == Head(outbox[t])
      m == job.message
  IN  IF m.type \in Headers /\ Readable(t, m.path)
      THEN Jobs(Msg("DATA", m.path, disk[Owner(t)][m.path]), <<job.link>>)
             \o Jobs(Msg("END", m.path, None), <<job.link>>)
      ELSE <<>>

LEMMA OwnerTyped ==
  ASSUME NEW t \in Threads
  PROVE  Owner(t) \in Sites
BY ThreadKinds, LinkEnds DEF Owner

LEMMA OutboxTyped ==
  ASSUME TypeOK, NEW t \in Threads
  PROVE  /\ outbox[t] \in Seq(Job) /\ Len(outbox[t]) \in Nat
         /\ outbox[t] # <<>> =>
              /\ Head(outbox[t]) \in Job /\ Head(outbox[t]).link \in Links
              /\ Head(outbox[t]).message \in Message
              /\ Head(outbox[t]).message.path \in Paths
              /\ Tail(outbox[t]) \in Seq(Job)
<1>1. outbox[t] \in Seq(Job)
  BY TypeParts DEF OutboxOK
<1>2. outbox[t] # <<>> => Head(outbox[t]) \in Job /\ Tail(outbox[t]) \in Seq(Job)
  BY <1>1
<1>. QED
  BY <1>1, <1>2 DEF Job, Message

(* It is the content and the end of the transfer, on the same connection.  *)
LEMMA ContentTyped ==
  ASSUME TypeOK, NEW t \in Threads, outbox[t] # <<>>
  PROVE  LET job == Head(outbox[t])
             p == job.message.path
             d == JobOf(job.link, Msg("DATA", p, disk[Owner(t)][p]))
             e == JobOf(job.link, Msg("END", p, None))
         IN  /\ d \in Job /\ e \in Job
             /\ (Content(t) = <<d, e>> /\ Exists(Owner(t), p)) \/ Content(t) = <<>>
<1>. DEFINE job == Head(outbox[t])
            p == job.message.path
            l == job.link
            v == disk[Owner(t)][p]
            d == JobOf(l, Msg("DATA", p, v))
            e == JobOf(l, Msg("END", p, None))
<1>1. l \in Links /\ p \in Paths
  BY OutboxTyped
<1>2. v \in Versions
  BY <1>1, OwnerTyped, EntriesTyped
<1>3. Msg("DATA", p, v) \in Message /\ Msg("END", p, None) \in Message
  BY <1>1, <1>2, MessageTyped, NoneTyped
<1>4. d \in Job /\ e \in Job
  BY <1>1, <1>3 DEF JobOf, Job
<1>5. Jobs(Msg("DATA", p, v), <<l>>) = <<d>> /\ Jobs(Msg("END", p, None), <<l>>) = <<e>>
  BY DEF Jobs, JobOf
<1>. DEFINE a == Jobs(Msg("DATA", p, v), <<l>>)
            b == Jobs(Msg("END", p, None), <<l>>)
<1>8. (Content(t) = a \o b /\ Exists(Owner(t), p)) \/ Content(t) = <<>>
  <2>1. Content(t) = IF job.message.type \in Headers /\ Readable(t, p) THEN a \o b ELSE <<>>
    BY DEF Content
  <2>2. Readable(t, p) => Exists(Owner(t), p)
    BY DEF Readable
  <2>. HIDE DEF a, b, p, job
  <2>. QED
    BY <2>1, <2>2
<1>. HIDE DEF d, e, a, b
<1>6. (Content(t) = <<d>> \o <<e>> /\ Exists(Owner(t), p)) \/ Content(t) = <<>>
  BY <1>5, <1>8 DEF a, b
<1>7. <<d>> \o <<e>> = <<d, e>>
  BY <1>4, Pair
<1>. QED
  BY <1>4, <1>6, <1>7 DEF d, e

LEMMA SendParts ==
  ASSUME NEW t, Send(t)
  PROVE  /\ outbox[t] # <<>> /\ Room(Head(outbox[t]).link)
         /\ chan' = [chan EXCEPT ![Head(outbox[t]).link] = Append(@, Head(outbox[t]).message)]
         /\ outbox' = [outbox EXCEPT ![t] = Content(t) \o Tail(outbox[t])]
         /\ torn' \in BOOLEAN
         /\ IF t \in Sites
            THEN /\ monitor' = IF Content(t) \o Tail(outbox[t]) = <<>>
                               THEN [monitor EXCEPT ![t] = "idle"] ELSE monitor
                 /\ UNCHANGED receiver
            ELSE /\ receiver' = IF Content(t) \o Tail(outbox[t]) = <<>>
                                THEN [receiver EXCEPT ![t] = "recv"] ELSE receiver
                 /\ UNCHANGED monitor
         /\ UNCHANGED <<siteVars, request, lost, historyVars, changes>>
<1>. DEFINE tear == Head(outbox[t]).message.type \in Headers /\ Content(t) = <<>>
<1>1. torn' = (torn \/ tear)
  BY DEF Send, Content
<1>2. torn' \in BOOLEAN
  BY <1>1
<1>. QED
  BY <1>2 DEF Send, Content

LEMMA SendTyped ==
  ASSUME TypeOK, NEW t \in Threads, Send(t)
  PROVE  TypeOK'
<1>. USE TypeParts
<1>. DEFINE l == Head(outbox[t]).link
            m == Head(outbox[t]).message
            rest == Content(t) \o Tail(outbox[t])
<1>1. outbox[t] # <<>> /\ l \in Links /\ m \in Message
  BY SendParts, OutboxTyped
<1>2. rest \in Seq(Job)
  <2>1. Content(t) \in Seq(Job)
    <3>1. PICK d \in Job, e \in Job : Content(t) = <<d, e>> \/ Content(t) = <<>>
      BY <1>1, ContentTyped
    <3>2. <<d, e>> \in Seq(Job)
      BY Pair
    <3>3. <<>> \in Seq(Job)
      OBVIOUS
    <3>. QED
      BY <3>1, <3>2, <3>3, Zenon
  <2>. QED
    BY <1>1, <2>1, OutboxTyped
<1>. HIDE DEF l, m, rest
<1>3. ChanOK'
  <2>1. chan' = [chan EXCEPT ![l] = Append(@, m)] /\ Len(chan[l]) < Buffer
    BY SendParts DEF l, m, Room
  <2>2. chan[l] \in Seq(Message)
    BY <1>1 DEF ChanOK
  <2>3. Append(chan[l], m) \in Seq(Message) /\ Len(Append(chan[l], m)) <= Buffer
    BY <1>1, <2>1, <2>2, BoundsAssumption
  <2>. QED
    BY <1>1, <2>1, <2>3 DEF ChanOK
<1>4. outbox' = [outbox EXCEPT ![t] = rest]
  BY SendParts DEF rest
<1>5. /\ t \in Sites =>
           /\ monitor' = IF rest = <<>> THEN [monitor EXCEPT ![t] = "idle"] ELSE monitor
           /\ receiver' = receiver
      /\ t \notin Sites =>
           /\ receiver' = IF rest = <<>> THEN [receiver EXCEPT ![t] = "recv"] ELSE receiver
           /\ monitor' = monitor
  BY SendParts DEF rest
<1>6. t \notin Sites => t \in Links
  BY ThreadKinds
<1>7. monitor' \in [Sites -> {"idle", "report"}]
  BY <1>5 DEF ThreadsOK
<1>8. receiver' \in [Links -> {"recv", "lock", "data", "relay"}]
  BY <1>5, <1>6 DEF ThreadsOK
<1>9. OutboxOK'
  <2>1. outbox' \in [Threads -> Seq(Job)]
    BY <1>2, <1>4 DEF OutboxOK
  <2>2. ASSUME NEW x \in Threads, outbox'[x] # <<>>
        PROVE  IF x \in Sites THEN monitor'[x] = "report" ELSE receiver'[x] = "relay"
    <3>1. CASE x = t
      BY <1>1, <1>4, <1>5, <2>2, <3>1 DEF OutboxOK
    <3>2. CASE x # t
      <4>1. outbox[x] # <<>>
        BY <1>4, <2>2, <3>2 DEF OutboxOK
      <4>2. x \notin Sites => x \in Links
        BY ThreadKinds
      <4>. QED
        BY <1>5, <1>6, <3>2, <4>1, <4>2 DEF OutboxOK, ThreadsOK
    <3>. QED
      BY <3>1, <3>2
  <2>. QED
    BY <2>1, <2>2 DEF OutboxOK
<1>10. SitesOK' /\ HistoryOK' /\ request' \in [Links -> Message] /\ lost' \subseteq Links
  BY SendParts DEF siteVars, historyVars, SitesOK, HistoryOK, ThreadsOK
<1>. QED
  BY <1>3, <1>7, <1>8, <1>9, <1>10, TypePartsNext DEF ThreadsOK

LEMMA ReceiveTyped ==
  ASSUME TypeOK, NEW l \in Links, Receive(l)
  PROVE  TypeOK'
<1>. USE TypeParts
<1>1. ChanOK' /\ Head(chan[l]) \in Message
  BY ChanTail DEF Receive, ChanOK
<1>2. ThreadsOK'
  BY <1>1 DEF Receive, ThreadsOK
<1>3. OutboxOK'
  <2>1. \A t \in Threads : t \notin Sites => t \in Links
    BY ThreadKinds
  <2>. QED
    BY <2>1 DEF Receive, OutboxOK, ThreadsOK
<1>4. SitesOK' /\ HistoryOK'
  BY DEF Receive, siteVars, historyVars, SitesOK, HistoryOK
<1>. QED
  BY <1>1, <1>2, <1>3, <1>4, TypePartsNext

LEMMA PutTyped ==
  ASSUME TypeOK, NEW l \in Links, HandlePut(l)
  PROVE  TypeOK'
<1>. USE TypeParts
<1>1. To(l) \in Sites /\ request[l].path \in Paths
  BY LinkEnds, ChanTyped DEF Message
<1>2. ThreadsOK' /\ ChanOK' /\ HistoryOK'
  BY DEF HandlePut, historyVars, ThreadsOK, ChanOK, HistoryOK
<1>3. OutboxOK'
  <2>1. \A t \in Threads : t \notin Sites => t \in Links
    BY ThreadKinds
  <2>. QED
    BY <2>1 DEF HandlePut, OutboxOK, ThreadsOK
<1>4. SitesOK'
  <2>1. disk' \in [Sites -> [Paths -> Versions]]
    BY <1>1, NoneTyped DEF HandlePut, SitesOK, Set
  <2>. QED
    BY <1>1, <2>1, OutdatedTyped DEF HandlePut, SitesOK
<1>. QED
  BY <1>2, <1>3, <1>4, TypePartsNext

LEMMA DataTyped ==
  ASSUME TypeOK, NEW l \in Links, HandleData(l)
  PROVE  TypeOK'
<1>. USE TypeParts
<1>1. To(l) \in Sites /\ request[l].path \in Paths
  BY LinkEnds, ChanTyped DEF Message
<1>2. ChanOK' /\ Head(chan[l]) \in Message
  BY ChanTail DEF HandleData, ReadNext, ChanOK
<1>3. ThreadsOK' /\ OutboxOK' /\ HistoryOK'
  BY DEF HandleData, threadVars, historyVars, ThreadsOK, OutboxOK, HistoryOK
<1>4. SitesOK'
  <2>1. Head(chan[l]).content \in Versions
    BY <1>2 DEF Message
  <2>. QED
    BY <1>1, <2>1 DEF HandleData, SitesOK, Set
<1>. QED
  BY <1>2, <1>3, <1>4, TypePartsNext

(* The relay of a request.                                                 *)
LEMMA RelayTyped ==
  ASSUME TypeOK, NEW l \in Links, Relay(l)
  PROVE  /\ Jobs(request[l], Others(l)) \in Seq(Job)
         /\ outbox' = [outbox EXCEPT ![l] = Jobs(request[l], Others(l))]
         /\ UNCHANGED monitor => OutboxOK'
         /\ receiver' \in [Links -> {"recv", "lock", "data", "relay"}]
<1>. USE TypeParts
<1>. DEFINE jobs == Jobs(request[l], Others(l))
<1>1. jobs \in Seq(Job)
  BY JobsOf, LinksOfRelay, ChanTyped
<1>2. /\ outbox' = [outbox EXCEPT ![l] = jobs]
      /\ receiver' = [receiver EXCEPT ![l] = IF jobs = <<>> THEN "recv" ELSE "relay"]
  BY DEF Relay
<1>. HIDE DEF jobs
<1>3. ASSUME monitor' = monitor
      PROVE  OutboxOK'
  <2>1. outbox' \in [Threads -> Seq(Job)]
    BY <1>1, <1>2 DEF OutboxOK
  <2>2. \A t \in Threads : t \notin Sites => t \in Links
    BY ThreadKinds
  <2>3. l \in Threads /\ l \notin Sites
    BY ThreadKinds
  <2>4. ASSUME NEW t \in Threads, outbox'[t] # <<>>
        PROVE  IF t \in Sites THEN monitor'[t] = "report" ELSE receiver'[t] = "relay"
    BY <1>2, <1>3, <2>2, <2>3, <2>4 DEF OutboxOK, ThreadsOK
  <2>. QED
    BY <2>1, <2>4 DEF OutboxOK
<1>4. receiver' \in [Links -> {"recv", "lock", "data", "relay"}]
  BY <1>2 DEF ThreadsOK
<1>. QED
  BY <1>1, <1>2, <1>3, <1>4 DEF jobs

(* What an applied request leaves of the entries.                          *)
LEMMA RecordedEntries ==
  ASSUME NEW e \in Seq(BOOLEAN), NEW m
  PROVE  /\ Recorded(e, m) \in Seq(BOOLEAN)
         /\ Len(Recorded(e, m)) = IF m.type = "CREATE" THEN Len(e) + 1 ELSE Len(e)
         /\ (e = <<>> <=> m.type = "CREATE")
              => Recorded(e, m) # <<>> /\ Recorded(e, m)[1]
<1>1. Append(e, TRUE) \in Seq(BOOLEAN) /\ Len(Append(e, TRUE)) = Len(e) + 1
  OBVIOUS
<1>2. e = <<>> => Append(e, TRUE) # <<>> /\ Append(e, TRUE)[1]
  OBVIOUS
<1>3. [e EXCEPT ![1] = TRUE] # <<>> \/ e = <<>>
  <2>1. e # <<>> => Len(e) # 0
    OBVIOUS
  <2>. QED
    BY <2>1, FirstSet
<1>. QED
  BY <1>1, <1>2, <1>3, FirstSet DEF Recorded

LEMMA EndTyped ==
  ASSUME TypeOK, NEW l \in Links, HandleEnd(l)
  PROVE  TypeOK'
<1>. USE TypeParts
<1>1. To(l) \in Sites /\ request[l].path \in Paths
  BY LinkEnds, ChanTyped DEF Message
<1>2. ChanOK'
  BY ChanTail DEF HandleEnd, ReadNext, ChanOK
<1>3. OutboxOK' /\ ThreadsOK'
  BY RelayTyped DEF HandleEnd, ThreadsOK
<1>4. SitesOK'
  <2>1. Recorded(tracked[To(l)][request[l].path], request[l]) \in Seq(BOOLEAN)
    BY <1>1, EntriesTyped, RecordedEntries
  <2>. QED
    BY <1>1, <2>1 DEF HandleEnd, SitesOK, Set
<1>5. HistoryOK'
  BY DEF HandleEnd, historyVars, HistoryOK
<1>. QED
  BY <1>2, <1>3, <1>4, <1>5, TypePartsNext

LEMMA DeleteTyped ==
  ASSUME TypeOK, NEW l \in Links, HandleDelete(l)
  PROVE  TypeOK'
<1>. USE TypeParts
<1>1. To(l) \in Sites /\ request[l].path \in Paths
  BY LinkEnds, ChanTyped DEF Message
<1>2. OutboxOK' /\ ThreadsOK'
  BY RelayTyped DEF HandleDelete, ThreadsOK
<1>3. SitesOK'
  <2>. DEFINE e == tracked[To(l)][request[l].path]
  <2>1. e \in Seq(BOOLEAN)
    BY <1>1, EntriesTyped
  <2>. HIDE DEF e
  <2>3. e # <<>> => Tail(e) \in Seq(BOOLEAN)
    BY <2>1
  <2>2. (IF e = <<>> THEN e ELSE Tail(e)) \in Seq(BOOLEAN)
    BY <2>1, <2>3
  <2>. QED
    BY <1>1, <2>2, NoneTyped DEF HandleDelete, SitesOK, Set, e
<1>4. HistoryOK' /\ ChanOK'
  BY DEF HandleDelete, historyVars, HistoryOK, ChanOK
<1>. QED
  BY <1>2, <1>3, <1>4, TypePartsNext

LEMMA StutterTyped ==
  ASSUME TypeOK, UNCHANGED vars
  PROVE  TypeOK'
BY DEF TypeOK, vars, siteVars, threadVars, historyVars

(* A step is one of these.                                                 *)
LEMMA StepCases ==
  ASSUME Next
  PROVE  \/ \E s \in Sites, p \in Paths : UserWrites(s, p) \/ UserRemoves(s, p)
         \/ \E s \in Sites : Round(s)
         \/ \E t \in Threads : Send(t)
         \/ \E l \in Links : \/ Receive(l) \/ HandlePut(l) \/ HandleData(l)
                             \/ HandleEnd(l) \/ HandleDelete(l)
BY ThreadKinds DEF Next, MonitorStep, ReceiverStep

LEMMA WriterVersion ==
  ASSUME TypeOK, NEW s \in Sites, NEW p \in Paths, UserWrites(s, p)
  PROVE  changes + 1 \in Versions /\ changes + 1 # None
BY BoundsAssumption DEF UserWrites, UserChanges, TypeOK, Versions, None

LEMMA TypeStep == TypeOK /\ [Next]_vars => TypeOK'
<1>. SUFFICES ASSUME TypeOK, [Next]_vars
              PROVE  TypeOK'
  OBVIOUS
<1>1. ASSUME NEW s \in Sites, NEW p \in Paths, UserWrites(s, p)
      PROVE  TypeOK'
  BY <1>1, WriterVersion, UserTyped DEF UserWrites
<1>2. ASSUME NEW s \in Sites, NEW p \in Paths, UserRemoves(s, p)
      PROVE  TypeOK'
  BY <1>2, NoneTyped, UserTyped DEF UserRemoves
<1>. QED
  BY <1>1, <1>2, StepCases, RoundTyped, SendTyped, ReceiveTyped, PutTyped, DataTyped, EndTyped,
     DeleteTyped, StutterTyped

LEMMA TypeInit == Init => TypeOK
<1>. SUFFICES ASSUME Init
              PROVE  TypeOK
  OBVIOUS
<1>1. NoRequest \in Message
  BY ListingOnce, MessageTyped, NoneTyped DEF NoRequest
<1>2. server \in Sites /\ <<>> \in Seq(BOOLEAN) /\ <<>> \in Seq(Job) /\ <<>> \in Seq(Message)
      /\ Len(<<>>) = 0
  BY DEF Sites
<1>3. OutboxOK /\ ThreadsOK
  BY <1>1, <1>2 DEF Init, OutboxOK, ThreadsOK
<1>4. ChanOK /\ SitesOK
  BY <1>2, NoneTyped, BoundsAssumption DEF Init, ChanOK, SitesOK
<1>5. HistoryOK
  <2>1. author \in [Paths -> Sites] /\ crossed \subseteq Paths /\ acted \subseteq Sites
    BY <1>2 DEF Init
  <2>2. torn \in BOOLEAN
    BY DEF Init
  <2>3. changes \in 0 .. MaxChanges
    BY BoundsAssumption DEF Init
  <2>. QED
    BY <2>1, <2>2, <2>3 DEF HistoryOK
<1>. QED
  BY <1>3, <1>4, <1>5, TypeParts

(* Every variable keeps its type, and only a thread in its round or relay  *)
(* has messages to send.                                                   *)
THEOREM TypeCorrect == Spec => []TypeOK
BY TypeInit, TypeStep, PTL DEF Spec

-----------------------------------------------------------------------------
(* The changes of one user flow outward: over its site's connections, and  *)
(* from the server to everyone else.                                       *)
Outward(u, l) == From(l) = u \/ (From(l) = server /\ To(l) # u)
Source(u, l) == IF From(l) = u THEN u ELSE <<u, server>>

(* What a request does to the number of entries of its path.               *)
Applies(type, a, b) ==
  a = (IF type = "CREATE" THEN 0 ELSE 1) /\ b = (IF type = "DELETE" THEN 0 ELSE 1)
Step(l, p, j, a, b) ==
  IF j.link = l /\ j.message.path = p /\ j.message.type \in Types
  THEN Applies(j.message.type, a, b)
  ELSE a = b
Run(x, l, p, a, b) ==
  \E f \in [0 .. Len(x) -> {0, 1}] :
    /\ f[0] = a /\ f[Len(x)] = b
    /\ \A n \in 1 .. Len(x) : Step(l, p, x[n], f[n - 1], f[n])
Lifted(q, l) == [n \in 1 .. Len(q) |-> JobOf(l, q[n])]

(* The requests about p between the ends of l lead from the entries the    *)
(* receiver has to those the sender has: the one the receiving thread      *)
(* holds, those in the socket buffers, those still to be sent.             *)
Taken(l, p, a) ==
  IF receiver[l] \in {"lock", "data"}
  THEN Step(l, p, JobOf(l, request[l]), Len(tracked[To(l)][p]), a)
  ELSE a = Len(tracked[To(l)][p])
Legal(u, l, p) ==
  \E a, b \in {0, 1} :
    /\ Taken(l, p, a)
    /\ Run(Lifted(chan[l], l), l, p, a, b)
    /\ Run(outbox[Source(u, l)], l, p, b, Len(tracked[From(l)][p]))

(* Nothing about p is anywhere but on its way outward.                     *)
Courses(u, p) ==
  /\ \A l \in Links, m \in Message : Holds(chan[l], m) /\ m.path = p => Outward(u, l)
  /\ \A l \in Links : receiver[l] # "recv" /\ request[l].path = p => Outward(u, l)
  /\ \A t \in Threads, j \in Job : Holds(outbox[t], j) /\ j.message.path = p =>
       Outward(u, j.link) /\ t = Source(u, j.link)
Once(p) == \A s \in Sites : Len(tracked[s][p]) <= 1
(* Every site but the user's knows what it has, or is receiving it.        *)
Fresh(u, p) ==
  \A l \in Links : Outward(u, l) =>
    IF receiver[l] = "data" /\ request[l].path = p THEN Exists(To(l), p) ELSE Known(To(l), p)
Lawful(u, p) == \A l \in Links : Outward(u, l) /\ l \notin lost => Legal(u, l, p)
Flow(u, p) == Courses(u, p) /\ Once(p) /\ Fresh(u, p) /\ Lawful(u, p)

(* Content is content, and a thread in a transfer holds its header.        *)
Wellformed ==
  /\ \A l \in Links, m \in Message :
       Holds(chan[l], m) /\ m.type = "DATA" => m.content # None
  /\ \A t \in Threads, j \in Job :
       Holds(outbox[t], j) /\ j.message.type = "DATA" => j.message.content # None
  /\ \A l \in Links : /\ receiver[l] = "data" => request[l].type \in Headers
                      /\ l \in lost => receiver[l] \in {"recv", "relay"}


-----------------------------------------------------------------------------
(* Runs: what a sequence of jobs does to a number of entries.              *)
Bit == {0, 1}

LEMMA RunNothing ==
  ASSUME NEW l, NEW p, NEW a, NEW b
  PROVE  Run(<<>>, l, p, a, b) <=> a = b /\ a \in Bit
<1>1. Run(<<>>, l, p, a, b) => a = b /\ a \in Bit
  BY DEF Run, Bit
<1>2. ASSUME a \in Bit
      PROVE  Run(<<>>, l, p, a, a)
  <2>. DEFINE f == [n \in 0 .. 0 |-> a]
  <2>1. f \in [0 .. Len(<<>>) -> {0, 1}] /\ f[0] = a /\ f[Len(<<>>)] = a
    BY <1>2 DEF Bit
  <2>. HIDE DEF f
  <2>. QED
    BY <2>1 DEF Run
<1>. QED
  BY <1>1, <1>2

(* Jobs about something else change nothing.                               *)
Neutral(l, p, j) == \A a, b : Step(l, p, j, a, b) <=> a = b

LEMMA NeutralIf ==
  ASSUME NEW l, NEW p, NEW j,
         j.link # l \/ j.message.path # p \/ j.message.type \notin Types
  PROVE  Neutral(l, p, j)
BY DEF Neutral, Step

LEMMA RunNeutral ==
  ASSUME NEW x \in Seq(Job), NEW l, NEW p, NEW a \in Bit,
         \A n \in 1 .. Len(x) : Neutral(l, p, x[n])
  PROVE  Run(x, l, p, a, a)
<1>. DEFINE f == [n \in 0 .. Len(x) |-> a]
<1>1. Len(x) \in Nat
  OBVIOUS
<1>2. f \in [0 .. Len(x) -> {0, 1}] /\ f[0] = a /\ f[Len(x)] = a
  BY <1>1 DEF Bit
<1>3. \A n \in 1 .. Len(x) : f[n - 1] = a /\ f[n] = a
  BY <1>1
<1>4. \A n \in 1 .. Len(x) : Step(l, p, x[n], f[n - 1], f[n])
  BY <1>3 DEF Neutral
<1>. HIDE DEF f
<1>. QED
  BY <1>2, <1>4 DEF Run

(* One request among others that are not about the path.                   *)
LEMMA RunOne ==
  ASSUME NEW x \in Seq(Job), NEW l, NEW p, NEW a \in Bit, NEW b \in Bit, NEW k \in 1 .. Len(x),
         Step(l, p, x[k], a, b),
         \A n \in 1 .. Len(x) : n = k \/ Neutral(l, p, x[n])
  PROVE  Run(x, l, p, a, b)
<1>. DEFINE f == [n \in 0 .. Len(x) |-> IF n < k THEN a ELSE b]
<1>1. Len(x) \in Nat
  OBVIOUS
<1>2. f \in [0 .. Len(x) -> {0, 1}] /\ f[0] = a /\ f[Len(x)] = b
  BY <1>1 DEF Bit
<1>3. ASSUME NEW n \in 1 .. Len(x)
      PROVE  Step(l, p, x[n], f[n - 1], f[n])
  <2>1. CASE n = k
    <3>1. f[n - 1] = a /\ f[n] = b
      BY <1>1, <2>1
    <3>. QED
      BY <2>1, <3>1
  <2>2. CASE n # k
    <3>1. f[n - 1] = f[n]
      BY <1>1, <2>2
    <3>. QED
      BY <2>2, <3>1 DEF Neutral
  <2>. QED
    BY <2>1, <2>2
<1>. HIDE DEF f
<1>. QED
  BY <1>2, <1>3 DEF Run

(* A run and the run of what follows.                                      *)
LEMMA RunConcat ==
  ASSUME NEW x \in Seq(Job), NEW y \in Seq(Job), NEW l, NEW p, NEW a, NEW b, NEW c,
         Run(x, l, p, a, b), Run(y, l, p, b, c)
  PROVE  Run(x \o y, l, p, a, c)
<1>1. PICK f \in [0 .. Len(x) -> {0, 1}] :
        /\ f[0] = a /\ f[Len(x)] = b
        /\ \A n \in 1 .. Len(x) : Step(l, p, x[n], f[n - 1], f[n])
  BY DEF Run
<1>2. PICK g \in [0 .. Len(y) -> {0, 1}] :
        /\ g[0] = b /\ g[Len(y)] = c
        /\ \A n \in 1 .. Len(y) : Step(l, p, y[n], g[n - 1], g[n])
  BY DEF Run
<1>. DEFINE z == x \o y
            k == Len(x)
            h == [n \in 0 .. Len(z) |-> IF n < k THEN f[n] ELSE g[n - k]]
<1>3. /\ z \in Seq(Job) /\ Len(z) = k + Len(y) /\ k \in Nat /\ Len(y) \in Nat
      /\ \A n \in 1 .. k : z[n] = x[n]
      /\ \A n \in 1 .. Len(y) : z[k + n] = y[n]
  BY Concat
<1>. HIDE DEF z, k
<1>4. \A n \in 0 .. Len(z) : n >= k => n - k \in 0 .. Len(y)
  BY <1>3
<1>5. h \in [0 .. Len(z) -> {0, 1}]
  BY <1>1, <1>2, <1>3, <1>4 DEF k
<1>6. h[0] = a /\ h[Len(z)] = c
  <2>1. h[0] = a
    BY <1>1, <1>2, <1>3 DEF k
  <2>2. h[Len(z)] = c
    BY <1>2, <1>3
  <2>. QED
    BY <2>1, <2>2
<1>7. ASSUME NEW n \in 1 .. Len(z)
      PROVE  Step(l, p, z[n], h[n - 1], h[n])
  <2>1. CASE n \in 1 .. k
    <3>1. h[n - 1] = f[n - 1]
      BY <1>3, <2>1
    <3>2. h[n] = f[n]
      <4>1. CASE n < k
        BY <1>3, <2>1, <4>1
      <4>2. CASE n = k
        BY <1>1, <1>2, <1>3, <4>2 DEF k
      <4>. QED
        BY <1>3, <2>1, <4>1, <4>2
    <3>. QED
      BY <1>1, <1>3, <2>1, <3>1, <3>2 DEF k
  <2>2. CASE n \notin 1 .. k
    <3>. DEFINE m == n - k
    <3>1. m \in 1 .. Len(y) /\ n = k + m
      BY <1>3, <2>2
    <3>2. h[n - 1] = g[m - 1] /\ h[n] = g[m]
      BY <1>3, <2>2
    <3>3. z[n] = y[m]
      BY <1>3, <3>1
    <3>. HIDE DEF m, h
    <3>. QED
      BY <1>2, <3>1, <3>2, <3>3
  <2>. QED
    BY <2>1, <2>2
<1>. HIDE DEF h
<1>. QED
  BY <1>5, <1>6, <1>7 DEF Run, z

(* A run after its first job.                                              *)
LEMMA RunHead ==
  ASSUME NEW x \in Seq(Job), x # <<>>, NEW l, NEW p, NEW a, NEW c, Run(x, l, p, a, c)
  PROVE  \E b \in Bit : Step(l, p, Head(x), a, b) /\ Run(Tail(x), l, p, b, c)
<1>1. PICK f \in [0 .. Len(x) -> {0, 1}] :
        /\ f[0] = a /\ f[Len(x)] = c
        /\ \A n \in 1 .. Len(x) : Step(l, p, x[n], f[n - 1], f[n])
  BY DEF Run
<1>. DEFINE y == Tail(x)
            k == Len(y)
            g == [n \in 0 .. k |-> f[n + 1]]
<1>2. /\ y \in Seq(Job) /\ k \in Nat /\ Len(x) = k + 1 /\ Head(x) = x[1]
      /\ \A n \in 1 .. k : y[n] = x[n + 1]
  OBVIOUS
<1>. HIDE DEF y, k
<1>3. g \in [0 .. k -> {0, 1}] /\ g[0] = f[1] /\ g[k] = c
  BY <1>1, <1>2
<1>4. Step(l, p, Head(x), a, f[1]) /\ f[1] \in Bit
  <2>1. 1 \in 1 .. Len(x) /\ 1 - 1 = 0 /\ 1 \in 0 .. Len(x)
    BY <1>2
  <2>2. Step(l, p, x[1], f[1 - 1], f[1])
    BY <1>1, <2>1
  <2>. QED
    BY <1>1, <1>2, <2>1, <2>2 DEF Bit
<1>5. ASSUME NEW n \in 1 .. k
      PROVE  Step(l, p, y[n], g[n - 1], g[n])
  <2>. DEFINE m == n + 1
  <2>1. m \in 1 .. Len(x) /\ y[n] = x[m] /\ m - 1 = n
    BY <1>2
  <2>2. g[n - 1] = f[m - 1] /\ g[n] = f[m]
    BY <1>2
  <2>. HIDE DEF m, g
  <2>. QED
    BY <1>1, <2>1, <2>2
<1>. HIDE DEF g
<1>6. Run(y, l, p, f[1], c)
  BY <1>3, <1>5 DEF Run, k
<1>. QED
  BY <1>4, <1>6 DEF y

(* And with another at its end.                                            *)
LEMMA RunAppend ==
  ASSUME NEW x \in Seq(Job), NEW j \in Job, NEW l, NEW p, NEW a, NEW b, NEW c \in Bit,
         Run(x, l, p, a, b), Step(l, p, j, b, c)
  PROVE  Run(Append(x, j), l, p, a, c)
<1>. DEFINE y == <<j>>
<1>1. y \in Seq(Job) /\ Len(y) = 1 /\ y[1] = j
  OBVIOUS
<1>2. Append(x, j) = x \o y
  OBVIOUS
<1>3. b \in Bit
  <2>1. PICK f \in [0 .. Len(x) -> {0, 1}] : f[Len(x)] = b
    BY DEF Run
  <2>. QED
    BY <2>1 DEF Bit
<1>. HIDE DEF y
<1>4. Run(y, l, p, b, c)
  BY <1>1, <1>3, RunOne
<1>. QED
  BY <1>1, <1>2, <1>4, RunConcat

(* What is in the socket buffers of a connection, as jobs.                 *)
LEMMA LiftedTyped ==
  ASSUME NEW l \in Links, NEW q \in Seq(Message)
  PROVE  /\ Lifted(q, l) \in Seq(Job) /\ Len(Lifted(q, l)) = Len(q) /\ Len(q) \in Nat
         /\ \A n \in 1 .. Len(q) : Lifted(q, l)[n] = JobOf(l, q[n])
<1>. DEFINE j(n) == JobOf(l, q[n])
<1>1. Len(q) \in Nat /\ \A n \in 1 .. Len(q) : j(n) \in Job
  BY DEF JobOf, Job
<1>2. Lifted(q, l) = [n \in 1 .. Len(q) |-> j(n)]
  BY DEF Lifted
<1>. HIDE DEF j
<1>3. Lifted(q, l) \in Seq(Job) /\ Len(Lifted(q, l)) = Len(q)
      /\ \A n \in 1 .. Len(q) : Lifted(q, l)[n] = j(n)
  BY <1>1, <1>2
<1>. QED
  BY <1>1, <1>3 DEF j

LEMMA LiftedTail ==
  ASSUME NEW l \in Links, NEW q \in Seq(Message), q # <<>>
  PROVE  /\ Lifted(q, l) # <<>> /\ Head(Lifted(q, l)) = JobOf(l, Head(q))
         /\ Tail(Lifted(q, l)) = Lifted(Tail(q), l)
         /\ Tail(q) \in Seq(Message) /\ Len(Tail(q)) = Len(q) - 1
         /\ \A n \in 1 .. Len(Tail(q)) : Tail(q)[n] = q[n + 1]
<1>. DEFINE x == Lifted(q, l)
            t == Tail(q)
            y == Lifted(t, l)
<1>1. /\ t \in Seq(Message) /\ Len(t) = Len(q) - 1 /\ Len(t) \in Nat /\ Head(q) = q[1]
      /\ \A n \in 1 .. Len(t) : t[n] = q[n + 1]
  OBVIOUS
<1>2. x \in Seq(Job) /\ Len(x) = Len(q) /\ \A n \in 1 .. Len(q) : x[n] = JobOf(l, q[n])
  BY LiftedTyped
<1>3. y \in Seq(Job) /\ Len(y) = Len(t) /\ \A n \in 1 .. Len(t) : y[n] = JobOf(l, t[n])
  BY <1>1, LiftedTyped
<1>. HIDE DEF x, y, t
<1>4. x # <<>> /\ Head(x) = x[1] /\ 1 \in 1 .. Len(q)
  BY <1>1, <1>2
<1>5. /\ Tail(x) \in Seq(Job) /\ Len(Tail(x)) = Len(t)
      /\ \A n \in 1 .. Len(t) : Tail(x)[n] = x[n + 1]
  BY <1>1, <1>2, <1>4
<1>6. \A n \in 1 .. Len(t) : Tail(x)[n] = y[n]
  <2>. SUFFICES ASSUME NEW n \in 1 .. Len(t)
                PROVE  Tail(x)[n] = y[n]
    OBVIOUS
  <2>1. n + 1 \in 1 .. Len(q)
    BY <1>1
  <2>. QED
    BY <1>1, <1>2, <1>3, <1>5, <2>1
<1>7. \A u, w \in Seq(Job) : Len(u) = Len(w) /\ (\A n \in 1 .. Len(u) : u[n] = w[n]) => u = w
  OBVIOUS
<1>8. Tail(x) = y
  BY <1>3, <1>5, <1>6, <1>7
<1>. QED
  BY <1>1, <1>2, <1>4, <1>8 DEF x, y, t

LEMMA LiftedAppend ==
  ASSUME NEW l \in Links, NEW q \in Seq(Message), NEW m \in Message
  PROVE  /\ Lifted(Append(q, m), l) = Append(Lifted(q, l), JobOf(l, m))
         /\ JobOf(l, m) \in Job
         /\ Append(q, m) \in Seq(Message) /\ Len(Append(q, m)) = Len(q) + 1
         /\ \A n \in 1 .. Len(q) + 1 : Append(q, m)[n] = IF n = Len(q) + 1 THEN m ELSE q[n]
<1>. DEFINE x == Lifted(q, l)
            t == Append(q, m)
            y == Lifted(t, l)
            j == JobOf(l, m)
<1>0. j \in Job
  BY DEF JobOf, Job
<1>1. /\ t \in Seq(Message) /\ Len(t) = Len(q) + 1 /\ Len(q) \in Nat
      /\ \A n \in 1 .. Len(q) + 1 : t[n] = IF n = Len(q) + 1 THEN m ELSE q[n]
  OBVIOUS
<1>2. x \in Seq(Job) /\ Len(x) = Len(q) /\ \A n \in 1 .. Len(q) : x[n] = JobOf(l, q[n])
  BY LiftedTyped
<1>3. y \in Seq(Job) /\ Len(y) = Len(t) /\ \A n \in 1 .. Len(t) : y[n] = JobOf(l, t[n])
  BY <1>1, LiftedTyped
<1>4. j = JobOf(l, m)
  OBVIOUS
<1>. HIDE DEF x, y, t, j
<1>5. /\ Append(x, j) \in Seq(Job) /\ Len(Append(x, j)) = Len(t)
      /\ \A n \in 1 .. Len(t) : Append(x, j)[n] = IF n = Len(q) + 1 THEN j ELSE x[n]
  BY <1>0, <1>1, <1>2
<1>6. \A n \in 1 .. Len(t) : Append(x, j)[n] = y[n]
  <2>. SUFFICES ASSUME NEW n \in 1 .. Len(t)
                PROVE  Append(x, j)[n] = y[n]
    OBVIOUS
  <2>1. n = Len(q) + 1 \/ n \in 1 .. Len(q)
    BY <1>1
  <2>. QED
    BY <1>1, <1>2, <1>3, <1>4, <1>5, <2>1
<1>7. \A u, w \in Seq(Job) : Len(u) = Len(w) /\ (\A n \in 1 .. Len(u) : u[n] = w[n]) => u = w
  OBVIOUS
<1>8. Append(x, j) = y
  BY <1>3, <1>5, <1>6, <1>7
<1>. QED
  BY <1>0, <1>1, <1>8 DEF x, y, t, j

(* The thread takes the next message.                                      *)
LEMMA ChanRun ==
  ASSUME NEW l \in Links, NEW q \in Seq(Message), q # <<>>, NEW p, NEW a, NEW c,
         Run(Lifted(q, l), l, p, a, c)
  PROVE  \E b \in Bit :
           Step(l, p, JobOf(l, Head(q)), a, b) /\ Run(Lifted(Tail(q), l), l, p, b, c)
<1>. DEFINE x == Lifted(q, l)
<1>1. x \in Seq(Job) /\ x # <<>> /\ Head(x) = JobOf(l, Head(q)) /\ Tail(x) = Lifted(Tail(q), l)
  BY LiftedTyped, LiftedTail
<1>2. \E b \in Bit : Step(l, p, Head(x), a, b) /\ Run(Tail(x), l, p, b, c)
  BY <1>1, RunHead
<1>. QED
  BY <1>1, <1>2

(* The connections outward: one to each other site.                        *)
LEMMA OutwardEnds ==
  ASSUME NEW u \in Sites, NEW l \in Links, Outward(u, l)
  PROVE  /\ To(l) # u /\ (From(l) = u \/ From(l) = server)
         /\ \A k \in Links : Outward(u, k) /\ To(k) = To(l) => k = l
         /\ Source(u, l) \in Threads /\ Source(u, l) # l
         /\ From(l) # u => u \in Clients /\ Source(u, l) \in Links
<1>1. To(l) # u /\ (From(l) = u \/ From(l) = server)
  BY LinkEnds DEF Outward
<1>2. ASSUME NEW k \in Links, Outward(u, k), To(k) = To(l)
      PROVE  k = l
  <2>1. To(k) # u /\ (From(k) = u \/ From(k) = server)
    BY <1>2, LinkEnds DEF Outward
  <2>2. CASE To(l) = server
    <3>1. From(l) # server /\ From(k) # server
      BY <1>2, <2>2, LinkEnds
    <3>. QED
      BY <1>1, <1>2, <2>1, <3>1, LinkEnds
  <2>3. CASE To(l) # server
    BY <1>2, <2>3, LinkEnds
  <2>. QED
    BY <2>2, <2>3
<1>3. From(l) # u => u \in Clients /\ <<u, server>> \in Links /\ From(<<u, server>>) = u
  BY <1>1, LinkEnds DEF Sites
<1>4. Source(u, l) \in Threads /\ Source(u, l) # l
  BY <1>3, ThreadKinds DEF Source
<1>5. From(l) # u => Source(u, l) \in Links
  BY <1>3 DEF Source
<1>. QED
  BY <1>1, <1>2, <1>3, <1>4, <1>5

LEMMA OutwardTo ==
  ASSUME NEW u \in Sites, NEW s \in Sites, s # u
  PROVE  \E l \in Links : Outward(u, l) /\ To(l) = s
<1>1. CASE s = server
  <2>1. u \in Clients
    BY <1>1 DEF Sites
  <2>. QED
    BY <1>1, <2>1, LinkEnds DEF Outward
<1>2. CASE s # server
  <2>1. s \in Clients
    BY <1>2 DEF Sites
  <2>. QED
    BY <2>1, LinkEnds DEF Outward
<1>. QED
  BY <1>1, <1>2

-----------------------------------------------------------------------------
(* What the steps add to the connections and outboxes.                     *)
LEMMA HeadTail ==
  ASSUME NEW S, NEW q \in Seq(S), q # <<>>
  PROVE  Holds(q, Head(q)) /\ \A v : Holds(Tail(q), v) => Holds(q, v)
<1>1. Len(q) \in Nat /\ 1 \in 1 .. Len(q) /\ Head(q) = q[1]
  OBVIOUS
<1>2. Len(Tail(q)) = Len(q) - 1 /\ \A n \in 1 .. Len(Tail(q)) : Tail(q)[n] = q[n + 1]
  OBVIOUS
<1>3. \A n \in 1 .. Len(Tail(q)) : n + 1 \in 1 .. Len(q)
  BY <1>1, <1>2
<1>. QED
  BY <1>1, <1>2, <1>3 DEF Holds

LEMMA Appended ==
  ASSUME NEW S, NEW q \in Seq(S), NEW m \in S
  PROVE  \A v : Holds(Append(q, m), v) => Holds(q, v) \/ v = m
<1>1. /\ Len(Append(q, m)) = Len(q) + 1 /\ Len(q) \in Nat
      /\ \A n \in 1 .. Len(q) + 1 : Append(q, m)[n] = IF n = Len(q) + 1 THEN m ELSE q[n]
  OBVIOUS
<1>2. \A n \in 1 .. Len(q) + 1 : n = Len(q) + 1 \/ n \in 1 .. Len(q)
  BY <1>1
<1>. QED
  BY <1>1, <1>2 DEF Holds

LEMMA NothingHeld ==
  \A v : ~ Holds(<<>>, v)
BY DEF Holds

(* A thread takes a message.                                               *)
LEMMA Taking ==
  ASSUME TypeOK, NEW l \in Links, chan[l] # <<>>, chan' = [chan EXCEPT ![l] = Tail(@)]
  PROVE  /\ chan[l] \in Seq(Message)
         /\ Head(chan[l]) \in Message /\ Holds(chan[l], Head(chan[l]))
         /\ chan'[l] = Tail(chan[l])
         /\ \A k \in Links : k = l \/ chan'[k] = chan[k]
         /\ \A k \in Links : \A m : Holds(chan'[k], m) => Holds(chan[k], m)
<1>1. chan[l] \in Seq(Message) /\ Head(chan[l]) \in Message
  BY ChanTyped, ChanTail
<1>2. chan'[l] = Tail(chan[l]) /\ \A k \in Links : k = l \/ chan'[k] = chan[k]
  BY ChanTail
<1>3. Holds(chan[l], Head(chan[l])) /\ \A m : Holds(Tail(chan[l]), m) => Holds(chan[l], m)
  BY <1>1, HeadTail
<1>. QED
  BY <1>1, <1>2, <1>3

(* A thread sends a message.                                               *)
LEMMA Sending ==
  ASSUME TypeOK, NEW t \in Threads, Send(t)
  PROVE  LET job == Head(outbox[t])
             l == job.link
             m == job.message
             p == m.path
         IN  /\ job \in Job /\ l \in Links /\ m \in Message /\ p \in Paths
             /\ Holds(outbox[t], job) /\ outbox[t] # <<>> /\ outbox[t] \in Seq(Job)
             /\ chan'[l] = Append(chan[l], m)
             /\ \A k \in Links : k = l \/ chan'[k] = chan[k]
             /\ \A k \in Links : \A v : Holds(chan'[k], v) =>
                  Holds(chan[k], v) \/ (k = l /\ v = m)
             /\ outbox'[t] = Content(t) \o Tail(outbox[t])
             /\ Content(t) \in Seq(Job)
             /\ \A v : Holds(Content(t), v) =>
                  /\ v.link = l /\ v.message.path = p /\ v.message.type \notin Types
                  /\ v.message.type = "DATA" => v.message.content # None
             /\ \A x \in Threads : x = t \/ outbox'[x] = outbox[x]
             /\ \A x \in Threads : \A v : Holds(outbox'[x], v) =>
                  Holds(outbox[x], v) \/ (x = t /\ Holds(Content(t), v))
<1>. DEFINE job == Head(outbox[t])
            l == job.link
            m == job.message
            p == m.path
            d == JobOf(l, Msg("DATA", p, disk[Owner(t)][p]))
            e == JobOf(l, Msg("END", p, None))
<1>1. /\ job \in Job /\ l \in Links /\ m \in Message /\ p \in Paths
      /\ outbox[t] # <<>> /\ outbox[t] \in Seq(Job) /\ Tail(outbox[t]) \in Seq(Job)
  BY SendParts, OutboxTyped
<1>2. Holds(outbox[t], job) /\ \A v : Holds(Tail(outbox[t]), v) => Holds(outbox[t], v)
  BY <1>1, HeadTail
<1>3. /\ chan' = [chan EXCEPT ![l] = Append(@, m)]
      /\ outbox' = [outbox EXCEPT ![t] = Content(t) \o Tail(outbox[t])]
  BY SendParts
<1>4. d \in Job /\ e \in Job
      /\ ((Content(t) = <<d, e>> /\ Exists(Owner(t), p)) \/ Content(t) = <<>>)
  BY <1>1, ContentTyped
<1>5. Content(t) \in Seq(Job)
  <2>1. <<d, e>> \in Seq(Job)
    BY <1>4, Pair
  <2>2. <<>> \in Seq(Job)
    OBVIOUS
  <2>. QED
    BY <1>4, <2>1, <2>2, Zenon
<1>6. ASSUME NEW v, Holds(Content(t), v)
      PROVE  /\ v.link = l /\ v.message.path = p /\ v.message.type \notin Types
             /\ v.message.type = "DATA" => v.message.content # None
  <2>1. Content(t) # <<>>
    BY <1>6, NothingHeld
  <2>. HIDE DEF d, e
  <2>2. Len(<<d, e>>) = 2 /\ <<d, e>>[1] = d /\ <<d, e>>[2] = e
    OBVIOUS
  <2>3. v = d \/ v = e
    BY <1>4, <1>6, <2>1, <2>2 DEF Holds
  <2>4. Exists(Owner(t), p)
    BY <1>4, <2>1
  <2>. QED
    BY <2>3, <2>4 DEF d, e, JobOf, Msg, Types, Exists
<1>7. chan'[l] = Append(chan[l], m) /\ \A k \in Links : k = l \/ chan'[k] = chan[k]
  BY <1>1, <1>3, TypeParts DEF ChanOK
<1>8. /\ outbox'[t] = Content(t) \o Tail(outbox[t])
      /\ \A x \in Threads : x = t \/ outbox'[x] = outbox[x]
  BY <1>3, TypeParts DEF OutboxOK
<1>9. \A v : Holds(Append(chan[l], m), v) => Holds(chan[l], v) \/ v = m
  BY <1>1, ChanTyped, Appended
<1>10. \A v : Holds(Content(t) \o Tail(outbox[t]), v) =>
                Holds(Content(t), v) \/ Holds(Tail(outbox[t]), v)
  BY <1>1, <1>5, Concatenated
<1>. HIDE DEF job, l, m, p
<1>11. \A k \in Links : \A v : Holds(chan'[k], v) => Holds(chan[k], v) \/ (k = l /\ v = m)
  BY <1>7, <1>9
<1>12. \A x \in Threads : \A v : Holds(outbox'[x], v) =>
                  Holds(outbox[x], v) \/ (x = t /\ Holds(Content(t), v))
  BY <1>2, <1>8, <1>10
<1>. QED
  BY <1>1, <1>2, <1>5, <1>6, <1>7, <1>8, <1>11, <1>12 DEF job, l, m, p

(* What a relay adds.                                                      *)
LEMMA Relaying ==
  ASSUME TypeOK, NEW l \in Links, Relay(l)
  PROVE  /\ outbox'[l] = Jobs(request[l], Others(l))
         /\ \A t \in Threads : t = l \/ outbox'[t] = outbox[t]
         /\ \A v : Holds(outbox'[l], v) <=>
              \E o : Holds(Others(l), o) /\ v = JobOf(o, request[l])
         /\ receiver'[l] \in {"recv", "relay"}
         /\ \A k \in Links : k = l \/ receiver'[k] = receiver[k]
<1>1. /\ outbox' = [outbox EXCEPT ![l] = Jobs(request[l], Others(l))]
      /\ outbox'[l] = Jobs(request[l], Others(l))
      /\ \A t \in Threads : t = l \/ outbox'[t] = outbox[t]
  BY ThreadKinds, TypeParts DEF Relay, OutboxOK
<1>2. \A v : Holds(outbox'[l], v) <=> \E o : Holds(Others(l), o) /\ v = JobOf(o, request[l])
  BY <1>1, JobsOf, LinksOfRelay, ChanTyped
<1>3. receiver'[l] \in {"recv", "relay"} /\ \A k \in Links : k = l \/ receiver'[k] = receiver[k]
  BY TypeParts DEF Relay, ThreadsOK
<1>. QED
  BY <1>1, <1>2, <1>3

WellInChan == \A l \in Links, m \in Message :
  Holds(chan[l], m) /\ m.type = "DATA" => m.content # None
WellInOutbox == \A t \in Threads, j \in Job :
  Holds(outbox[t], j) /\ j.message.type = "DATA" => j.message.content # None
WellInThread == \A l \in Links :
  /\ receiver[l] = "data" => request[l].type \in Headers
  /\ l \in lost => receiver[l] \in {"recv", "relay"}

LEMMA WellParts == Wellformed <=> WellInChan /\ WellInOutbox /\ WellInThread
BY DEF Wellformed, WellInChan, WellInOutbox, WellInThread
LEMMA WellPartsNext == WellInChan' /\ WellInOutbox' /\ WellInThread' => Wellformed'
BY DEF Wellformed, WellInChan, WellInOutbox, WellInThread

LEMMA RoundWell ==
  ASSUME TypeOK, Wellformed, NEW s \in Sites, Round(s)
  PROVE  Wellformed'
<1>. USE WellParts
<1>1. WellInChan' /\ WellInThread'
  BY DEF Round, WellInChan, WellInThread
<1>2. \A v : Holds(RoundJobs(s), v) => v.message.type # "DATA"
  BY RoundReports DEF JobOf, Msg, Types
<1>3. outbox' = [outbox EXCEPT ![s] = RoundJobs(s)] /\ outbox \in [Threads -> Seq(Job)]
  BY TypeParts DEF Round, OutboxOK
<1>4. WellInOutbox'
  BY <1>2, <1>3 DEF WellInOutbox
<1>. QED
  BY <1>1, <1>4, WellPartsNext

LEMMA SendWell ==
  ASSUME TypeOK, Wellformed, NEW t \in Threads, Send(t)
  PROVE  Wellformed'
<1>. USE WellParts
<1>1. WellInChan'
  <2>. DEFINE job == Head(outbox[t])
  <2>1. job \in Job /\ Holds(outbox[t], job)
    <3>1. outbox[t] # <<>> /\ outbox[t] \in Seq(Job) /\ job \in Job
      BY SendParts, OutboxTyped
    <3>. QED
      BY <3>1, HeadTail
  <2>3. \A k \in Links : \A v : Holds(chan'[k], v) => Holds(chan[k], v) \/ v = job.message
    <3>1. /\ chan' = [chan EXCEPT ![job.link] = Append(@, job.message)]
          /\ job.link \in Links /\ job.message \in Message
      BY SendParts, OutboxTyped
    <3>2. \A v : Holds(Append(chan[job.link], job.message), v) =>
                   Holds(chan[job.link], v) \/ v = job.message
      BY <3>1, ChanTyped, Appended
    <3>. HIDE DEF job
    <3>. QED
      BY <3>1, <3>2, TypeParts DEF ChanOK
  <2>2. job.message.type = "DATA" => job.message.content # None
    BY <2>1 DEF WellInOutbox
  <2>. HIDE DEF job
  <2>. QED
    BY <2>2, <2>3 DEF WellInChan
<1>2. WellInOutbox'
  BY Sending DEF WellInOutbox
<1>3. WellInThread'
  <2>1. UNCHANGED <<request, lost>>
    BY SendParts
  <2>2. \A l \in Links : receiver'[l] = receiver[l] \/ receiver'[l] = "recv"
    <3>1. receiver' = receiver \/ (t \in Links /\ receiver' = [receiver EXCEPT ![t] = "recv"])
      BY SendParts, ThreadKinds
    <3>. QED
      BY <3>1, TypeParts DEF ThreadsOK
  <2>. QED
    BY <2>1, <2>2 DEF WellInThread
<1>. QED
  BY <1>1, <1>2, <1>3, WellPartsNext

LEMMA ReceiverWell ==
  ASSUME TypeOK, Wellformed, NEW l \in Links,
         Receive(l) \/ HandlePut(l) \/ HandleData(l) \/ HandleEnd(l) \/ HandleDelete(l)
  PROVE  Wellformed'
<1>. USE WellParts
<1>1. ASSUME Receive(l) \/ HandleData(l) \/ HandleEnd(l)
      PROVE  WellInChan'
  <2>1. \A k \in Links : \A m : Holds(chan'[k], m) => Holds(chan[k], m)
    BY <1>1, Taking DEF Receive, HandleData, HandleEnd, ReadNext
  <2>. QED
    BY <2>1 DEF WellInChan
<1>2. ASSUME HandlePut(l) \/ HandleDelete(l)
      PROVE  WellInChan'
  BY <1>2 DEF HandlePut, HandleDelete, WellInChan
<1>3. ASSUME HandleEnd(l) \/ HandleDelete(l)
      PROVE  WellInOutbox' /\ WellInThread'
  <2>1. Relay(l) /\ request' = request /\ request[l].type # "DATA"
    BY <1>3 DEF HandleEnd, HandleDelete, ReadNext, WellInThread, Headers
  <2>2. WellInOutbox'
    <3>1. \A v : Holds(outbox'[l], v) => v.message.type # "DATA"
      BY <2>1, Relaying DEF JobOf
    <3>. QED
      BY <2>1, <3>1, Relaying DEF WellInOutbox
  <2>3. lost' \subseteq lost \cup {l}
    BY <1>3 DEF HandleEnd, HandleDelete
  <2>. QED
    BY <2>1, <2>2, <2>3, Relaying DEF WellInThread
<1>4. ASSUME Receive(l) \/ HandlePut(l) \/ HandleData(l)
      PROVE  WellInOutbox' /\ WellInThread'
  <2>1. WellInOutbox'
    BY <1>4 DEF Receive, HandlePut, HandleData, WellInOutbox
  <2>2. CASE Receive(l)
    BY <2>1, <2>2, TypeParts DEF Receive, WellInThread, ThreadsOK
  <2>3. CASE HandlePut(l)
    BY <2>1, <2>3, TypeParts DEF HandlePut, WellInThread, ThreadsOK
  <2>4. CASE HandleData(l)
    BY <2>1, <2>4 DEF HandleData, threadVars, WellInThread
  <2>. QED
    BY <1>4, <2>1, <2>2, <2>3, <2>4
<1>. QED
  BY <1>1, <1>2, <1>3, <1>4, WellPartsNext

LEMMA WellStep == TypeOK /\ Wellformed /\ [Next]_vars => Wellformed'
<1>. SUFFICES ASSUME TypeOK, Wellformed, [Next]_vars
              PROVE  Wellformed'
  OBVIOUS
<1>. USE WellParts
<1>1. ASSUME NEW s \in Sites, NEW p \in Paths, UserWrites(s, p) \/ UserRemoves(s, p)
      PROVE  Wellformed'
  BY <1>1, WellPartsNext DEF UserWrites, UserRemoves, UserChanges, threadVars,
     WellInChan, WellInOutbox, WellInThread
<1>2. ASSUME UNCHANGED vars
      PROVE  Wellformed'
  BY <1>2, WellPartsNext DEF vars, threadVars, WellInChan, WellInOutbox, WellInThread
<1>. QED
  BY <1>1, <1>2, StepCases, RoundWell, SendWell, ReceiverWell

LEMMA WellInit == Init => Wellformed
<1>. SUFFICES ASSUME Init
              PROVE  Wellformed
  OBVIOUS
<1>1. WellInChan /\ WellInOutbox /\ WellInThread
  BY NothingHeld DEF Init, WellInChan, WellInOutbox, WellInThread
<1>. QED
  BY <1>1, WellParts

-----------------------------------------------------------------------------
(* Every step keeps the flow of a path outward, but another user's change. *)
LEMMA FlowParts ==
  \A u, p : Flow(u, p) <=> Courses(u, p) /\ Once(p) /\ Fresh(u, p) /\ Lawful(u, p)
BY DEF Flow

(* What a connection's part of the flow depends on.                        *)
LEMMA LegalKept ==
  ASSUME NEW u, NEW l, NEW p, Legal(u, l, p),
         receiver'[l] = receiver[l] /\ request'[l] = request[l] /\ chan'[l] = chan[l],
         Len(tracked[To(l)][p])' = Len(tracked[To(l)][p]),
         Len(tracked[From(l)][p])' = Len(tracked[From(l)][p]),
         outbox'[Source(u, l)] = outbox[Source(u, l)]
  PROVE  Legal(u, l, p)'
<1>1. PICK a \in {0, 1}, b \in {0, 1} :
        /\ Taken(l, p, a) /\ Run(Lifted(chan[l], l), l, p, a, b)
        /\ Run(outbox[Source(u, l)], l, p, b, Len(tracked[From(l)][p]))
  BY DEF Legal
<1>2. /\ Taken(l, p, a)' /\ Run(Lifted(chan'[l], l), l, p, a, b)
      /\ Run(outbox'[Source(u, l)], l, p, b, Len(tracked'[From(l)][p]))
  BY <1>1 DEF Taken
<1>. QED
  BY <1>2 DEF Legal

LEMMA UserFlow ==
  ASSUME TypeOK, NEW u \in Sites, NEW p \in Paths, Flow(u, p),
         NEW s \in Sites, NEW q \in Paths, NEW v \in Versions, UserChanges(s, q, v),
         q = p => s = u
  PROVE  Flow(u, p)'
<1>. USE FlowParts
<1>1. \A x \in Sites, y \in Paths :
        /\ Len(tracked'[x][y]) = Len(tracked[x][y])
        /\ (x = s /\ y = q) \/ (tracked'[x][y] = tracked[x][y] /\ disk'[x][y] = disk[x][y])
  <2>1. \A x \in Sites, y \in Paths : (x = s /\ y = q) \/ disk'[x][y] = disk[x][y]
    BY TypeParts DEF UserChanges, Set, SitesOK
  <2>2. tracked' = Outdate(s, q)
    BY DEF UserChanges
  <2>3. \A x \in Sites, y \in Paths : /\ Len(Outdate(s, q)[x][y]) = Len(tracked[x][y])
                                      /\ (x = s /\ y = q) \/ Outdate(s, q)[x][y] = tracked[x][y]
    BY OutdatedTyped
  <2>. QED
    BY <2>1, <2>2, <2>3
<1>2. UNCHANGED <<receiver, request, lost, outbox, chan>>
  BY DEF UserChanges, threadVars
<1>3. Courses(u, p)'
  BY <1>2 DEF Courses
<1>4. Once(p)'
  BY <1>1 DEF Once
<1>5. Fresh(u, p)'
  <2>. SUFFICES ASSUME NEW l \in Links, Outward(u, l)
                PROVE  IF receiver'[l] = "data" /\ request'[l].path = p
                       THEN Exists(To(l), p)' ELSE Known(To(l), p)'
    BY DEF Fresh
  <2>1. To(l) \in Sites /\ To(l) # u
    BY LinkEnds, OutwardEnds
  <2>2. tracked'[To(l)][p] = tracked[To(l)][p] /\ disk'[To(l)][p] = disk[To(l)][p]
    BY <1>1, <2>1
  <2>. QED
    BY <1>2, <2>2 DEF Fresh, Exists, Known
<1>6. Lawful(u, p)'
  <2>. SUFFICES ASSUME NEW l \in Links, Outward(u, l), l \notin lost'
                PROVE  Legal(u, l, p)'
    BY DEF Lawful
  <2>1. Legal(u, l, p)
    BY <1>2 DEF Lawful
  <2>2. To(l) \in Sites /\ From(l) \in Sites
    BY LinkEnds
  <2>. QED
    BY <1>1, <1>2, <2>1, <2>2, LegalKept
<1>. QED
  BY <1>3, <1>4, <1>5, <1>6 DEF Flow

(* A round reports what its site's user has done: whatever another has     *)
(* done is known there, or still being received with the lock held.        *)
LEMMA RoundBy ==
  ASSUME TypeOK, NEW u \in Sites, NEW p \in Paths, Fresh(u, p), NEW s \in Sites, Round(s), s # u
  PROVE  Known(s, p)
<1>1. PICK l \in Links : Outward(u, l) /\ To(l) = s
  BY OutwardTo
<1>2. receiver[l] # "data"
  BY <1>1 DEF Round, Free
<1>. QED
  BY <1>1, <1>2 DEF Fresh

LEMMA RoundEntries ==
  ASSUME TypeOK, NEW p \in Paths, NEW s \in Sites, Round(s), Len(tracked[s][p]) <= 1
  PROVE  /\ Known(s, p)'
         /\ Known(s, p) => Reports(s, p) = <<>> /\ Len(tracked'[s][p]) = Len(tracked[s][p])
         /\ ~ Known(s, p) => \E ty \in Types :
              Reports(s, p) = <<ty>> /\ Applies(ty, Len(tracked[s][p]), Len(tracked'[s][p]))
         /\ Len(tracked'[s][p]) <= 1
<1>. DEFINE e == tracked[s][p]
<1>1. e \in Seq(BOOLEAN) /\ Len(e) \in {0, 1} /\ (Len(e) = 0 <=> e = <<>>)
      /\ DOMAIN e = 1 .. Len(e)
  <2>1. e \in Seq(BOOLEAN)
    BY EntriesTyped
  <2>2. Len(e) \in Nat /\ Len(e) <= 1
    BY <2>1
  <2>. HIDE DEF e
  <2>4. \A n \in Nat : n <= 1 => n \in {0, 1}
    OBVIOUS
  <2>3. Len(e) \in {0, 1}
    BY <2>2, <2>4
  <2>. QED
    BY <2>1, <2>3
<1>2. tracked'[s][p] = IF ~Exists(s, p) THEN <<>>
                       ELSE IF e = <<>> THEN <<TRUE>>
                       ELSE [e EXCEPT ![1] = TRUE]
  BY RoundTracked
<1>3. disk' = disk
  BY DEF Round
<1>4. /\ [e EXCEPT ![1] = TRUE] \in Seq(BOOLEAN) /\ Len([e EXCEPT ![1] = TRUE]) = Len(e)
      /\ e # <<>> => [e EXCEPT ![1] = TRUE][1]
  BY <1>1, FirstSet
<1>. HIDE DEF e
<1>5. CASE ~Exists(s, p)
  <2>1. tracked'[s][p] = <<>> /\ Len(tracked'[s][p]) = 0
    BY <1>2, <1>5
  <2>2. Known(s, p)' /\ (Known(s, p) <=> e = <<>>)
    BY <1>3, <1>5, <2>1 DEF Known, Exists, e
  <2>3. e # <<>> => Reports(s, p) = <<"DELETE">> /\ Len(e) = 1
    <3>. SUFFICES ASSUME e # <<>>
                  PROVE  Reports(s, p) = <<"DELETE">> /\ Len(e) = 1
      OBVIOUS
    <3>1. Len(e) = 1 /\ DOMAIN e = 1 .. 1
      BY <1>1
    <3>2. Reports(s, p) = [n \in 1 .. 1 |-> "DELETE"]
      BY <1>5, <2>2, <3>1 DEF Reports, e
    <3>. QED
      BY <3>1, <3>2
  <2>4. Known(s, p) => Reports(s, p) = <<>>
    BY DEF Reports
  <2>. QED
    BY <1>1, <2>1, <2>2, <2>3, <2>4 DEF Applies, Types, e
<1>6. CASE Exists(s, p) /\ e = <<>>
  <2>4. tracked'[s][p] = <<TRUE>>
    BY <1>2, <1>6
  <2>5. Len(<<TRUE>>) = 1 /\ <<TRUE>>[1] = TRUE /\ <<TRUE>> # <<>>
    OBVIOUS
  <2>1. Len(tracked'[s][p]) = 1 /\ tracked'[s][p][1] /\ tracked'[s][p] # <<>> /\ Len(e) = 0
    BY <1>1, <1>6, <2>4, <2>5
  <2>2. Known(s, p)' /\ ~ Known(s, p)
    BY <1>3, <1>6, <2>1 DEF Known, Exists, e
  <2>3. Reports(s, p) = <<"CREATE">>
    BY <1>6, <2>2 DEF Reports, e
  <2>. QED
    BY <2>1, <2>2, <2>3 DEF Applies, Types, e
<1>7. CASE Exists(s, p) /\ e # <<>>
  <2>1. Len(tracked'[s][p]) = 1 /\ tracked'[s][p][1] /\ tracked'[s][p] # <<>> /\ Len(e) = 1
    BY <1>1, <1>2, <1>4, <1>7
  <2>2. Known(s, p)'
    BY <1>3, <1>7, <2>1 DEF Known, Exists
  <2>3. Known(s, p) => Reports(s, p) = <<>>
    BY DEF Reports
  <2>4. ~ Known(s, p) => Reports(s, p) = <<"UPDATE">>
    BY <1>7 DEF Reports, e
  <2>. QED
    BY <2>1, <2>2, <2>3, <2>4 DEF Applies, Types, e
<1>. QED
  BY <1>5, <1>6, <1>7

LEMMA RoundFlow ==
  ASSUME TypeOK, NEW u \in Sites, NEW p \in Paths, Flow(u, p), NEW s \in Sites, Round(s)
  PROVE  Flow(u, p)'
<1>. USE FlowParts
<1>1. UNCHANGED <<disk, receiver, request, lost, chan>>
  BY DEF Round
<1>2. /\ outbox'[s] = RoundJobs(s) /\ \A t \in Threads : t = s \/ outbox'[t] = outbox[t]
      /\ s \in Threads /\ outbox[s] = <<>>
  BY ThreadKinds, TypeParts DEF Round, Free, OutboxOK
<1>3. \A x \in Sites : x = s \/ tracked'[x][p] = tracked[x][p]
  BY RoundTracked
<1>4. Len(tracked[s][p]) <= 1
  BY DEF Once
<1>5. s # u => Known(s, p)
  BY RoundBy
<1>6. \A v : Holds(RoundJobs(s), v) /\ v.message.path = p =>
               v.link \in Links /\ From(v.link) = s /\ s = u
  <2>. SUFFICES ASSUME NEW v, Holds(RoundJobs(s), v), v.message.path = p
                PROVE  v.link \in Links /\ From(v.link) = s /\ s = u
    OBVIOUS
  <2>1. PICK l \in Links, q \in Paths, ty \in Types :
          From(l) = s /\ Holds(Reports(s, q), ty) /\ v = JobOf(l, Msg(ty, q, None))
    BY RoundReports
  <2>2. q = p /\ v.link = l
    BY <2>1 DEF JobOf, Msg
  <2>3. Reports(s, p) # <<>>
    BY <2>1, <2>2, NothingHeld
  <2>. QED
    BY <1>4, <1>5, <2>1, <2>2, <2>3, RoundEntries
<1>7. Courses(u, p)'
  <2>1. ASSUME NEW t \in Threads, NEW j \in Job, Holds(outbox'[t], j), j.message.path = p
        PROVE  Outward(u, j.link) /\ t = Source(u, j.link)
    <3>1. CASE t = s
      BY <1>2, <1>6, <2>1, <3>1 DEF Outward, Source
    <3>2. CASE t # s
      BY <1>2, <2>1, <3>2 DEF Courses
    <3>. QED
      BY <3>1, <3>2
  <2>. QED
    BY <1>1, <2>1 DEF Courses
<1>8. Once(p)'
  BY <1>3, <1>4, RoundEntries DEF Once
<1>9. Fresh(u, p)'
  <2>. SUFFICES ASSUME NEW l \in Links, Outward(u, l)
                PROVE  IF receiver'[l] = "data" /\ request'[l].path = p
                       THEN Exists(To(l), p)' ELSE Known(To(l), p)'
    BY DEF Fresh
  <2>1. To(l) \in Sites
    BY LinkEnds
  <2>2. CASE To(l) = s
    <3>1. receiver'[l] # "data"
      BY <1>1, <2>2 DEF Round, Free
    <3>. QED
      BY <1>4, <2>2, <3>1, RoundEntries
  <2>3. CASE To(l) # s
    BY <1>1, <1>3, <2>1, <2>3 DEF Fresh, Exists, Known
  <2>. QED
    BY <2>2, <2>3
<1>10. Lawful(u, p)'
  <2>. SUFFICES ASSUME NEW l \in Links, Outward(u, l), l \notin lost'
                PROVE  Legal(u, l, p)'
    BY DEF Lawful
  <2>1. Legal(u, l, p)
    BY <1>1 DEF Lawful
  <2>2. To(l) \in Sites /\ From(l) \in Sites /\ To(l) # u /\ Source(u, l) \in Threads
    BY LinkEnds, OutwardEnds
  <2>3. Len(tracked'[To(l)][p]) = Len(tracked[To(l)][p])
    <3>1. CASE To(l) = s
      BY <1>4, <1>5, <2>2, <3>1, RoundEntries
    <3>2. CASE To(l) # s
      BY <1>3, <2>2, <3>2
    <3>. QED
      BY <3>1, <3>2
  <2>4. CASE Source(u, l) # s
    <3>1. Len(tracked'[From(l)][p]) = Len(tracked[From(l)][p])
      <4>1. CASE From(l) = s
        <5>1. s # u
          BY <2>4, <4>1 DEF Source
        <5>. QED
          BY <1>4, <1>5, <4>1, <5>1, RoundEntries
      <4>2. CASE From(l) # s
        BY <1>3, <2>2, <4>2
      <4>. QED
        BY <4>1, <4>2
    <3>2. outbox'[Source(u, l)] = outbox[Source(u, l)]
      BY <1>2, <2>2, <2>4
    <3>. QED
      BY <1>1, <2>1, <2>3, <3>1, <3>2, LegalKept
  <2>5. CASE Source(u, l) = s
    <3>1. From(l) = u /\ s = u
      BY <2>5, OutwardEnds, ThreadKinds DEF Source
    <3>2. PICK a \in {0, 1}, b \in {0, 1} :
            /\ Taken(l, p, a) /\ Run(Lifted(chan[l], l), l, p, a, b)
            /\ Run(outbox[s], l, p, b, Len(tracked[s][p]))
      BY <2>1, <2>5, <3>1 DEF Legal
    <3>3. b = Len(tracked[s][p])
      BY <1>2, <3>2, RunNothing
    <3>4. Taken(l, p, a)'
      BY <1>1, <2>3, <3>2 DEF Taken
    <3>5. Run(RoundJobs(s), l, p, b, Len(tracked'[s][p]))
      <4>1. RoundJobs(s) \in Seq(Job)
        BY RoundReports
      <4>2. CASE Known(s, p)
        <5>1. Len(tracked'[s][p]) = b /\ Reports(s, p) = <<>>
          BY <1>4, <3>3, <4>2, RoundEntries
        <5>2. \A v : Holds(RoundJobs(s), v) => v.message.path # p
          BY <5>1, RoundReports, NothingHeld DEF JobOf, Msg
        <5>3. \A n \in 1 .. Len(RoundJobs(s)) : Neutral(l, p, RoundJobs(s)[n])
          BY <5>2, NeutralIf DEF Holds
        <5>. QED
          BY <4>1, <5>1, <5>3, RunNeutral DEF Bit
      <4>3. CASE ~ Known(s, p)
        <5>1. PICK ty \in Types : /\ Reports(s, p) = <<ty>>
                                  /\ Applies(ty, Len(tracked[s][p]), Len(tracked'[s][p]))
          BY <1>4, <4>3, RoundEntries
        <5>. DEFINE j == JobOf(l, Msg(ty, p, None))
                    x == RoundJobs(s)
        <5>2. Len(Reports(s, p)) = 1 /\ Holds(Reports(s, p), ty)
          <6>1. Len(<<ty>>) = 1 /\ <<ty>>[1] = ty
            OBVIOUS
          <6>. QED
            BY <5>1, <6>1 DEF Holds
        <5>3. Holds(x, j) /\ x \in Seq(Job)
          BY <3>1, <5>2, RoundReports
        <5>4. PICK k \in 1 .. Len(x) : x[k] = j
          BY <5>3 DEF Holds
        <5>5. Single(x, About(l, p))
          <6>1. Len(Reports(s, p)) <= 1
            BY <5>2
          <6>2. \A o, q : Len(Reports(s, q)) <= 1 => Single(x, About(o, q))
            BY RoundReports
          <6>. QED
            BY <6>1, <6>2
        <5>6. j.link = l /\ j.message.path = p /\ j.message.type = ty
          BY DEF JobOf, Msg
        <5>. HIDE DEF j, x
        <5>7. Step(l, p, x[k], b, Len(tracked'[s][p])) /\ Len(tracked'[s][p]) \in Bit
          BY <3>3, <5>1, <5>4, <5>6 DEF Step, Applies, Bit
        <5>8. ASSUME NEW n \in 1 .. Len(x), n # k
              PROVE  Neutral(l, p, x[n])
          <6>1. x[n] \in Job /\ x[k] \in Job
            BY <5>3
          <6>2. x[k] \in About(l, p)
            BY <5>4, <5>6, <6>1 DEF About
          <6>3. x[n] \notin About(l, p)
            BY <5>5, <5>8, <6>2 DEF Single
          <6>. QED
            BY <6>1, <6>3, NeutralIf DEF About
        <5>. QED
          BY <5>3, <5>7, <5>8, RunOne DEF x, Bit
      <4>. QED
        BY <4>2, <4>3
    <3>. QED
      BY <1>1, <1>2, <2>5, <3>1, <3>2, <3>4, <3>5 DEF Legal
  <2>. QED
    BY <2>4, <2>5
<1>. QED
  BY <1>7, <1>8, <1>9, <1>10 DEF Flow

LEMMA SendFlow ==
  ASSUME TypeOK, NEW u \in Sites, NEW p \in Paths, Flow(u, p), NEW t \in Threads, Send(t)
  PROVE  Flow(u, p)'
<1>. USE FlowParts
<1>. DEFINE job == Head(outbox[t])
            k == job.link
            m == job.message
<1>1. UNCHANGED <<disk, tracked, request, lost>>
  BY SendParts DEF siteVars
<1>2. /\ job \in Job /\ k \in Links /\ m \in Message /\ job = JobOf(k, m)
      /\ Holds(outbox[t], job) /\ outbox[t] # <<>> /\ outbox[t] \in Seq(Job)
  BY Sending DEF JobOf, Job
<1>3. /\ chan'[k] = Append(chan[k], m)
      /\ \A l \in Links : l = k \/ chan'[l] = chan[l]
      /\ \A l \in Links : \A v : Holds(chan'[l], v) => Holds(chan[l], v) \/ (l = k /\ v = m)
  BY Sending
<1>4. /\ outbox'[t] = Content(t) \o Tail(outbox[t]) /\ Content(t) \in Seq(Job)
      /\ \A v : Holds(Content(t), v) =>
           v.link = k /\ v.message.path = m.path /\ v.message.type \notin Types
  BY Sending
<1>5. /\ \A x \in Threads : x = t \/ outbox'[x] = outbox[x]
      /\ \A x \in Threads : \A v : Holds(outbox'[x], v) =>
           Holds(outbox[x], v) \/ (x = t /\ Holds(Content(t), v))
  BY Sending
<1>6. \A l \in Links : receiver'[l] = receiver[l]
                       \/ (receiver[l] = "relay" /\ receiver'[l] = "recv")
  <2>1. \/ receiver' = receiver
        \/ t \in Links /\ t \notin Sites /\ receiver' = [receiver EXCEPT ![t] = "recv"]
    BY SendParts, ThreadKinds
  <2>2. t \in Links /\ t \notin Sites => receiver[t] = "relay"
    BY <1>2, TypeParts DEF OutboxOK
  <2>. QED
    BY <2>1, <2>2, TypeParts DEF ThreadsOK
<1>7. m.path = p => Outward(u, k) /\ t = Source(u, k)
  BY <1>2 DEF Courses
<1>. HIDE DEF job, k, m
<1>8. Courses(u, p)'
  <2>1. ASSUME NEW l \in Links, NEW v \in Message, Holds(chan'[l], v), v.path = p
        PROVE  Outward(u, l)
    BY <1>3, <1>7, <2>1 DEF Courses
  <2>2. ASSUME NEW x \in Threads, NEW j \in Job, Holds(outbox'[x], j), j.message.path = p
        PROVE  Outward(u, j.link) /\ x = Source(u, j.link)
    BY <1>4, <1>5, <1>7, <2>2 DEF Courses
  <2>3. ASSUME NEW l \in Links, receiver'[l] # "recv", request'[l].path = p
        PROVE  Outward(u, l)
    BY <1>1, <1>6, <2>3 DEF Courses
  <2>. QED
    BY <2>1, <2>2, <2>3 DEF Courses
<1>9. Once(p)'
  BY <1>1 DEF Once
<1>10. Fresh(u, p)'
  BY <1>1, <1>6 DEF Fresh, Exists, Known
<1>11. Lawful(u, p)'
  <2>. SUFFICES ASSUME NEW l \in Links, Outward(u, l), l \notin lost'
                PROVE  Legal(u, l, p)'
    BY DEF Lawful
  <2>. DEFINE o == Source(u, l)
              z == Len(tracked[From(l)][p])
  <2>1. PICK a \in {0, 1}, b \in {0, 1} :
          Taken(l, p, a) /\ Run(Lifted(chan[l], l), l, p, a, b) /\ Run(outbox[o], l, p, b, z)
    BY <1>1 DEF Lawful, Legal
  <2>2. Taken(l, p, a)'
    <3>1. receiver[l] \in {"lock", "data"} <=> receiver'[l] \in {"lock", "data"}
      BY <1>6
    <3>. QED
      BY <1>1, <2>1, <3>1 DEF Taken
  <2>3. chan[l] \in Seq(Message) /\ o \in Threads
    BY ChanTyped, OutwardEnds
  <2>4. CASE o = t
    <3>1. PICK c \in Bit : Step(l, p, job, b, c) /\ Run(Tail(outbox[t]), l, p, c, z)
      BY <1>2, <2>1, <2>4, RunHead DEF job
    <3>2. Run(Content(t), l, p, c, c)
      <4>1. \A v : Holds(Content(t), v) => Neutral(l, p, v)
        BY <1>4, NeutralIf
      <4>. QED
        BY <1>4, <4>1, RunNeutral DEF Holds
    <3>3. Run(outbox'[o], l, p, c, z)
      <4>1. Tail(outbox[t]) \in Seq(Job)
        BY <1>2
      <4>. QED
        BY <1>4, <2>4, <3>1, <3>2, <4>1, RunConcat
    <3>4. Run(Lifted(chan'[l], l), l, p, a, c)
      <4>1. CASE l = k
        <5>1. Lifted(chan'[l], l) = Append(Lifted(chan[l], l), job)
          <6>1. Lifted(Append(chan[l], m), l) = Append(Lifted(chan[l], l), JobOf(l, m))
            BY <1>2, <2>3, LiftedAppend
          <6>2. chan'[l] = Append(chan[l], m) /\ job = JobOf(l, m)
            BY <1>2, <1>3, <4>1
          <6>. QED
            BY <6>1, <6>2
        <5>2. Lifted(chan[l], l) \in Seq(Job)
          BY <2>3, LiftedTyped
        <5>. QED
          BY <1>2, <2>1, <3>1, <5>1, <5>2, RunAppend
      <4>2. CASE l # k
        <5>1. job.link # l
          BY <4>2 DEF k
        <5>2. b = c
          BY <3>1, <5>1 DEF Step
        <5>. QED
          BY <1>3, <2>1, <4>2, <5>2
      <4>. QED
        BY <4>1, <4>2
    <3>. QED
      BY <1>1, <2>1, <2>2, <3>1, <3>3, <3>4 DEF Legal, Bit
  <2>5. CASE o # t
    <3>1. outbox'[o] = outbox[o]
      BY <1>5, <2>3, <2>5
    <3>2. Run(Lifted(chan'[l], l), l, p, a, b)
      <4>1. CASE l = k
        <5>1. m.path # p
          BY <1>7, <2>5, <4>1
        <5>2. Lifted(chan'[l], l) = Append(Lifted(chan[l], l), job)
          <6>1. Lifted(Append(chan[l], m), l) = Append(Lifted(chan[l], l), JobOf(l, m))
            BY <1>2, <2>3, LiftedAppend
          <6>2. chan'[l] = Append(chan[l], m) /\ job = JobOf(l, m)
            BY <1>2, <1>3, <4>1
          <6>. QED
            BY <6>1, <6>2
        <5>3. Lifted(chan[l], l) \in Seq(Job)
          BY <2>3, LiftedTyped
        <5>4. Step(l, p, job, b, b)
          BY <1>2, <5>1 DEF Step, m
        <5>. QED
          BY <1>2, <2>1, <5>2, <5>3, <5>4, RunAppend DEF Bit
      <4>2. CASE l # k
        BY <1>3, <2>1, <4>2
      <4>. QED
        BY <4>1, <4>2
    <3>. QED
      BY <1>1, <2>1, <2>2, <3>1, <3>2 DEF Legal
  <2>. QED
    BY <2>4, <2>5
<1>. QED
  BY <1>8, <1>9, <1>10, <1>11 DEF Flow

LEMMA ReceiveFlow ==
  ASSUME TypeOK, NEW u \in Sites, NEW p \in Paths, Flow(u, p), NEW k \in Links, Receive(k)
  PROVE  Flow(u, p)'
<1>. USE FlowParts
<1>1. UNCHANGED <<disk, tracked, lost, outbox>>
  BY DEF Receive, siteVars
<1>2. /\ receiver[k] = "recv" /\ receiver'[k] = "lock" /\ request'[k] = Head(chan[k])
      /\ \A l \in Links : l = k \/ (receiver'[l] = receiver[l] /\ request'[l] = request[l])
  BY TypeParts DEF Receive, ThreadsOK
<1>3. /\ chan[k] \in Seq(Message) /\ chan[k] # <<>> /\ chan'[k] = Tail(chan[k])
      /\ Head(chan[k]) \in Message /\ Holds(chan[k], Head(chan[k]))
      /\ \A l \in Links : l = k \/ chan'[l] = chan[l]
      /\ \A l \in Links : \A v : Holds(chan'[l], v) => Holds(chan[l], v)
  BY Taking DEF Receive
<1>4. Courses(u, p)'
  <2>1. ASSUME NEW l \in Links, receiver'[l] # "recv", request'[l].path = p
        PROVE  Outward(u, l)
    BY <1>2, <1>3, <2>1 DEF Courses
  <2>. QED
    BY <1>1, <1>3, <2>1 DEF Courses
<1>5. Once(p)'
  BY <1>1 DEF Once
<1>6. Fresh(u, p)'
  BY <1>1, <1>2 DEF Fresh, Exists, Known
<1>7. Lawful(u, p)'
  <2>. SUFFICES ASSUME NEW l \in Links, Outward(u, l), l \notin lost'
                PROVE  Legal(u, l, p)'
    BY DEF Lawful
  <2>1. Legal(u, l, p)
    BY <1>1 DEF Lawful
  <2>2. CASE l # k
    BY <1>1, <1>2, <1>3, <2>1, <2>2, LegalKept
  <2>3. CASE l = k
    <3>1. PICK a \in {0, 1}, b \in {0, 1} :
            /\ Taken(l, p, a) /\ Run(Lifted(chan[l], l), l, p, a, b)
            /\ Run(outbox[Source(u, l)], l, p, b, Len(tracked[From(l)][p]))
      BY <2>1 DEF Legal
    <3>2. PICK c \in Bit : Step(l, p, JobOf(l, Head(chan[l])), a, c)
                           /\ Run(Lifted(Tail(chan[l]), l), l, p, c, b)
      BY <1>3, <2>3, <3>1, ChanRun
    <3>3. Taken(l, p, c)'
      BY <1>1, <1>2, <2>3, <3>1, <3>2 DEF Taken
    <3>. QED
      BY <1>1, <1>3, <2>3, <3>1, <3>2, <3>3 DEF Legal, Bit
  <2>. QED
    BY <2>2, <2>3
<1>. QED
  BY <1>4, <1>5, <1>6, <1>7 DEF Flow

LEMMA PutFlow ==
  ASSUME TypeOK, NEW u \in Sites, NEW p \in Paths, Flow(u, p), NEW k \in Links, HandlePut(k)
  PROVE  Flow(u, p)'
<1>. USE FlowParts
<1>. DEFINE s == To(k)
            q == request[k].path
<1>1. s \in Sites /\ q \in Paths
  BY LinkEnds, ChanTyped DEF Message
<1>2. /\ UNCHANGED <<request, lost, outbox, chan>>
      /\ receiver[k] = "lock" /\ receiver'[k] = "data"
      /\ \A l \in Links : l = k \/ receiver'[l] = receiver[l]
  BY TypeParts DEF HandlePut, ThreadsOK
<1>3. \A x \in Sites, y \in Paths :
        /\ Len(tracked'[x][y]) = Len(tracked[x][y])
        /\ (x = s /\ y = q) \/ (tracked'[x][y] = tracked[x][y] /\ disk'[x][y] = disk[x][y])
  <2>1. \A x \in Sites, y \in Paths : (x = s /\ y = q) \/ disk'[x][y] = disk[x][y]
    BY TypeParts DEF HandlePut, Set, SitesOK
  <2>2. tracked' = Outdate(s, q)
    BY DEF HandlePut
  <2>3. \A x \in Sites, y \in Paths : /\ Len(Outdate(s, q)[x][y]) = Len(tracked[x][y])
                                      /\ (x = s /\ y = q) \/ Outdate(s, q)[x][y] = tracked[x][y]
    BY <1>1, OutdatedTyped
  <2>. QED
    BY <2>1, <2>2, <2>3
<1>4. disk'[s][q] # None
  BY <1>1, NoneTyped, TypeParts DEF HandlePut, Set, SitesOK
<1>5. q = p => Outward(u, k)
  BY <1>2 DEF Courses
<1>6. request'[k].path = q
  BY <1>2
<1>. HIDE DEF s, q
<1>7. Courses(u, p)'
  <2>1. ASSUME NEW l \in Links, receiver'[l] # "recv", request'[l].path = p
        PROVE  Outward(u, l)
    BY <1>2, <2>1 DEF Courses
  <2>. QED
    BY <1>2, <2>1 DEF Courses
<1>8. Once(p)'
  BY <1>3 DEF Once
<1>9. Fresh(u, p)'
  <2>. SUFFICES ASSUME NEW l \in Links, Outward(u, l)
                PROVE  IF receiver'[l] = "data" /\ request'[l].path = p
                       THEN Exists(To(l), p)' ELSE Known(To(l), p)'
    BY DEF Fresh
  <2>1. To(l) \in Sites
    BY LinkEnds
  <2>2. CASE To(l) = s /\ p = q
    <3>1. l = k
      BY <1>5, <2>2, OutwardEnds DEF s
    <3>. QED
      BY <1>2, <1>4, <1>6, <2>2, <3>1 DEF Exists
  <2>3. CASE ~ (To(l) = s /\ p = q)
    <3>1. tracked'[To(l)][p] = tracked[To(l)][p] /\ disk'[To(l)][p] = disk[To(l)][p]
      BY <1>3, <2>1, <2>3
    <3>2. l = k => request[l].path # p
      BY <2>3 DEF s, q
    <3>. QED
      BY <1>2, <3>1, <3>2 DEF Fresh, Exists, Known
  <2>. QED
    BY <2>2, <2>3
<1>10. Lawful(u, p)'
  <2>. SUFFICES ASSUME NEW l \in Links, Outward(u, l), l \notin lost'
                PROVE  Legal(u, l, p)'
    BY DEF Lawful
  <2>1. PICK a \in {0, 1}, b \in {0, 1} :
          /\ Taken(l, p, a) /\ Run(Lifted(chan[l], l), l, p, a, b)
          /\ Run(outbox[Source(u, l)], l, p, b, Len(tracked[From(l)][p]))
    BY <1>2 DEF Lawful, Legal
  <2>2. To(l) \in Sites /\ From(l) \in Sites
    BY LinkEnds
  <2>3. receiver[l] \in {"lock", "data"} <=> receiver'[l] \in {"lock", "data"}
    BY <1>2
  <2>4. Taken(l, p, a)'
    BY <1>2, <1>3, <2>1, <2>2, <2>3 DEF Taken
  <2>. QED
    BY <1>2, <1>3, <2>1, <2>2, <2>4 DEF Legal
<1>. QED
  BY <1>7, <1>8, <1>9, <1>10 DEF Flow

(* A message that is no request leaves the run of a connection.            *)
LEMMA RunPassed ==
  ASSUME NEW l \in Links, NEW q \in Seq(Message), q # <<>>, NEW p, NEW a, NEW b,
         Head(q).type \notin Types, Run(Lifted(q, l), l, p, a, b)
  PROVE  Run(Lifted(Tail(q), l), l, p, a, b)
<1>1. PICK c \in Bit : /\ Step(l, p, JobOf(l, Head(q)), a, c)
                       /\ Run(Lifted(Tail(q), l), l, p, c, b)
  BY ChanRun
<1>2. a = c
  BY <1>1 DEF Step, JobOf
<1>. QED
  BY <1>1, <1>2

LEMMA DataFlow ==
  ASSUME TypeOK, Wellformed, NEW u \in Sites, NEW p \in Paths, Flow(u, p),
         NEW k \in Links, HandleData(k)
  PROVE  Flow(u, p)'
<1>. USE FlowParts
<1>. DEFINE s == To(k)
            q == request[k].path
<1>1. s \in Sites /\ q \in Paths
  BY LinkEnds, ChanTyped DEF Message
<1>2. UNCHANGED <<tracked, receiver, request, lost, outbox>> /\ receiver[k] = "data"
  BY DEF HandleData, ReadNext, threadVars
<1>3. /\ chan[k] \in Seq(Message) /\ chan[k] # <<>> /\ chan'[k] = Tail(chan[k])
      /\ Head(chan[k]) \in Message /\ Holds(chan[k], Head(chan[k]))
      /\ \A l \in Links : l = k \/ chan'[l] = chan[l]
      /\ \A l \in Links : \A v : Holds(chan'[l], v) => Holds(chan[l], v)
  BY Taking DEF HandleData, ReadNext
<1>4. Head(chan[k]).type = "DATA" /\ Head(chan[k]).content # None
  BY <1>3 DEF HandleData, Wellformed
<1>5. \A x \in Sites, y \in Paths : (x = s /\ y = q) \/ disk'[x][y] = disk[x][y]
  BY TypeParts DEF HandleData, Set, SitesOK
<1>6. disk'[s][q] # None
  BY <1>1, <1>4, TypeParts DEF HandleData, Set, SitesOK
<1>7. q = p => Outward(u, k)
  BY <1>2 DEF Courses
<1>8. request'[k].path = q
  BY <1>2
<1>. HIDE DEF s, q
<1>9. Courses(u, p)'
  BY <1>2, <1>3 DEF Courses
<1>10. Once(p)'
  BY <1>2 DEF Once
<1>11. Fresh(u, p)'
  <2>. SUFFICES ASSUME NEW l \in Links, Outward(u, l)
                PROVE  IF receiver'[l] = "data" /\ request'[l].path = p
                       THEN Exists(To(l), p)' ELSE Known(To(l), p)'
    BY DEF Fresh
  <2>1. To(l) \in Sites
    BY LinkEnds
  <2>2. CASE To(l) = s /\ p = q
    <3>1. l = k
      BY <1>7, <2>2, OutwardEnds DEF s
    <3>. QED
      BY <1>2, <1>6, <1>8, <2>2, <3>1 DEF Exists
  <2>3. CASE ~ (To(l) = s /\ p = q)
    <3>1. disk'[To(l)][p] = disk[To(l)][p]
      BY <1>5, <2>1, <2>3
    <3>. QED
      BY <1>2, <3>1 DEF Fresh, Exists, Known
  <2>. QED
    BY <2>2, <2>3
<1>12. Lawful(u, p)'
  <2>. SUFFICES ASSUME NEW l \in Links, Outward(u, l), l \notin lost'
                PROVE  Legal(u, l, p)'
    BY DEF Lawful
  <2>1. PICK a \in {0, 1}, b \in {0, 1} :
          /\ Taken(l, p, a) /\ Run(Lifted(chan[l], l), l, p, a, b)
          /\ Run(outbox[Source(u, l)], l, p, b, Len(tracked[From(l)][p]))
    BY <1>2 DEF Lawful, Legal
  <2>2. Taken(l, p, a)'
    BY <1>2, <2>1 DEF Taken
  <2>3. Run(Lifted(chan'[l], l), l, p, a, b)
    <3>1. Head(chan[k]).type \notin Types
      BY <1>4 DEF Types
    <3>2. CASE l = k
      BY <1>3, <2>1, <3>1, <3>2, RunPassed
    <3>3. CASE l # k
      BY <1>3, <2>1, <3>3
    <3>. QED
      BY <3>2, <3>3
  <2>. QED
    BY <1>2, <2>1, <2>2, <2>3 DEF Legal
<1>. QED
  BY <1>9, <1>10, <1>11, <1>12 DEF Flow

(* A request is applied and relayed: what HandleEnd and HandleDelete have  *)
(* in common.                                                              *)
LEMMA AppliedFlow ==
  ASSUME TypeOK, NEW u \in Sites, NEW p \in Paths, Flow(u, p), NEW k \in Links,
         receiver[k] \in {"lock", "data"}, request[k].type \in Types, k \notin lost,
         Relay(k), request' = request, lost \subseteq lost',
         \A x \in Sites, y \in Paths :
           \/ x = To(k) /\ y = request[k].path
           \/ tracked'[x][y] = tracked[x][y] /\ disk'[x][y] = disk[x][y],
         request[k].path = p =>
           \A a : Applies(request[k].type, Len(tracked[To(k)][p]), a) =>
                    Len(tracked'[To(k)][p]) = a /\ Known(To(k), p)',
         \A l \in Links : l = k \/ chan'[l] = chan[l],
         \A l \in Links : \A v : Holds(chan'[l], v) => Holds(chan[l], v),
         k \notin lost' => \A a, b : Run(Lifted(chan[k], k), k, p, a, b) =>
                                       Run(Lifted(chan'[k], k), k, p, a, b)
  PROVE  Flow(u, p)'
<1>. USE FlowParts
<1>. DEFINE s == To(k)
            q == request[k].path
            m == request[k]
<1>1. s \in Sites /\ m \in Message /\ k \in Threads /\ From(k) # s
  BY LinkEnds, ChanTyped, ThreadKinds
<1>2. /\ outbox[k] = <<>> /\ \A t \in Threads : t = k \/ outbox'[t] = outbox[t]
      /\ outbox'[k] = Jobs(m, Others(k)) /\ outbox'[k] \in Seq(Job)
      /\ \A v : Holds(outbox'[k], v) <=> \E o : Holds(Others(k), o) /\ v = JobOf(o, m)
      /\ receiver'[k] \in {"recv", "relay"}
      /\ \A l \in Links : l = k \/ receiver'[l] = receiver[l]
  <2>1. outbox[k] = <<>>
    BY <1>1, ThreadKinds, TypeParts DEF OutboxOK
  <2>2. /\ outbox'[k] = Jobs(m, Others(k)) /\ \A t \in Threads : t = k \/ outbox'[t] = outbox[t]
        /\ \A v : Holds(outbox'[k], v) <=> \E o : Holds(Others(k), o) /\ v = JobOf(o, m)
    BY Relaying
  <2>3. /\ receiver'[k] \in {"recv", "relay"}
        /\ \A l \in Links : l = k \/ receiver'[l] = receiver[l]
    BY Relaying
  <2>4. Jobs(m, Others(k)) \in Seq(Job)
    BY RelayTyped
  <2>. QED
    BY <2>1, <2>2, <2>3, <2>4
<1>3. q = p => Outward(u, k)
  BY DEF Courses
<1>4. ASSUME q = p
      PROVE  /\ Applies(m.type, Len(tracked[s][p]), Len(tracked'[s][p]))
             /\ Known(s, p)' /\ Len(tracked'[s][p]) \in Bit
  <2>1. Legal(u, k, p)
    BY <1>3, <1>4 DEF Lawful
  <2>2. PICK a \in {0, 1} : Taken(k, p, a)
    BY <2>1 DEF Legal
  <2>3. Applies(m.type, Len(tracked[s][p]), a)
    BY <1>4, <2>2 DEF Taken, Step, JobOf
  <2>4. Len(tracked'[s][p]) = a /\ Known(s, p)'
    BY <1>4, <2>3
  <2>. QED
    BY <2>3, <2>4 DEF Bit
<1>5. \A x \in Sites : \/ x = s /\ p = q
                       \/ tracked'[x][p] = tracked[x][p] /\ disk'[x][p] = disk[x][p]
  OBVIOUS
<1>6. k \in lost' \/ \A a, b : Run(Lifted(chan[k], k), k, p, a, b) =>
                                 Run(Lifted(chan'[k], k), k, p, a, b)
  OBVIOUS
<1>. HIDE DEF s, q, m
<1>7. Courses(u, p)'
  <2>1. ASSUME NEW t \in Threads, NEW j \in Job, Holds(outbox'[t], j), j.message.path = p
        PROVE  Outward(u, j.link) /\ t = Source(u, j.link)
    <3>1. CASE t # k
      BY <1>2, <2>1, <3>1 DEF Courses
    <3>2. CASE t = k
      <4>1. PICK o : Holds(Others(k), o) /\ j = JobOf(o, m)
        BY <1>2, <2>1, <3>2
      <4>2. j.link = o /\ q = p
        BY <2>1, <4>1 DEF JobOf, m, q
      <4>3. To(k) = server /\ o \in Links /\ From(o) = server /\ To(o) # From(k)
        BY <4>1, LinksOfRelay
      <4>4. From(k) = u /\ k = <<u, server>> /\ u # server
        BY <1>3, <4>2, <4>3, LinkEnds DEF Outward
      <4>. QED
        BY <3>2, <4>2, <4>3, <4>4 DEF Outward, Source
    <3>. QED
      BY <3>1, <3>2
  <2>2. ASSUME NEW l \in Links, receiver'[l] # "recv", request'[l].path = p
        PROVE  Outward(u, l)
    <3>1. receiver[l] # "recv"
      BY <1>2, <2>2
    <3>. QED
      BY <2>2, <3>1 DEF Courses
  <2>3. ASSUME NEW l \in Links, NEW v \in Message, Holds(chan'[l], v), v.path = p
        PROVE  Outward(u, l)
    BY <2>3 DEF Courses
  <2>. QED
    BY <2>1, <2>2, <2>3 DEF Courses
<1>8. Once(p)'
  <2>. SUFFICES ASSUME NEW x \in Sites
                PROVE  Len(tracked'[x][p]) <= 1
    BY DEF Once
  <2>1. CASE x = s /\ p = q
    <3>1. Len(tracked'[x][p]) \in Bit
      BY <1>4, <2>1
    <3>2. \A n \in Bit : n <= 1
      BY DEF Bit
    <3>. QED
      BY <3>1, <3>2
  <2>2. CASE ~ (x = s /\ p = q)
    BY <1>5, <2>2 DEF Once
  <2>. QED
    BY <2>1, <2>2
<1>9. Fresh(u, p)'
  <2>. SUFFICES ASSUME NEW l \in Links, Outward(u, l)
                PROVE  IF receiver'[l] = "data" /\ request'[l].path = p
                       THEN Exists(To(l), p)' ELSE Known(To(l), p)'
    BY DEF Fresh
  <2>1. To(l) \in Sites
    BY LinkEnds
  <2>2. CASE To(l) = s /\ p = q
    <3>1. l = k
      BY <1>3, <2>2, OutwardEnds DEF s
    <3>2. Known(s, p)' /\ receiver'[l] # "data"
      BY <1>2, <1>4, <2>2, <3>1
    <3>. QED
      BY <3>1, <3>2 DEF s
  <2>3. CASE ~ (To(l) = s /\ p = q)
    <3>1. tracked'[To(l)][p] = tracked[To(l)][p] /\ disk'[To(l)][p] = disk[To(l)][p]
      BY <1>5, <2>1, <2>3
    <3>2. l = k => request[l].path # p
      BY <2>3 DEF s, q
    <3>. QED
      BY <1>2, <3>1, <3>2 DEF Fresh, Exists, Known
  <2>. QED
    BY <2>2, <2>3
<1>10. Lawful(u, p)'
  <2>. SUFFICES ASSUME NEW l \in Links, Outward(u, l), l \notin lost'
                PROVE  Legal(u, l, p)'
    BY DEF Lawful
  <2>. DEFINE o == Source(u, l)
  <2>1. PICK a \in {0, 1}, b \in {0, 1} :
          /\ Taken(l, p, a) /\ Run(Lifted(chan[l], l), l, p, a, b)
          /\ Run(outbox[o], l, p, b, Len(tracked[From(l)][p]))
    BY DEF Lawful, Legal
  <2>2. To(l) \in Sites /\ From(l) \in Sites /\ From(l) # To(l) /\ o \in Threads /\ o # l
        /\ (From(l) # u => From(l) = server /\ o = <<u, server>>)
    BY LinkEnds, OutwardEnds DEF Source
  <2>3. Run(Lifted(chan'[l], l), l, p, a, b)
    <3>1. CASE l = k
      BY <1>6, <2>1, <3>1
    <3>2. CASE l # k
      BY <2>1, <3>2
    <3>. QED
      BY <3>1, <3>2
  <2>4. Taken(l, p, a)'
    <3>1. CASE l = k
      <4>1. receiver'[l] \notin {"lock", "data"}
        BY <1>2, <3>1
      <4>2. a = Len(tracked'[To(l)][p])
        <5>1. CASE p = q
          BY <1>4, <2>1, <3>1, <5>1 DEF Taken, Step, JobOf, Applies, m, q, s
        <5>2. CASE p # q
          <6>1. a = Len(tracked[To(l)][p])
            BY <2>1, <3>1, <5>2 DEF Taken, Step, JobOf, q
          <6>. QED
            BY <1>5, <2>2, <5>2, <6>1
        <5>. QED
          BY <5>1, <5>2
      <4>. QED
        BY <4>1, <4>2 DEF Taken
    <3>2. CASE l # k
      <4>1. ~ (To(l) = s /\ p = q)
        BY <1>3, <3>2, OutwardEnds DEF s
      <4>2. Len(tracked'[To(l)][p]) = Len(tracked[To(l)][p])
        BY <1>5, <2>2, <4>1
      <4>. QED
        BY <1>2, <2>1, <3>2, <4>2 DEF Taken
    <3>. QED
      BY <3>1, <3>2
  <2>5. Run(outbox'[o], l, p, b, Len(tracked'[From(l)][p]))
    <3>1. CASE o = k
      <4>1. From(l) = server /\ s = server /\ From(k) = u /\ u # server /\ To(l) # u
        <5>1. From(l) # u
          BY <3>1, ThreadKinds DEF Source
        <5>2. u \in Clients /\ To(l) # u
          BY <5>1, OutwardEnds
        <5>. QED
          BY <2>2, <3>1, <5>1, <5>2, LinkEnds, SitesAssumption DEF s
      <4>2. b = Len(tracked[server][p])
        BY <1>2, <2>1, <3>1, <4>1, RunNothing
      <4>3. CASE p # q
        <5>1. Len(tracked'[server][p]) = b
          BY <1>1, <1>5, <4>1, <4>2, <4>3
        <5>2. \A v : Holds(outbox'[k], v) => v.message.path # p
          BY <1>2, <4>3 DEF JobOf, m, q
        <5>3. \A v : Holds(outbox'[k], v) => Neutral(l, p, v)
          BY <5>2, NeutralIf
        <5>4. b \in Bit
          BY DEF Bit
        <5>. QED
          BY <1>2, <3>1, <4>1, <5>1, <5>3, <5>4, RunNeutral DEF Holds
      <4>4. CASE p = q
        <5>. DEFINE x == outbox'[k]
                    j == JobOf(l, m)
                    c == Len(tracked'[server][p])
        <5>1. Applies(m.type, b, c) /\ c \in Bit /\ b \in Bit
          BY <1>4, <4>1, <4>2, <4>4 DEF Bit
        <5>2. x = Jobs(m, Others(k)) /\ x \in Seq(Job)
          BY <1>2
        <5>3. Holds(Others(k), l)
          BY <4>1, LinksOfRelay DEF s
        <5>4. Holds(x, j)
          BY <1>2, <5>3
        <5>5. PICK n \in 1 .. Len(x) : x[n] = j
          BY <5>4 DEF Holds
        <5>6. Single(x, About(l, p))
          BY <1>1, <5>2, LinksOfRelay, JobsSingle
        <5>7. Step(l, p, x[n], b, c)
          BY <4>4, <5>1, <5>5 DEF Step, JobOf, q, m
        <5>. HIDE DEF x
        <5>8. ASSUME NEW i \in 1 .. Len(x), i # n
              PROVE  Neutral(l, p, x[i])
          <6>1. x[i] \in Job /\ x[n] \in Job
            BY <5>2
          <6>2. x[n] \in About(l, p)
            BY <4>4, <5>5, <6>1 DEF About, JobOf, q, m
          <6>3. x[i] \notin About(l, p)
            BY <5>6, <5>8, <6>2 DEF Single
          <6>. QED
            BY <6>1, <6>3, NeutralIf DEF About
        <5>. HIDE DEF c, j
        <5>9. Run(x, l, p, b, c)
          BY <5>1, <5>2, <5>7, <5>8, RunOne
        <5>. QED
          BY <3>1, <4>1, <5>9 DEF x, c
      <4>. QED
        BY <4>3, <4>4
    <3>2. CASE o # k
      <4>1. outbox'[o] = outbox[o]
        BY <1>2, <2>2, <3>2
      <4>2. ~ (From(l) = s /\ p = q)
        <5>. SUFFICES ASSUME From(l) = s, p = q
                      PROVE  FALSE
          OBVIOUS
        <5>1. s # u /\ (From(k) = u \/ From(k) = server)
          BY <1>3, OutwardEnds DEF s
        <5>2. s = server /\ From(k) = u
          BY <1>1, <2>2, <5>1
        <5>3. k = <<u, server>>
          BY <5>2, LinkEnds DEF s
        <5>. QED
          BY <2>2, <3>2, <5>1, <5>3
      <4>3. Len(tracked'[From(l)][p]) = Len(tracked[From(l)][p])
        BY <1>5, <2>2, <4>2
      <4>. QED
        BY <2>1, <4>1, <4>3
    <3>. QED
      BY <3>1, <3>2
  <2>. QED
    BY <2>3, <2>4, <2>5 DEF Legal
<1>. QED
  BY <1>7, <1>8, <1>9, <1>10 DEF Flow

LEMMA EndFlow ==
  ASSUME TypeOK, Wellformed, NEW u \in Sites, NEW p \in Paths, Flow(u, p),
         NEW k \in Links, HandleEnd(k)
  PROVE  Flow(u, p)'
<1>. DEFINE s == To(k)
            q == request[k].path
            e == Recorded(tracked[s][q], request[k])
<1>1. s \in Sites /\ q \in Paths
  BY LinkEnds, ChanTyped DEF Message
<1>2. /\ receiver[k] = "data" /\ request[k].type \in Headers /\ k \notin lost
      /\ Relay(k) /\ request' = request /\ disk' = disk /\ lost \subseteq lost'
      /\ k \notin lost' => Head(chan[k]).type = "END"
  BY DEF HandleEnd, ReadNext, Wellformed
<1>3. /\ chan[k] \in Seq(Message) /\ chan[k] # <<>> /\ chan'[k] = Tail(chan[k])
      /\ \A l \in Links : l = k \/ chan'[l] = chan[l]
      /\ \A l \in Links : \A v : Holds(chan'[l], v) => Holds(chan[l], v)
  BY Taking DEF HandleEnd, ReadNext
<1>4. /\ tracked'[s][q] = e
      /\ \A x \in Sites, y \in Paths : (x = s /\ y = q) \/ tracked'[x][y] = tracked[x][y]
  BY <1>1, TypeParts DEF HandleEnd, Set, SitesOK
<1>5. ASSUME q = p, NEW a, Applies(request[k].type, Len(tracked[s][p]), a)
      PROVE  Len(tracked'[s][p]) = a /\ Known(s, p)'
  <2>1. Outward(u, k)
    BY <1>2, <1>5, FlowParts DEF Courses
  <2>2. Exists(s, p)
    BY <1>2, <1>5, <2>1, FlowParts DEF Fresh
  <2>3. tracked[s][q] \in Seq(BOOLEAN) /\ (Len(tracked[s][q]) = 0 <=> tracked[s][q] = <<>>)
    <3>1. tracked[s][q] \in Seq(BOOLEAN)
      BY <1>1, EntriesTyped
    <3>. QED
      BY <3>1
  <2>4. tracked[s][q] = <<>> <=> request[k].type = "CREATE"
    BY <1>2, <1>5, <2>3 DEF Applies, Headers
  <2>5. Len(e) = IF request[k].type = "CREATE" THEN Len(tracked[s][q]) + 1
                 ELSE Len(tracked[s][q])
    BY <2>3, RecordedEntries
  <2>6. e # <<>> /\ e[1]
    BY <2>3, <2>4, RecordedEntries
  <2>7. Len(e) = a
    BY <1>2, <1>5, <2>5 DEF Applies, Headers
  <2>. HIDE DEF e
  <2>8. tracked'[s][p] = e /\ disk'[s][p] # None
    BY <1>2, <1>4, <1>5, <2>2 DEF Exists
  <2>. QED
    BY <2>6, <2>7, <2>8 DEF Known, Exists
<1>6. ASSUME k \notin lost', NEW a, NEW b, Run(Lifted(chan[k], k), k, p, a, b)
      PROVE  Run(Lifted(chan'[k], k), k, p, a, b)
  <2>1. Head(chan[k]).type \notin Types
    BY <1>2, <1>6 DEF Types
  <2>. QED
    BY <1>3, <1>6, <2>1, RunPassed
<1>7. request[k].type \in Types /\ receiver[k] \in {"lock", "data"}
  BY <1>2 DEF Headers, Types
<1>8. \A x \in Sites, y \in Paths :
        \/ x = s /\ y = q
        \/ tracked'[x][y] = tracked[x][y] /\ disk'[x][y] = disk[x][y]
  BY <1>2, <1>4
<1>. QED
  BY <1>2, <1>3, <1>5, <1>6, <1>7, <1>8, AppliedFlow

LEMMA DeleteFlow ==
  ASSUME TypeOK, Wellformed, NEW u \in Sites, NEW p \in Paths, Flow(u, p),
         NEW k \in Links, HandleDelete(k)
  PROVE  Flow(u, p)'
<1>. DEFINE s == To(k)
            q == request[k].path
            e == tracked[s][q]
<1>1. s \in Sites /\ q \in Paths
  BY LinkEnds, ChanTyped DEF Message
<1>2. /\ receiver[k] = "lock" /\ request[k].type = "DELETE" /\ k \notin lost
      /\ Relay(k) /\ request' = request /\ lost' = lost /\ chan' = chan
  BY DEF HandleDelete, Wellformed
<1>3. /\ disk'[s][q] = None /\ tracked'[s][q] = IF e = <<>> THEN e ELSE Tail(e)
      /\ \A x \in Sites, y \in Paths :
           \/ x = s /\ y = q
           \/ tracked'[x][y] = tracked[x][y] /\ disk'[x][y] = disk[x][y]
  BY <1>1, TypeParts DEF HandleDelete, Set, SitesOK
<1>4. ASSUME q = p, NEW a, Applies(request[k].type, Len(tracked[s][p]), a)
      PROVE  Len(tracked'[s][p]) = a /\ Known(s, p)'
  <2>1. e \in Seq(BOOLEAN)
    BY <1>1, EntriesTyped
  <2>2. Len(e) = 1 /\ a = 0
    BY <1>2, <1>4 DEF Applies
  <2>. HIDE DEF e
  <2>3. e # <<>> /\ Tail(e) = <<>>
    <3>1. e # <<>>
      BY <2>1, <2>2
    <3>2. Tail(e) \in Seq(BOOLEAN) /\ Len(Tail(e)) = 0
      BY <2>1, <2>2, <3>1
    <3>3. \A x \in Seq(BOOLEAN) : Len(x) = 0 => x = <<>>
      OBVIOUS
    <3>. QED
      BY <3>1, <3>2, <3>3
  <2>4. tracked'[s][p] = <<>> /\ Len(<<>>) = 0
    BY <1>3, <1>4, <2>3
  <2>. QED
    BY <1>3, <1>4, <2>2, <2>4 DEF Known, Exists
<1>5. request[k].type \in Types /\ receiver[k] \in {"lock", "data"}
  BY <1>2 DEF Types
<1>6. /\ \A l \in Links : l = k \/ chan'[l] = chan[l]
      /\ \A l \in Links : \A v : Holds(chan'[l], v) => Holds(chan[l], v)
      /\ \A a, b : Run(Lifted(chan[k], k), k, p, a, b) => Run(Lifted(chan'[k], k), k, p, a, b)
      /\ lost \subseteq lost'
  BY <1>2
<1>. QED
  BY <1>2, <1>3, <1>4, <1>5, <1>6, AppliedFlow

(* Only users make history.                                                *)
LEMMA OtherHistory ==
  ASSUME TypeOK, [Next]_vars
  PROVE  \/ \E s \in Sites, q \in Paths, v \in Versions : UserChanges(s, q, v)
         \/ UNCHANGED historyVars
<1>1. ASSUME NEW s \in Sites, NEW q \in Paths, UserWrites(s, q) \/ UserRemoves(s, q)
      PROVE  \E v \in Versions : UserChanges(s, q, v)
  BY <1>1, WriterVersion, NoneTyped DEF UserWrites, UserRemoves
<1>2. ASSUME NEW s \in Sites, Round(s)
      PROVE  UNCHANGED historyVars
  BY <1>2 DEF Round
<1>3. ASSUME NEW t \in Threads, Send(t)
      PROVE  UNCHANGED historyVars
  BY <1>3, SendParts
<1>4. ASSUME NEW l \in Links, \/ Receive(l) \/ HandlePut(l) \/ HandleData(l)
                              \/ HandleEnd(l) \/ HandleDelete(l)
      PROVE  UNCHANGED historyVars
  BY <1>4 DEF Receive, HandlePut, HandleData, HandleEnd, HandleDelete
<1>5. UNCHANGED vars => UNCHANGED historyVars
  BY DEF vars
<1>. QED
  BY <1>1, <1>2, <1>3, <1>4, <1>5, StepCases

LEMMA OtherFlow ==
  ASSUME TypeOK, Wellformed, NEW u \in Sites, NEW p \in Paths, Flow(u, p), [Next]_vars
  PROVE  (\E s \in Sites, q \in Paths, v \in Versions : UserChanges(s, q, v)) \/ Flow(u, p)'
<1>1. ASSUME NEW s \in Sites, NEW q \in Paths, UserWrites(s, q) \/ UserRemoves(s, q)
      PROVE  \E v \in Versions : UserChanges(s, q, v)
  BY <1>1, WriterVersion, NoneTyped DEF UserWrites, UserRemoves
<1>5. ASSUME UNCHANGED vars
      PROVE  Flow(u, p)'
  <2>1. UNCHANGED <<disk, tracked, receiver, request, lost, outbox, chan>>
    BY <1>5 DEF vars, siteVars, threadVars
  <2>2. Lawful(u, p)'
    BY <2>1, FlowParts DEF Lawful, Legal, Taken
  <2>3. Courses(u, p)' /\ Once(p)' /\ Fresh(u, p)'
    BY <2>1, FlowParts DEF Courses, Once, Fresh, Exists, Known
  <2>. QED
    BY <2>1, <2>2, <2>3 DEF Flow
<1>. QED
  BY <1>1, <1>5, StepCases, RoundFlow, SendFlow, ReceiveFlow, PutFlow, DataFlow, EndFlow,
     DeleteFlow

-----------------------------------------------------------------------------
(* A path at rest flows outward from anywhere.                             *)
LEMMA RestFlow ==
  ASSUME TypeOK, NEW p \in Paths, Once(p), AtRest(p), NEW u \in Sites
  PROVE  Flow(u, p)
<1>. DEFINE c == IF disk[server][p] = None THEN 0 ELSE 1
<1>1. \A s \in Sites : Known(s, p) /\ disk[s][p] = disk[server][p]
  BY DEF AtRest
<1>2. \A l \in Links : \A m : Holds(chan[l], m) => m.path # p
  BY DEF AtRest, Holds
<1>3. \A t \in Threads : \A j : Holds(outbox[t], j) => j.message.path # p
  BY DEF AtRest, Holds
<1>4. \A l \in Links : receiver[l] = "recv" \/ request[l].path # p
  BY DEF AtRest
<1>5. ASSUME NEW s \in Sites
      PROVE  Len(tracked[s][p]) = c
  <2>. DEFINE e == tracked[s][p]
  <2>1. e \in Seq(BOOLEAN)
    BY EntriesTyped
  <2>2. Len(e) \in Nat /\ Len(e) <= 1 /\ (Len(e) = 0 <=> e = <<>>)
    BY <2>1 DEF Once
  <2>3. e = <<>> <=> disk[server][p] = None
    BY <1>1 DEF Known, Exists
  <2>. HIDE DEF e
  <2>5. \A n \in Nat : n <= 1 => n = 0 \/ n = 1
    OBVIOUS
  <2>4. Len(e) = IF disk[server][p] = None THEN 0 ELSE 1
    BY <2>2, <2>3, <2>5
  <2>. QED
    BY <2>4 DEF e
<1>6. c \in Bit /\ c \in {0, 1}
  BY DEF Bit
<1>. HIDE DEF c
<1>7. Courses(u, p)
  BY <1>2, <1>3, <1>4 DEF Courses
<1>8. Fresh(u, p)
  BY <1>1, <1>4, LinkEnds DEF Fresh
<1>9. Lawful(u, p)
  <2>. SUFFICES ASSUME NEW l \in Links, Outward(u, l)
                PROVE  Legal(u, l, p)
    BY DEF Lawful
  <2>1. To(l) \in Sites /\ From(l) \in Sites /\ Source(u, l) \in Threads
    BY LinkEnds, OutwardEnds
  <2>2. Taken(l, p, c)
    BY <1>4, <1>5, <2>1 DEF Taken, Step, JobOf
  <2>3. Run(Lifted(chan[l], l), l, p, c, c)
    <3>1. /\ Lifted(chan[l], l) \in Seq(Job) /\ Len(Lifted(chan[l], l)) = Len(chan[l])
          /\ \A n \in 1 .. Len(chan[l]) : Lifted(chan[l], l)[n] = JobOf(l, chan[l][n])
      BY ChanTyped, LiftedTyped
    <3>2. \A n \in 1 .. Len(chan[l]) : Neutral(l, p, JobOf(l, chan[l][n]))
      BY <1>2, NeutralIf DEF Holds, JobOf
    <3>. QED
      BY <1>6, <3>1, <3>2, RunNeutral
  <2>4. Run(outbox[Source(u, l)], l, p, c, c)
    <3>1. outbox[Source(u, l)] \in Seq(Job)
      BY <2>1, OutboxTyped
    <3>2. \A j : Holds(outbox[Source(u, l)], j) => Neutral(l, p, j)
      BY <1>3, <2>1, NeutralIf
    <3>. QED
      BY <1>6, <3>1, <3>2, RunNeutral DEF Holds
  <2>. QED
    BY <1>5, <1>6, <2>1, <2>2, <2>3, <2>4 DEF Legal
<1>. QED
  BY <1>7, <1>8, <1>9 DEF Flow

(* The invariant: a path flows outward from the user who changes it until  *)
(* a change of another crosses one under way, and all paths from the only  *)
(* user who has acted.                                                     *)
Owned == \A p \in Paths \ crossed, u \in Sites : u = author[p] => Flow(u, p)
Alone == \A u \in Sites : acted \subseteq {u} => \A p \in Paths : Flow(u, p)
FlowInv == TypeOK /\ Wellformed /\ Owned /\ Alone

LEMMA InitRest ==
  ASSUME Init, NEW p \in Paths
  PROVE  Once(p) /\ AtRest(p)
<1>1. Len(<<>>) = 0 /\ 1 .. 0 = {} /\ 0 <= 1
  OBVIOUS
<1>2. server \in Sites /\ \A t \in Threads : outbox[t] = <<>>
  BY DEF Init, Sites
<1>3. \A s \in Sites : tracked[s][p] = <<>> /\ disk[s][p] = None
  BY DEF Init
<1>4. \A l \in Links : chan[l] = <<>> /\ receiver[l] = "recv"
  BY DEF Init
<1>. QED
  BY <1>1, <1>2, <1>3, <1>4 DEF Once, AtRest, Known, Exists

LEMMA FlowInit == Init => FlowInv
<1>. SUFFICES ASSUME Init
              PROVE  FlowInv
  OBVIOUS
<1>1. TypeOK /\ Wellformed
  BY TypeInit, WellInit
<1>2. \A u \in Sites, p \in Paths : Flow(u, p)
  BY <1>1, InitRest, RestFlow
<1>3. \A p \in Paths : author[p] \in Sites
  BY <1>1 DEF TypeOK
<1>. QED
  BY <1>1, <1>2, <1>3 DEF FlowInv, Owned, Alone

LEMMA FlowStep == FlowInv /\ [Next]_vars => FlowInv'
<1>. SUFFICES ASSUME FlowInv, [Next]_vars
              PROVE  FlowInv'
  OBVIOUS
<1>0. TypeOK /\ Wellformed /\ Owned /\ Alone
  BY DEF FlowInv
<1>1. TypeOK' /\ Wellformed'
  BY <1>0, TypeStep, WellStep
<1>2. \A p \in Paths : author[p] \in Sites /\ author'[p] \in Sites
  BY <1>0, <1>1 DEF TypeOK
<1>3. ASSUME NEW s \in Sites, NEW q \in Paths, NEW v \in Versions, UserChanges(s, q, v)
      PROVE  Owned' /\ Alone'
  <2>1. /\ acted' = acted \cup {s}
        /\ \A p \in Paths : author'[p] = IF p = q THEN s ELSE author[p]
        /\ crossed' = IF author[q] = s \/ AtRest(q) THEN crossed ELSE crossed \cup {q}
    BY <1>0, <1>3 DEF UserChanges, TypeOK
  <2>2. ASSUME NEW p \in Paths, NEW u \in Sites, p \notin crossed', u = author'[p]
        PROVE  Flow(u, p)'
    <3>1. p \notin crossed /\ (p = q => author[q] = s \/ AtRest(q))
      BY <2>1, <2>2
    <3>2. Flow(u, p)
      <4>1. CASE author[p] = u
        BY <1>0, <3>1, <4>1 DEF Owned
      <4>2. CASE author[p] # u
        <5>1. p = q /\ u = s /\ AtRest(p)
          BY <2>1, <2>2, <3>1, <4>2
        <5>2. Once(p)
          BY <1>0, <1>2, <3>1 DEF Owned, Flow
        <5>. QED
          BY <1>0, <5>1, <5>2, RestFlow
      <4>. QED
        BY <4>1, <4>2
    <3>3. q = p => s = u
      BY <2>1, <2>2
    <3>. QED
      BY <1>0, <1>3, <3>2, <3>3, UserFlow
  <2>3. ASSUME NEW u \in Sites, acted' \subseteq {u}, NEW p \in Paths
        PROVE  Flow(u, p)'
    <3>1. s = u /\ acted \subseteq {u}
      BY <2>1, <2>3
    <3>2. Flow(u, p)
      BY <1>0, <3>1 DEF Alone
    <3>. QED
      BY <1>0, <1>3, <3>1, <3>2, UserFlow
  <2>. QED
    BY <2>2, <2>3 DEF Owned, Alone
<1>4. ASSUME ~ \E s \in Sites, q \in Paths, v \in Versions : UserChanges(s, q, v)
      PROVE  Owned' /\ Alone'
  <2>1. ASSUME NEW u \in Sites, NEW p \in Paths, Flow(u, p)
        PROVE  Flow(u, p)'
    BY <1>0, <1>4, <2>1, OtherFlow
  <2>2. ASSUME NEW p \in Paths, NEW u \in Sites, p \notin crossed', u = author'[p]
        PROVE  Flow(u, p)'
    <3>1. author' = author /\ crossed' = crossed
      BY <1>0, <1>4, OtherHistory DEF historyVars
    <3>2. Flow(u, p)
      BY <1>0, <2>2, <3>1 DEF Owned
    <3>. QED
      BY <2>1, <3>2
  <2>3. ASSUME NEW u \in Sites, acted' \subseteq {u}, NEW p \in Paths
        PROVE  Flow(u, p)'
    <3>1. UNCHANGED historyVars
      BY <1>0, <1>4, OtherHistory
    <3>2. Flow(u, p)
      BY <1>0, <2>3, <3>1 DEF Alone, historyVars
    <3>. QED
      BY <2>1, <3>2
  <2>. QED
    BY <2>2, <2>3 DEF Owned, Alone
<1>. QED
  BY <1>1, <1>3, <1>4 DEF FlowInv

(* The requests about a path flow outward from the user who changes it     *)
(* until another user does, and on every connection that is not lost each  *)
(* is one its receiver can follow: a CREATE where the path is not tracked, *)
(* an UPDATE or a DELETE where it is (tracking_system.c:222-248,           *)
(* client.c:418-446).                                                      *)
THEOREM FlowHolds == Spec => []FlowInv
BY FlowInit, FlowStep, PTL DEF Spec

(* A path that is never changed on two sides at once is tracked once,      *)
(* whatever the relays and monitors report, for any number of clients,     *)
(* files and changes (tracking_system.c:236-241).                          *)
THEOREM TrackedOnceHolds == Spec => []TrackedOnce
<1>1. FlowInv => TrackedOnce
  <2>. SUFFICES ASSUME FlowInv, NEW s \in Sites, NEW p \in Paths, p \notin crossed
                PROVE  ~ Len(tracked[s][p]) > 1
    BY DEF TrackedOnce
  <2>1. Once(p) /\ TypeOK
    <3>1. author[p] \in Sites
      BY DEF FlowInv, TypeOK
    <3>. QED
      BY <3>1 DEF FlowInv, Owned, Flow
  <2>2. Len(tracked[s][p]) <= 1 /\ Len(tracked[s][p]) \in Nat
    BY <2>1, EntriesTyped DEF Once
  <2>. QED
    BY <2>2
<1>. QED
  BY <1>1, FlowHolds, PTL

(* Two threads wait for each other only if users at two sites have made    *)
(* changes (client_handler.c:155-157, client.c:200, 403-447).              *)
THEOREM GridlockNeedsTwoHolds == Spec => []GridlockNeedsTwo
<1>1. FlowInv => GridlockNeedsTwo
  <2>. SUFFICES ASSUME FlowInv, Gridlock
                PROVE  Cardinality(acted) >= 2
    BY DEF GridlockNeedsTwo
  <2>0. TypeOK /\ Alone
    BY DEF FlowInv
  <2>1. PICK c \in Clients : /\ receiver[<<c, server>>] = "lock"
                             /\ receiver[<<server, c>>] = "lock"
    BY DEF Gridlock
  <2>2. ASSUME NEW u \in Sites, acted \subseteq {u}
        PROVE  FALSE
    <3>1. \A p \in Paths : Courses(u, p)
      BY <2>0, <2>2 DEF Alone, Flow
    <3>2. \A l \in Links : request[l].path \in Paths
      BY <2>0, ChanTyped DEF Message
    <3>3. \A l \in Links : receiver[l] # "recv" => Outward(u, l)
      BY <3>1, <3>2 DEF Courses
    <3>4. Outward(u, <<c, server>>) /\ Outward(u, <<server, c>>)
      BY <2>1, <3>3, LinkEnds
    <3>. QED
      BY <3>4, LinkEnds, SitesAssumption DEF Outward
  <2>3. PICK s \in acted, t \in acted : s # t
    <3>1. server \in Sites
      BY DEF Sites
    <3>2. acted \subseteq Sites
      BY <2>0 DEF TypeOK
    <3>3. PICK s : s \in acted
      BY <2>2, <3>1
    <3>4. ~ acted \subseteq {s}
      BY <2>2, <3>2, <3>3
    <3>. QED
      BY <3>3, <3>4
  <2>4. IsFiniteSet(acted)
    <3>1. IsFiniteSet(Clients)
      <4>1. running \in Surjection(1 .. Len(running), Clients)
        BY RunningOnce DEF Surjection
      <4>2. IsFiniteSet(1 .. Len(running))
        BY RunningOnce, FS_Interval
      <4>. QED
        BY <4>1, <4>2, FS_Surjection
    <3>2. IsFiniteSet(Sites)
      BY <3>1, FS_AddElement DEF Sites
    <3>. QED
      BY <2>0, <3>2, FS_Subset DEF TypeOK
  <2>5. Cardinality({s, t}) = 2 /\ {s, t} \subseteq acted
    <3>1. IsFiniteSet({s}) /\ Cardinality({s}) = 1
      BY FS_Singleton
    <3>4. t \notin {s}
      BY <2>3
    <3>2. Cardinality({s} \cup {t}) = 2
      <4>1. Cardinality({s} \cup {t}) =
              IF t \in {s} THEN Cardinality({s}) ELSE Cardinality({s}) + 1
        BY <3>1, FS_AddElement
      <4>. QED
        BY <3>1, <3>4, <4>1
    <3>3. {s} \cup {t} = {s, t}
      OBVIOUS
    <3>. QED
      BY <2>3, <3>2, <3>3
  <2>6. Cardinality({s, t}) <= Cardinality(acted)
    BY <2>4, <2>5, FS_Subset
  <2>. QED
    BY <2>4, <2>5, <2>6, FS_CardinalityType
<1>. QED
  BY <1>1, FlowHolds, PTL
=============================================================================
