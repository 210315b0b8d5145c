------------------------ MODULE SnapshotLoaderProofs ------------------------
(***************************************************************************)
(* LoadSnapshot takes a whole snapshot of one block or nothing, for every  *)
(* set of keys and values, every chain, and every way module SnapshotLoader*)
(* lets a file be cut, lose a part or be altered: the agent that reads the *)
(* file implements the agent of StateSync, where the outcome is a choice.  *)
(*                                                                         *)
(* The digest is the argument.  A damaged file that still has the          *)
(* exporter's digest has the exporter's payload in front of it; one whose  *)
(* digest was altered has everything else as the exporter wrote it.        *)
(***************************************************************************)
EXTENDS SnapshotLoader, StateSyncProofs, FiniteSetTheorems, SequenceTheorems

(* The parts the digest is computed over.                                  *)
EntryPart(h, k) == Part("entry", [key |-> k, value |-> StateAt(h)[k]])
EntryParts(h, keys) == [i \in DOMAIN keys |-> EntryPart(h, keys[i])]
Payload(h, keys) == Header(h) \o EntryParts(h, keys) \o << EndMarker >>

(* A set the parts of a payload are in.                                    *)
Parts(h, keys) ==
    {Magic, Version, Part("height", h), EndMarker} \cup
        {EntryPart(h, keys[i]) : i \in DOMAIN keys}

-----------------------------------------------------------------------------
(* What the exporter writes *)

LEMMA FunctionIsSeq ==
    ASSUME NEW S, NEW n \in Nat, NEW s \in [1..n -> S]
    PROVE  s \in Seq(S)
OBVIOUS

(* Where the parts of a concatenation are.                                 *)
LEMMA ConcatParts ==
    ASSUME NEW S, NEW a \in Seq(S), NEW b \in Seq(S), NEW c, c = a \o b
    PROVE  /\ c \in Seq(S)
           /\ Len(c) = Len(a) + Len(b)
           /\ \A i \in 1..Len(a) : c[i] = a[i]
           /\ \A i \in 1..Len(b) : c[Len(a) + i] = b[i]
<1>1. /\ c \in Seq(S)
      /\ Len(c) = Len(a) + Len(b)
      /\ \A i \in 1..(Len(a) + Len(b)) :
            c[i] = IF i <= Len(a) THEN a[i] ELSE b[i - Len(a)]
  BY ConcatProperties
<1>2. Len(a) \in Nat /\ Len(b) \in Nat
  OBVIOUS
<1>3. \A i \in 1..Len(a) : c[i] = a[i]
  BY <1>1, <1>2
<1>4. ASSUME NEW i \in 1..Len(b) PROVE c[Len(a) + i] = b[i]
  <2>1. /\ Len(a) + i \in 1..(Len(a) + Len(b))
        /\ ~(Len(a) + i <= Len(a))
        /\ (Len(a) + i) - Len(a) = i
    BY <1>2
  <2> QED  BY <1>1, <2>1
<1> QED  BY <1>1, <1>3, <1>4

LEMMA PayloadParts ==
    ASSUME NEW h, NEW n \in Nat, NEW keys \in [1..n -> Keys]
    PROVE  /\ Payload(h, keys) \in Seq(Parts(h, keys))
           /\ Len(Payload(h, keys)) = n + 4
           /\ Payload(h, keys)[1] = Magic
           /\ Payload(h, keys)[2] = Version
           /\ Payload(h, keys)[3] = Part("height", h)
           /\ Payload(h, keys)[n + 4] = EndMarker
           /\ \A i \in 1..n : Payload(h, keys)[i + 3] = EntryPart(h, keys[i])
<1> DEFINE S == Parts(h, keys)
           es == EntryParts(h, keys)
           he == Header(h) \o es
<1>1. /\ Header(h) \in Seq(S)
      /\ Len(Header(h)) = 3
      /\ Header(h)[1] = Magic
      /\ Header(h)[2] = Version
      /\ Header(h)[3] = Part("height", h)
  <2>1. Magic \in S /\ Version \in S /\ Part("height", h) \in S
    BY DEF Parts
  <2> HIDE DEF S
  <2> QED  BY <2>1 DEF Header
<1>2. /\ es \in Seq(S)
      /\ Len(es) = n
      /\ \A i \in 1..n : es[i] = EntryPart(h, keys[i])
  <2>1. es \in [1..n -> S]
    BY DEF EntryParts, Parts
  <2>2. \A i \in 1..n : es[i] = EntryPart(h, keys[i])
    BY DEF EntryParts
  <2> HIDE DEF S, es
  <2> QED  BY <2>1, <2>2
<1>3. /\ << EndMarker >> \in Seq(S)
      /\ Len(<< EndMarker >>) = 1
      /\ << EndMarker >>[1] = EndMarker
  <2>1. EndMarker \in S
    BY DEF Parts
  <2> HIDE DEF S
  <2> QED  BY <2>1
<1> HIDE DEF S, es
<1>4. /\ he \in Seq(S)
      /\ Len(he) = 3 + n
      /\ \A i \in 1..3 : he[i] = Header(h)[i]
      /\ \A i \in 1..n : he[3 + i] = es[i]
  <2>1. he = Header(h) \o es
    OBVIOUS
  <2> HIDE DEF he
  <2>2. /\ he \in Seq(S)
        /\ Len(he) = Len(Header(h)) + Len(es)
        /\ \A i \in 1..Len(Header(h)) : he[i] = Header(h)[i]
        /\ \A i \in 1..Len(es) : he[Len(Header(h)) + i] = es[i]
    <3>1. Header(h) \in Seq(S) /\ es \in Seq(S)
      BY <1>1, <1>2
    <3> QED  BY <2>1, <3>1, ConcatParts
  <2>3. Len(Header(h)) = 3 /\ Len(es) = n
    BY <1>1, <1>2
  <2> QED  BY <2>2, <2>3
<1> HIDE DEF he
<1> DEFINE p == he \o << EndMarker >>
<1>5. /\ p \in Seq(S)
      /\ Len(p) = 3 + n + 1
      /\ \A i \in 1..(3 + n) : p[i] = he[i]
      /\ \A i \in 1..1 : p[3 + n + i] = << EndMarker >>[i]
  <2>1. p = he \o << EndMarker >>
    OBVIOUS
  <2> HIDE DEF p
  <2>2. /\ p \in Seq(S)
        /\ Len(p) = Len(he) + Len(<< EndMarker >>)
        /\ \A i \in 1..Len(he) : p[i] = he[i]
        /\ \A i \in 1..Len(<< EndMarker >>) : p[Len(he) + i] = << EndMarker >>[i]
    BY <1>3, <1>4, <2>1, ConcatParts
  <2> QED  BY <1>3, <1>4, <2>2
<1>6. p = Payload(h, keys)
  BY DEF Payload, he, es
<1> HIDE DEF p
<1>7. /\ p[1] = Magic /\ p[2] = Version /\ p[3] = Part("height", h)
  <2>1. p[1] = he[1] /\ p[2] = he[2] /\ p[3] = he[3]
    BY <1>5
  <2>2. he[1] = Header(h)[1] /\ he[2] = Header(h)[2] /\ he[3] = Header(h)[3]
    BY <1>4
  <2> QED  BY <1>1, <2>1, <2>2
<1>8. p[n + 4] = EndMarker
  <2>1. 3 + n + 1 = n + 4 /\ 1 \in 1..1
    OBVIOUS
  <2> QED  BY <1>3, <1>5, <2>1
<1>9. ASSUME NEW i \in 1..n PROVE p[i + 3] = EntryPart(h, keys[i])
  <2>1. 3 + i \in 1..(3 + n) /\ 3 + i = i + 3
    OBVIOUS
  <2>2. p[3 + i] = es[i]
    BY <1>4, <1>5, <2>1
  <2> QED  BY <1>2, <2>1, <2>2
<1>10. p \in Seq(S) /\ Len(p) = n + 4
  BY <1>5
<1> QED  BY <1>6, <1>7, <1>8, <1>9, <1>10 DEF S

PartsOf(f) == {f[k] : k \in DOMAIN f}

(* A file is the payload and three parts more; one part is a digest, one   *)
(* an end marker.                                                          *)
LEMMA ExportedParts ==
    ASSUME NEW h, NEW n \in Nat, NEW keys \in [1..n -> Keys]
    PROVE  /\ Exported(h, keys) \in Seq(PartsOf(Exported(h, keys)))
           /\ DOMAIN Exported(h, keys) = 1..(n + 7)
           /\ Len(Exported(h, keys)) = n + 7
           /\ \A i \in 1..(n + 4) : Exported(h, keys)[i] = Payload(h, keys)[i]
           /\ Exported(h, keys)[n + 6] = Part("digest", Payload(h, keys))
           /\ \A i \in 1..(n + 7) :
                 /\ "part" \in DOMAIN Exported(h, keys)[i]
                 /\ Exported(h, keys)[i].part = "digest" => i = n + 6
                 /\ Exported(h, keys)[i].part = "end" => i = n + 4
<1> DEFINE f == Exported(h, keys)
           p == Payload(h, keys)
           t == Trailer(n, p)
           S == Parts(h, keys) \cup {t[1], t[2], t[3]}
<1>2a. /\ Len(p) = n + 4
       /\ p[1] = Magic /\ p[2] = Version /\ p[3] = Part("height", h)
       /\ p[n + 4] = EndMarker
       /\ \A i \in 1..n : p[i + 3] = EntryPart(h, keys[i])
  <2> HIDE DEF S, t, f
  <2> QED  BY PayloadParts
<1>0. Len(keys) = n
  OBVIOUS
<1>1. f = p \o t
  BY <1>0 DEF Exported, Payload, EntryParts, EntryPart
<1>2. /\ t \in Seq(S)
      /\ Len(t) = 3
      /\ t[1] = Part("count", n)
      /\ t[2] = Part("digest", p)
      /\ t[3] = EndMagic
  <2>1. t[1] \in S /\ t[2] \in S /\ t[3] \in S
    OBVIOUS
  <2> HIDE DEF S, p
  <2>2. t \in [1..3 -> S]
    BY <2>1 DEF Trailer
  <2> QED  BY <2>2 DEF Trailer
<1>3. /\ p \in Seq(S)
      /\ Len(p) = n + 4
      /\ p[1] = Magic /\ p[2] = Version /\ p[3] = Part("height", h)
      /\ p[n + 4] = EndMarker
      /\ \A i \in 1..n : p[i + 3] = EntryPart(h, keys[i])
  <2>1. p \in Seq(Parts(h, keys))
    BY PayloadParts
  <2>2. Parts(h, keys) \subseteq S
    OBVIOUS
  <2>3. p \in Seq(S)
    <3> HIDE DEF S, p
    <3> QED  BY <2>1, <2>2, SeqMonotonic
  <2> QED  BY <1>2a, <2>3
<1> HIDE DEF S, p, t, f
<1>4. /\ f \in Seq(S)
      /\ Len(f) = n + 4 + 3
      /\ \A i \in 1..(n + 4) : f[i] = p[i]
      /\ \A i \in 1..3 : f[n + 4 + i] = t[i]
  <2>1. /\ f \in Seq(S)
        /\ Len(f) = Len(p) + Len(t)
        /\ \A i \in 1..Len(p) : f[i] = p[i]
        /\ \A i \in 1..Len(t) : f[Len(p) + i] = t[i]
    <3>1. p \in Seq(S) /\ t \in Seq(S) /\ f = p \o t
      BY <1>1, <1>2, <1>3
    <3> QED  BY <3>1, ConcatParts
  <2>2. Len(p) = n + 4 /\ Len(t) = 3
    BY <1>2, <1>3
  <2> QED  BY <2>1, <2>2
<1>5. f \in Seq(S) /\ Len(f) = n + 7 /\ \A i \in 1..(n + 4) : f[i] = p[i]
  BY <1>4
<1>6. f[n + 5] = t[1] /\ f[n + 6] = t[2] /\ f[n + 7] = t[3]
  <2>1. n + 4 + 1 = n + 5 /\ n + 4 + 2 = n + 6 /\ n + 4 + 3 = n + 7
    OBVIOUS
  <2> QED  BY <1>4, <2>1
<1>7. \A i \in 1..(n + 7) : /\ "part" \in DOMAIN f[i]
                            /\ f[i].part = "digest" => i = n + 6
                            /\ f[i].part = "end" => i = n + 4
  <2> SUFFICES ASSUME NEW i \in 1..(n + 7)
               PROVE  /\ "part" \in DOMAIN f[i]
                      /\ f[i].part = "digest" => i = n + 6
                      /\ f[i].part = "end" => i = n + 4
    OBVIOUS
  <2>1. CASE i \in {1, 2, 3}
    <3>1. f[i] = p[i]
      BY <1>5, <2>1
    <3> QED  BY <1>3, <2>1, <3>1 DEF Part, Magic, Version
  <2>2. CASE i \in 4..(n + 3)
    <3>1. i - 3 \in 1..n /\ (i - 3) + 3 = i
      BY <2>2
    <3>2. f[i] = p[i]
      BY <1>5, <2>2
    <3>3. p[(i - 3) + 3] = EntryPart(h, keys[i - 3])
      BY <1>3, <3>1
    <3> QED  BY <2>2, <3>1, <3>2, <3>3 DEF EntryPart, Part
  <2>3. CASE i = n + 4
    <3>1. f[i] = EndMarker
      BY <1>3, <1>5, <2>3
    <3> QED  BY <2>3, <3>1 DEF EndMarker, Part
  <2>4. CASE i = n + 5
    BY <1>2, <1>6, <2>4 DEF Part
  <2>5. CASE i = n + 6
    BY <1>2, <1>6, <2>5 DEF Part
  <2>6. CASE i = n + 7
    BY <1>2, <1>6, <2>6 DEF Part, EndMagic
  <2> QED  BY <2>1, <2>2, <2>3, <2>4, <2>5, <2>6
<1>8. DOMAIN f = 1..(n + 7)
  BY <1>5
<1>9. f \in Seq(PartsOf(f))
  <2>1. f \in [1..(n + 7) -> PartsOf(f)]
    BY <1>5 DEF PartsOf
  <2> QED  BY <2>1
<1> QED  BY <1>2, <1>5, <1>6, <1>7, <1>8, <1>9 DEF f, p

-----------------------------------------------------------------------------
(* What the checks of LoadSnapshot let through *)

(* What may become of a file on its way to the worker.                     *)
Damaged(f) ==
    {f} \cup {Cut(f, i) : i \in DOMAIN f} \cup {Lost(f, i) : i \in DOMAIN f}
        \cup UNION {{[f EXCEPT ![i].content = c] : c \in Altered(f[i])} : i \in DOMAIN f}

LEMMA VerdictsOfDamaged ==
    ASSUME NEW v \in Verdicts
    PROVE  \E h \in 0..Len(chain) : \E keys \in Listings(KeysAt(h)) :
              \E g \in Damaged(Exported(h, keys)) : v = ReadSnapshot(g, height)
<1>1. PICK h \in 0..Len(chain) :
        v \in UNION {VerdictsOn(Exported(h, keys)) : keys \in Listings(KeysAt(h))}
  BY DEF Verdicts
<1>2. PICK keys \in Listings(KeysAt(h)) : v \in VerdictsOn(Exported(h, keys))
  BY <1>1
<1> DEFINE f == Exported(h, keys)
<1> HIDE DEF f
<1>3. \E g \in Damaged(f) : v = ReadSnapshot(g, height)
  <2>1. CASE v = ReadSnapshot(f, height)
    BY <2>1 DEF Damaged
  <2>2. CASE \E i \in DOMAIN f : v = ReadSnapshot(Cut(f, i), height)
    BY <2>2 DEF Damaged
  <2>3. CASE \E i \in DOMAIN f : v = ReadSnapshot(Lost(f, i), height)
    BY <2>3 DEF Damaged
  <2>4. CASE \E i \in DOMAIN f : \E c \in Altered(f[i]) :
               v = ReadSnapshot([f EXCEPT ![i].content = c], height)
    <3>0. PICK i \in DOMAIN f : \E c \in Altered(f[i]) :
            v = ReadSnapshot([f EXCEPT ![i].content = c], height)
      BY <2>4
    <3>1. PICK c \in Altered(f[i]) : v = ReadSnapshot([f EXCEPT ![i].content = c], height)
      BY <3>0
    <3> DEFINE g == [f EXCEPT ![i].content = c]
    <3>2. g \in Damaged(f)
      BY DEF Damaged
    <3> QED  BY <3>1, <3>2
  <2> QED  BY <1>2, <2>1, <2>2, <2>3, <2>4 DEF VerdictsOn, f
<1> QED  BY <1>3 DEF f

LEMMA TrailerSays ==
    ASSUME NEW g, TrailerGood(g)
    PROVE  LET e == EndOf(g)
           IN  /\ e \in DOMAIN g /\ g[e].part = "end"
               /\ e + 2 \in DOMAIN g /\ g[e + 2].part = "digest"
               /\ g[e + 2].content = SubSeq(g, 1, e)
<1> DEFINE e == EndOf(g)
           s == SubSeq(g, 1, e)
           t == Trailer(e - 4, s)
<1>1. Has(g, e, EndMarker) /\ \A i \in DOMAIN t : Has(g, e + i, t[i])
  BY DEF TrailerGood
<1> HIDE DEF e, s
<1>2. 2 \in DOMAIN t /\ t[2] = Part("digest", s)
  BY DEF Trailer
<1>3. Has(g, e + 2, Part("digest", s))
  BY <1>1, <1>2
<1> QED  BY <1>1, <1>3 DEF Has, Part, EndMarker, e, s

(* A digest covers everything in front of the trailer.                     *)
LEMMA DigestPins ==
    ASSUME NEW g, NEW e \in Nat \ {0}, NEW n \in Nat, NEW p,
           SubSeq(g, 1, e) = p, Len(p) = n + 4
    PROVE  e = n + 4 /\ \A i \in 1..e : g[i] = p[i]
<1> DEFINE S == {g[i] : i \in 1..e}
<1>1. \A i \in 1..e : g[i] \in S
  OBVIOUS
<1> HIDE DEF S
<1>2. 1 \in Int /\ e \in Int
  OBVIOUS
<1>3. /\ Len(SubSeq(g, 1, e)) = IF 1 <= e THEN e - 1 + 1 ELSE 0
      /\ \A i \in 1..(e - 1 + 1) : SubSeq(g, 1, e)[i] = g[1 + i - 1]
  BY <1>1, <1>2, SubSeqProperties
<1> QED  BY <1>3

(* What pins a file down: the payload, its digest and the one end marker.  *)
LEMMA ExportedPins ==
    ASSUME NEW h, NEW n \in Nat, NEW keys \in [1..n -> Keys]
    PROVE  /\ DOMAIN Exported(h, keys) = 1..(n + 7)
           /\ \A i \in 1..(n + 4) : Exported(h, keys)[i] = Payload(h, keys)[i]
           /\ Exported(h, keys)[n + 6] = Part("digest", Payload(h, keys))
           /\ \A i \in 1..(n + 7) :
                 Exported(h, keys)[i].part = "digest" => i = n + 6
           /\ \A i \in 1..(n + 7) :
                 Exported(h, keys)[i].part = "end" => i = n + 4
BY ExportedParts

(* A file made of parts of the exported one has one digest to offer.       *)
LEMMA PiecesIntact ==
    ASSUME NEW h, NEW n \in Nat, NEW keys \in [1..n -> Keys],
           NEW g \in Seq(PartsOf(Exported(h, keys))), TrailerGood(g)
    PROVE  /\ EndOf(g) = n + 4
           /\ \A i \in 1..(n + 4) : g[i] = Payload(h, keys)[i]
<1> DEFINE e == EndOf(g)
           f == Exported(h, keys)
           p == Payload(h, keys)
<1>1. /\ e \in Nat \ {0}
      /\ e + 2 \in DOMAIN g
      /\ g[e + 2].part = "digest"
      /\ g[e + 2].content = SubSeq(g, 1, e)
  <2>1. DOMAIN g \subseteq Nat \ {0}
    OBVIOUS
  <2> QED  BY <2>1, TrailerSays
<1>3. /\ DOMAIN f = 1..(n + 7)
      /\ f[n + 6] = Part("digest", p)
      /\ \A i \in 1..(n + 7) : f[i].part = "digest" => i = n + 6
  <2> HIDE DEF e
  <2> QED  BY ExportedPins
<1>2. PICK k \in 1..(n + 7) : g[e + 2] = f[k]
  <2> HIDE DEF e, f
  <2>2. g[e + 2] \in PartsOf(f)
    BY <1>1 DEF f
  <2> QED  BY <1>3, <2>2 DEF PartsOf
<1>5. Len(p) = n + 4
  BY PayloadParts
<1> HIDE DEF e, f, p
<1>4. SubSeq(g, 1, e) = p
  BY <1>1, <1>2, <1>3 DEF Part
<1>6. e = n + 4 /\ \A i \in 1..e : g[i] = p[i]
  BY <1>1, <1>4, <1>5, DigestPins
<1> QED  BY <1>6 DEF e, p

(* Only one part is altered, so the end marker is where it was.            *)
OneAltered(f, g) ==
    /\ DOMAIN g = DOMAIN f
    /\ \E i \in DOMAIN g :
          /\ g[i].part = f[i].part
          /\ \A j \in DOMAIN g : j # i => g[j] = f[j]

LEMMA AlteredIntact ==
    ASSUME NEW h, NEW n \in Nat, NEW keys \in [1..n -> Keys],
           NEW g, TrailerGood(g), OneAltered(Exported(h, keys), g)
    PROVE  /\ EndOf(g) = n + 4
           /\ \A j \in 1..(n + 4) : g[j] = Payload(h, keys)[j]
<1> DEFINE e == EndOf(g)
           f == Exported(h, keys)
           p == Payload(h, keys)
<1>1. /\ DOMAIN f = 1..(n + 7)
      /\ \A j \in 1..(n + 4) : f[j] = p[j]
      /\ f[n + 6] = Part("digest", p)
      /\ \A j \in 1..(n + 7) :
            f[j].part = "end" => j = n + 4
  <2> HIDE DEF e
  <2> QED  BY ExportedPins
<1>2. /\ e \in DOMAIN g /\ g[e].part = "end"
      /\ e + 2 \in DOMAIN g
      /\ g[e + 2].content = SubSeq(g, 1, e)
  BY TrailerSays
<1>3. Len(p) = n + 4
  BY PayloadParts
<1>4. DOMAIN g = 1..(n + 7)
  BY <1>1 DEF OneAltered
<1>5. PICK i \in 1..(n + 7) :
         /\ \A j \in 1..(n + 7) : j # i => g[j] = f[j]
         /\ g[i].part = f[i].part
  BY <1>4 DEF OneAltered
<1> HIDE DEF e, f, p
<1>6. e = n + 4
  <2>1. e \in 1..(n + 7)
    BY <1>2, <1>4
  <2>2. f[e].part = "end"
    BY <1>2, <1>5, <2>1
  <2>3. PICK j \in 1..(n + 7) : j = e
    BY <2>1
  <2> QED  BY <1>1, <2>2, <2>3
<1>7. CASE i = n + 6
  <2>1. \A j \in 1..(n + 4) : j \in 1..(n + 7) /\ j # i
    BY <1>7
  <2> QED  BY <1>1, <1>5, <1>6, <2>1 DEF e, p
<1>8. CASE i # n + 6
  <2>1. n + 6 \in 1..(n + 7) /\ e + 2 = n + 6
    BY <1>6
  <2>2. g[n + 6] = Part("digest", p)
    BY <1>1, <1>5, <1>8, <2>1
  <2>3. SubSeq(g, 1, e) = p
    BY <1>2, <2>1, <2>2 DEF Part
  <2>4. e \in Nat \ {0}
    BY <1>6
  <2>5. \A j \in 1..e : g[j] = p[j]
    BY <1>3, <2>3, <2>4, DigestPins
  <2> QED  BY <1>6, <2>5 DEF e, p
<1> QED  BY <1>7, <1>8

LEMMA DamagedIntact ==
    ASSUME NEW h, NEW n \in Nat, NEW keys \in [1..n -> Keys],
           NEW g \in Damaged(Exported(h, keys)), TrailerGood(g)
    PROVE  /\ EndOf(g) = n + 4
           /\ \A j \in 1..(n + 4) : g[j] = Payload(h, keys)[j]
<1> DEFINE f == Exported(h, keys)
           S == PartsOf(f)
<1>1. f \in Seq(S) /\ Len(f) = n + 7 /\ DOMAIN f = 1..(n + 7)
  <2>1. f \in Seq(S)
    BY ExportedParts
  <2>2. Len(f) = n + 7 /\ DOMAIN f = 1..(n + 7)
    BY ExportedParts
  <2> QED  BY <2>1, <2>2
<1>2. ASSUME g \in Seq(S)
      PROVE  /\ EndOf(g) = n + 4
             /\ \A j \in 1..(n + 4) : g[j] = Payload(h, keys)[j]
  BY <1>2, PiecesIntact
<1>3. ASSUME NEW a \in Int, NEW b \in Int, 1 <= a, b <= n + 7
      PROVE  SubSeq(f, a, b) \in Seq(S)
  <2>1. \A i \in a..b : f[i] \in S
    BY <1>1, <1>3 DEF PartsOf
  <2> HIDE DEF S, f
  <2> QED  BY <2>1, SubSeqProperties
<1>4. CASE g = f
  BY <1>1, <1>2, <1>4
<1>5. CASE \E i \in 1..(n + 7) : g = Cut(f, i)
  <2>1. PICK i \in 1..(n + 7) : g = Cut(f, i)
    BY <1>5
  <2>2. 1 \in Int /\ i - 1 \in Int /\ 1 <= 1 /\ i - 1 <= n + 7
    OBVIOUS
  <2>3. SubSeq(f, 1, i - 1) \in Seq(S)
    BY <1>3, <2>2
  <2> QED  BY <1>2, <2>1, <2>3 DEF Cut
<1>6. CASE \E i \in 1..(n + 7) : g = Lost(f, i)
  <2>1. PICK i \in 1..(n + 7) : g = Lost(f, i)
    BY <1>6
  <2>2. /\ 1 \in Int /\ i - 1 \in Int /\ 1 <= 1 /\ i - 1 <= n + 7
        /\ i + 1 \in Int /\ n + 7 \in Int /\ 1 <= i + 1 /\ n + 7 <= n + 7
    OBVIOUS
  <2>3. SubSeq(f, 1, i - 1) \in Seq(S) /\ SubSeq(f, i + 1, n + 7) \in Seq(S)
    BY <1>3, <2>2
  <2>4. g = SubSeq(f, 1, i - 1) \o SubSeq(f, i + 1, n + 7)
    BY <1>1, <2>1 DEF Lost, Cut
  <2>5. g \in Seq(S)
    <3> HIDE DEF S, f
    <3> QED  BY <2>3, <2>4, ConcatProperties
  <2> QED  BY <1>2, <2>5
<1>7. CASE \E i \in 1..(n + 7) : \E c : g = [f EXCEPT ![i].content = c]
  <2>1. PICK i \in 1..(n + 7) : \E c : g = [f EXCEPT ![i].content = c]
    BY <1>7
  <2>2. PICK c : g = [f EXCEPT ![i].content = c]
    BY <2>1
  <2>3. "part" \in DOMAIN f[i]
    BY ExportedParts
  <2>4. /\ DOMAIN g = DOMAIN f
        /\ i \in DOMAIN g
        /\ g[i].part = f[i].part
        /\ \A j \in DOMAIN g : j # i => g[j] = f[j]
    <3> HIDE DEF f
    <3>1. [f[i] EXCEPT !.content = c].part = f[i].part
      BY <2>3
    <3> QED  BY <1>1, <2>2, <3>1
  <2>5. OneAltered(f, g)
    BY <2>4 DEF OneAltered
  <2> QED  BY <2>5, AlteredIntact
<1> HIDE DEF f, S
<1>8. g \in Damaged(f)
  BY DEF f
<1>9. CASE \E i \in DOMAIN f : \E c \in Altered(f[i]) : g = [f EXCEPT ![i].content = c]
  BY <1>1, <1>7, <1>9
<1>10. \/ g = f
       \/ \E i \in DOMAIN f : g = Cut(f, i)
       \/ \E i \in DOMAIN f : g = Lost(f, i)
       \/ \E i \in DOMAIN f : \E c \in Altered(f[i]) : g = [f EXCEPT ![i].content = c]
  BY <1>8 DEF Damaged
<1> QED  BY <1>1, <1>4, <1>5, <1>6, <1>9, <1>10

-----------------------------------------------------------------------------
(* What a loaded file is applied as *)

(* A listing names every key it lists.                                     *)
LEMMA ListingsNameAll ==
    ASSUME NEW S, IsFiniteSet(S), NEW keys \in Listings(S)
    PROVE  /\ Cardinality(S) \in Nat
           /\ keys \in [1..Cardinality(S) -> S]
           /\ \A k \in S : \E i \in 1..Cardinality(S) : keys[i] = k
<1> DEFINE n == Cardinality(S)
<1>1. n \in Nat
  BY FS_CardinalityType
<1>2. keys \in [1..n -> S] /\ \A i, j \in DOMAIN keys : keys[i] = keys[j] => i = j
  BY DEF Listings
<1> HIDE DEF n
<1>3. keys \in Injection(1..n, S)
  BY <1>2 DEF Injection, IsInjective
<1>4. Cardinality(1..n) = n
  <2>1. 1 \in Int /\ n \in Int
    BY <1>1
  <2>2. Cardinality(1..n) = IF 1 > n THEN 0 ELSE n - 1 + 1
    BY <2>1, FS_Interval
  <2> QED  BY <1>1, <2>2
<1>5. keys \in Surjection(1..n, S)
  BY <1>3, <1>4, FS_Injection DEF n
<1> QED  BY <1>1, <1>2, <1>5 DEF Surjection, n

(* The puts of a whole snapshot, applied as one diff.                      *)
LEMMA PutsAreOverlay ==
    ASSUME TypeOK, NEW h \in 0..Len(chain), NEW keys \in Listings(KeysAt(h)),
           NEW puts,
           puts = [i \in 1..Cardinality(KeysAt(h)) |->
                     [type |-> WriteTypePut,
                      key |-> keys[i], value |-> StateAt(h)[keys[i]]]]
    PROVE  ApplyEntries(disk.kv, puts) = Overlay(disk.kv, StateAt(h))
<1> DEFINE S == KeysAt(h)
           n == Cardinality(S)
<1> USE SyncAssumption, StoreAssumption, LoaderAssumption
<1>1. StateAt(h) \in Contents
  BY StateAtType
<1>2. S \subseteq Keys /\ \A k \in S : StateAt(h)[k] \in Values
  BY <1>1 DEF KeysAt, Contents
<1>3. IsFiniteSet(S)
  <2>1. S \in SUBSET SnapKeys
    BY DEF KeysAt
  <2> HIDE DEF S
  <2> QED  BY <2>1, FS_Subset
<1>4. /\ n \in Nat
      /\ keys \in [1..n -> S]
      /\ \A k \in S : \E i \in 1..n : keys[i] = k
  <2> HIDE DEF S
  <2> QED  BY <1>3, ListingsNameAll DEF S
<1> HIDE DEF n, S
<1>5. /\ DOMAIN puts = 1..n
      /\ \A i \in 1..n : /\ puts[i] \in Entry
                        /\ puts[i].type = WriteTypePut
                        /\ puts[i].key = keys[i]
                        /\ puts[i].value = StateAt(h)[keys[i]]
  BY <1>2, <1>4 DEF Entry, WriteTypePut, n, S
<1>6. puts \in Seq(Entry)
  <2>1. puts \in [1..n -> Entry]
    BY <1>5
  <2>2. n \in Nat
    BY <1>4
  <2> QED  BY <2>1, <2>2, FunctionIsSeq
<1>7. ASSUME NEW k \in Keys
      PROVE  ApplyEntries(disk.kv, puts)[k] = Overlay(disk.kv, StateAt(h))[k]
  <2>1. CASE k \in S
    <3>1. Writers(k, puts) # {}
      BY <1>4, <1>5, <2>1 DEF Writers
    <3>2. LastWriter(k, puts) \in Writers(k, puts)
      BY <1>6, <3>1, LastWriterExists
    <3>3. Written(puts[LastWriter(k, puts)]) = StateAt(h)[k]
      BY <1>5, <3>2 DEF Writers, Written
    <3> QED  BY <2>1, <3>1, <3>3 DEF ApplyEntries, Overlay, S, KeysAt
  <2>2. CASE k \notin S
    <3>1. ASSUME NEW i \in 1..n PROVE puts[i].key # k
      <4>1. keys[i] \in S
        BY <1>4
      <4>2. puts[i].key = keys[i]
        BY <1>5
      <4> QED  BY <2>2, <4>1, <4>2
    <3>2. Writers(k, puts) = {}
      BY <1>5, <3>1 DEF Writers
    <3> QED  BY <2>2, <3>2 DEF ApplyEntries, Overlay, S, KeysAt
  <2> QED  BY <2>1, <2>2
<1> QED  BY <1>7 DEF ApplyEntries, Overlay

-----------------------------------------------------------------------------
(* The refinement *)

(* A file that loads has the whole payload of one block.                   *)
LEMMA LoadedIsSnapshot ==
    ASSUME TypeOK, height = 0,
           NEW v \in Verdicts, v.verdict = "loaded"
    PROVE  \E h \in 1..Len(chain) :
              /\ v.height = h
              /\ ApplyEntries(disk.kv, v.entries) = Overlay(disk.kv, StateAt(h))
<1> USE SyncAssumption, LoaderAssumption
<1>1. PICK h \in 0..Len(chain) : \E keys \in Listings(KeysAt(h)) :
         \E g \in Damaged(Exported(h, keys)) : v = ReadSnapshot(g, height)
  BY VerdictsOfDamaged
<1>2. PICK keys \in Listings(KeysAt(h)) :
         \E g \in Damaged(Exported(h, keys)) : v = ReadSnapshot(g, height)
  BY <1>1
<1>3. PICK g \in Damaged(Exported(h, keys)) : v = ReadSnapshot(g, height)
  BY <1>2
<1> DEFINE n == Cardinality(KeysAt(h))
<1>4. /\ TrailerGood(g)
      /\ ~(height >= g[3].content)
      /\ v = Loaded(g[3].content, PutsOf(g))
  BY <1>3 DEF ReadSnapshot, Refused, Skipped, Loaded
<1>5. n \in Nat /\ keys \in [1..n -> Keys]
  <2>1. KeysAt(h) \in SUBSET SnapKeys
    BY DEF KeysAt
  <2>2. IsFiniteSet(KeysAt(h))
    BY <2>1, FS_Subset
  <2>3. n \in Nat /\ keys \in [1..n -> KeysAt(h)]
    BY <2>2, ListingsNameAll
  <2> HIDE DEF n
  <2> QED  BY <2>1, <2>3
<1> HIDE DEF n
<1>6. EndOf(g) = n + 4 /\ \A j \in 1..(n + 4) : g[j] = Payload(h, keys)[j]
  BY <1>4, <1>5, DamagedIntact
<1>7. g[3].content = h
  <2>1. 3 \in 1..(n + 4)
    BY <1>5
  <2>2. Payload(h, keys)[3] = Part("height", h)
    BY <1>5, PayloadParts
  <2> QED  BY <1>6, <2>1, <2>2 DEF Part
<1>8. \A i \in 1..n : g[i + 3] = EntryPart(h, keys[i])
  <2> SUFFICES ASSUME NEW i \in 1..n PROVE g[i + 3] = EntryPart(h, keys[i])
    OBVIOUS
  <2>1. i + 3 \in 1..(n + 4)
    BY <1>5
  <2>2. Payload(h, keys)[i + 3] = EntryPart(h, keys[i])
    BY <1>5, PayloadParts
  <2> QED  BY <1>6, <2>1, <2>2
<1>9. PutsOf(g) = [i \in 1..n |-> [type |-> WriteTypePut, key |-> keys[i],
                                  value |-> StateAt(h)[keys[i]]]]
  <2>1. EndOf(g) - 4 = n
    BY <1>5, <1>6
  <2>2. \A i \in 1..n : /\ g[i + 3].content.key = keys[i]
                       /\ g[i + 3].content.value = StateAt(h)[keys[i]]
    <3> SUFFICES ASSUME NEW i \in 1..n
                 PROVE  /\ g[i + 3].content.key = keys[i]
                        /\ g[i + 3].content.value = StateAt(h)[keys[i]]
      OBVIOUS
    <3>1. g[i + 3] = EntryPart(h, keys[i])
      BY <1>8
    <3> QED  BY <3>1 DEF EntryPart, Part
  <2>3. PutsOf(g) = [i \in 1..n |-> [type |-> WriteTypePut, key |-> g[i + 3].content.key,
                                    value |-> g[i + 3].content.value]]
    BY <2>1 DEF PutsOf
  <2> QED  BY <2>2, <2>3
<1>10. ApplyEntries(disk.kv, PutsOf(g)) = Overlay(disk.kv, StateAt(h))
  BY <1>9, PutsAreOverlay DEF n
<1>11. h \in 1..Len(chain)
  BY <1>4, <1>7
<1> QED  BY <1>4, <1>7, <1>10, <1>11 DEF Loaded

LEMMA LoadFileLoadsSnapshot ==
    ASSUME TypeOK, LoadFile
    PROVE  LoadSnapshot
<1>1. PICK v \in Verdicts : /\ v.verdict = "loaded"
                            /\ Commit(v.height, ApplyEntries(disk.kv, v.entries))
  BY DEF LoadFile
<1>2. workerPc = "load" /\ height = 0
  BY DEF LoadFile, Opens
<1>3. PICK h \in 1..Len(chain) :
         /\ v.height = h
         /\ ApplyEntries(disk.kv, v.entries) = Overlay(disk.kv, StateAt(h))
  BY <1>1, <1>2, LoadedIsSnapshot
<1>4. h > height /\ Commit(h, Overlay(disk.kv, StateAt(h)))
  BY <1>1, <1>2, <1>3
<1>5. /\ workerPc' = "publish"
      /\ UNCHANGED <<chain, syncVars, active, cancelled>>
  BY DEF LoadFile
<1> QED  BY <1>2, <1>4, <1>5 DEF LoadSnapshot

LEMMA LoaderStep ==
    ASSUME TypeOK, [LoaderNext]_vars
    PROVE  [Next]_vars
<1>1. CASE LoadFile
  BY <1>1, LoadFileLoadsSnapshot DEF Next, Worker
<1>2. CASE SkipFile \/ NoFile
  <2>1. SkipSnapshot
    BY <1>2 DEF SkipFile, NoFile, Opens, SkipSnapshot
  <2> QED  BY <2>1 DEF Next, Worker
<1>3. CASE FileFails
  BY <1>3 DEF FileFails, Opens, LoadFails, Next, Worker
<1>4. CASE UNCHANGED vars
  BY <1>4
<1>5. CASE NewBlock \/ Sync \/ StreamFails \/ Boot \/ Signal \/ Crash
  BY <1>5 DEF Next
<1>6. CASE \/ Register \/ OpenStore \/ OpenFails \/ SnapshotLoaded
          \/ StartSync \/ StartServing \/ NotReady \/ Shutdown \/ CloseStore \/ Exit
  BY <1>6 DEF Next, Worker
<1> QED  BY <1>1, <1>2, <1>3, <1>4, <1>5, <1>6 DEF LoaderNext, LoaderWorker

(* The agent that reads a snapshot file, whole or damaged, does no more    *)
(* than the agent of StateSync: it takes one block's snapshot, skips the   *)
(* file or ends (snapshot.go LoadSnapshot, worker.go runWorker).           *)
THEOREM LoaderImplementsSync == LoaderSpec => ImplementsSync
<1>1. Init => IInv
  BY InitInv
<1>2. IInv /\ [LoaderNext]_vars => IInv' /\ [Next]_vars
  BY LoaderStep, StepInv DEF IInv
<1> QED  BY <1>1, <1>2, PTL DEF LoaderSpec, ImplementsSync, Spec

(* So its file is as sound: no damaged snapshot puts a wrong value there.  *)
THEOREM LoaderReplicaSound == LoaderSpec => []ReplicaSound
BY LoaderImplementsSync, SoundReplica DEF ImplementsSync
=============================================================================
