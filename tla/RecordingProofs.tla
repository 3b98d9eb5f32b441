-------------------------- MODULE RecordingProofs --------------------------
(* Theorems about DatasetWriter, for every buffer size, number of frames    *)
(* and number of sessions, and about RecordingStrategies on top of it, for  *)
(* every strategy, upload interval and ring buffer.                         *)
EXTENDS RecordingStrategies, WellFoundedInduction, TLAPS

(* Induction over the numbers, with a set for the predicate.                *)
NatLess == {p \in Nat \X Nat : p[1] < p[2]}

LEMMA Induct ==
  ASSUME NEW S, 0 \in S, \A n \in Nat : n \in S => n + 1 \in S
  PROVE  Nat \subseteq S
<1> DEFINE T == Nat \ S
<1>1. SUFFICES ASSUME T # {} PROVE FALSE
  OBVIOUS
<1>2. T \subseteq Nat
  OBVIOUS
<1>wf. IsWellFoundedOn(NatLess, Nat)
  BY NatLessThanWellFounded DEF NatLess, OpToRel
<1> HIDE DEF T
<1>3. PICK x \in T : \A y \in T : ~(<<y, x>> \in NatLess)
  BY <1>1, <1>2, <1>wf, WFMin
<1>4. x \in Nat /\ x \notin S
  BY DEF T
<1>5. x # 0
  BY <1>4
<1>6. x - 1 \in Nat /\ x - 1 < x
  BY <1>4, <1>5
<1>7. x - 1 \notin T
  <2>1. <<x - 1, x>> \in NatLess
    BY <1>4, <1>6 DEF NatLess
  <2>2. QED
    BY <1>3, <2>1
<1>8. x - 1 \in S
  BY <1>6, <1>7 DEF T
<1>f. QED
  BY <1>4, <1>6, <1>8

(* What the recursive function of FlattenSeq satisfies.                     *)
Flattens(s, n, g) == g = [i \in 1..n |-> IF i = 1 THEN s[i] ELSE g[i - 1] \o s[i]]

LEMMA FlattensAt ==
  ASSUME NEW s, NEW n, NEW g, Flattens(s, n, g), NEW k \in 1..n
  PROVE  g[k] = IF k = 1 THEN s[k] ELSE g[k - 1] \o s[k]
<1> DEFINE f == [i \in 1..n |-> IF i = 1 THEN s[i] ELSE g[i - 1] \o s[i]]
<1>1. f[k] = IF k = 1 THEN s[k] ELSE g[k - 1] \o s[k]
  OBVIOUS
<1>2. g = f
  BY DEF Flattens
<1> HIDE DEF f
<1>3. g[k] = f[k]
  BY <1>2
<1>4. QED
  BY <1>1, <1>3

LEMMA FlattensExists ==
  ASSUME NEW s, NEW n \in Nat
  PROVE  \E g : Flattens(s, n, g)
<1> DEFINE S == {m \in Nat : \E g : Flattens(s, m, g)}
<1>1. 0 \in S
  <2>1. Flattens(s, 0, [i \in 1..0 |-> s[i]])
    BY DEF Flattens
  <2>2. QED
    BY <2>1
<1>2. ASSUME NEW m \in Nat, m \in S
      PROVE  m + 1 \in S
  <2>1. PICK g : Flattens(s, m, g)
    BY <1>2
  <2> DEFINE h == [i \in 1..(m + 1) |->
                     IF i = 1 THEN s[i] ELSE g[i - 1] \o s[i]]
  <2>2. \A i \in 1..m : g[i] = IF i = 1 THEN s[i] ELSE g[i - 1] \o s[i]
    BY <2>1 DEF Flattens
  <2>3. \A i \in 1..m : h[i] = g[i]
    BY <2>2
  <2>4. \A i \in 1..(m + 1) : i # 1 => i - 1 \in 1..m
    OBVIOUS
  <2>5. h = [i \in 1..(m + 1) |-> IF i = 1 THEN s[i] ELSE h[i - 1] \o s[i]]
    BY <2>3, <2>4
  <2>6. Flattens(s, m + 1, h)
    BY <2>5 DEF Flattens
  <2>7. QED
    BY <2>6
<1>3. Nat \subseteq S
  <2> HIDE DEF S
  <2>1. QED
    BY <1>1, <1>2, Induct
<1>4. QED
  BY <1>3

LEMMA FlattensAgree ==
  ASSUME NEW s, NEW t, NEW n \in Nat, NEW g, NEW h,
         Flattens(s, n, g), Flattens(t, n + 1, h), \A i \in 1..n : s[i] = t[i]
  PROVE  n # 0 => g[n] = h[n]
<1> DEFINE S == {k \in Nat : k \in 1..n => g[k] = h[k]}
<1>1. 0 \in S
  OBVIOUS
<1>2. ASSUME NEW k \in Nat, k \in S
      PROVE  k + 1 \in S
  <2>1. SUFFICES ASSUME k + 1 \in 1..n PROVE g[k + 1] = h[k + 1]
    OBVIOUS
  <2>2. g[k + 1] = IF k + 1 = 1 THEN s[k + 1] ELSE g[k + 1 - 1] \o s[k + 1]
    BY <2>1, FlattensAt
  <2>3. k + 1 \in 1..(n + 1)
    BY <2>1
  <2>4. h[k + 1] = IF k + 1 = 1 THEN t[k + 1] ELSE h[k + 1 - 1] \o t[k + 1]
    BY <2>3, FlattensAt
  <2>5. k + 1 - 1 = k /\ (k + 1 = 1 \/ k \in 1..n)
    BY <2>1
  <2>6. QED
    BY <1>2, <2>1, <2>2, <2>4, <2>5
<1>3. Nat \subseteq S
  <2> HIDE DEF S
  <2>1. QED
    BY <1>1, <1>2, Induct
<1>4. QED
  BY <1>3

LEMMA Concat ==
  ASSUME NEW X, NEW s \in Seq(X), NEW t \in Seq(X)
  PROVE  /\ s \o t \in Seq(X)
         /\ Len(s \o t) = Len(s) + Len(t)
         /\ \A i \in 1..Len(s) : (s \o t)[i] = s[i]
         /\ \A i \in 1..Len(t) : (s \o t)[Len(s) + i] = t[i]
  OBVIOUS

LEMMA PrefixConcat ==
  ASSUME NEW p \in Seq(Row), NEW s \in Seq(Row), NEW t \in Seq(Row), Len(p) <= Len(s),
         \A i \in 1..Len(p) : s[i] = p[i]
  PROVE  Len(p) <= Len(s \o t) /\ \A i \in 1..Len(p) : (s \o t)[i] = p[i]
  BY Concat

LEMMA ConcatAssoc ==
  ASSUME NEW r \in Seq(Row), NEW s \in Seq(Row), NEW t \in Seq(Row)
  PROVE  r \o (s \o t) = (r \o s) \o t
  OBVIOUS

LEMMA SeqIsFunction ==
  ASSUME NEW X, NEW s \in Seq(X)
  PROVE  s = [i \in 1..Len(s) |-> s[i]]
  OBVIOUS

LEMMA SubSeqFrom ==
  ASSUME NEW s \in Seq(Row), NEW a \in Nat, NEW b \in Nat, a <= b, b <= Len(s)
  PROVE  /\ SubSeq(s, a + 1, b) \in Seq(Row) /\ Len(SubSeq(s, a + 1, b)) = b - a
         /\ \A i \in 1..(b - a) : SubSeq(s, a + 1, b)[i] = s[a + i]
<1>1. SubSeq(s, a + 1, b) = [i \in 1..(b - a) |-> s[a + i]]
  OBVIOUS
<1>2. \A i \in 1..(b - a) : s[a + i] \in Row
  OBVIOUS
<1>3. QED
  BY <1>1, <1>2

LEMMA FlattenEmpty ==
  ASSUME NEW s, s = <<>>
  PROVE  FlattenSeq(s) = <<>>
  BY DEF FlattenSeq

LEMMA FlattenIs ==
  ASSUME NEW s, NEW n \in Nat, n # 0, Len(s) = n
  PROVE  \E g : Flattens(s, n, g) /\ FlattenSeq(s) = g[n]
<1> DEFINE g == CHOOSE g : g = [i \in 1..n |-> IF i = 1 THEN s[i] ELSE g[i - 1] \o s[i]]
<1>1. Flattens(s, n, g)
  BY FlattensExists DEF Flattens
<1>2. FlattenSeq(s) = g[n]
  BY DEF FlattenSeq
<1>3. QED
  BY <1>1, <1>2

(* One sequence more is appended.                                           *)
LEMMA FlattenNext ==
  ASSUME NEW s, NEW t, NEW n \in Nat, Len(s) = n, Len(t) = n + 1, n = 0 => s = <<>>,
         \A i \in 1..n : s[i] = t[i], <<>> \o t[n + 1] = t[n + 1]
  PROVE  FlattenSeq(t) = FlattenSeq(s) \o t[n + 1]
<1>1. PICK h : Flattens(t, n + 1, h) /\ FlattenSeq(t) = h[n + 1]
  BY FlattenIs
<1>2. h[n + 1] = IF n + 1 = 1 THEN t[n + 1] ELSE h[n + 1 - 1] \o t[n + 1]
  <2>1. n + 1 \in 1..(n + 1)
    OBVIOUS
  <2>2. QED
    BY <1>1, <2>1, FlattensAt
<1>3. CASE n = 0
  <2>1. FlattenSeq(s) = <<>>
    BY <1>3, FlattenEmpty
  <2>2. h[n + 1] = t[n + 1]
    BY <1>2, <1>3
  <2>3. QED
    BY <1>1, <2>1, <2>2
<1>4. CASE n # 0
  <2>1. PICK g : Flattens(s, n, g) /\ FlattenSeq(s) = g[n]
    BY <1>4, FlattenIs
  <2>2. g[n] = h[n]
    BY <1>1, <1>4, <2>1, FlattensAgree
  <2>3. n \in 1..n /\ n + 1 - 1 = n /\ n + 1 # 1
    BY <1>4
  <2>4. QED
    BY <1>1, <1>2, <2>1, <2>2, <2>3
<1>5. QED
  BY <1>3, <1>4

-----------------------------------------------------------------------------
(* The rows of the first n data files.                                      *)
RowsUpTo(files, n) == FlattenSeq([f \in 1..n |-> files[f].rows])

LEMMA RowsUpToZero == \A files : RowsUpTo(files, 0) = <<>>
<1> TAKE files
<1>1. [f \in 1..0 |-> files[f].rows] = <<>>
  OBVIOUS
<1>2. QED
  BY <1>1, FlattenEmpty DEF RowsUpTo

LEMMA RowsUpToNext ==
  ASSUME NEW files, NEW n \in Nat, files[n + 1].rows \in Seq(Row)
  PROVE  RowsUpTo(files, n + 1) = RowsUpTo(files, n) \o files[n + 1].rows
<1> DEFINE s == [f \in 1..n |-> files[f].rows]
           t == [f \in 1..(n + 1) |-> files[f].rows]
<1>1. Len(s) = n /\ Len(t) = n + 1
  OBVIOUS
<1>2. n = 0 => s = <<>>
  OBVIOUS
<1>3. \A i \in 1..n : s[i] = t[i]
  OBVIOUS
<1>4. t[n + 1] = files[n + 1].rows /\ <<>> \o t[n + 1] = t[n + 1]
  OBVIOUS
<1> HIDE DEF s, t
<1>5. FlattenSeq(t) = FlattenSeq(s) \o t[n + 1]
  BY <1>1, <1>2, <1>3, <1>4, FlattenNext
<1>6. QED
  BY <1>4, <1>5 DEF RowsUpTo, s, t

LEMMA RowsUpToSeq ==
  ASSUME NEW files, NEW n \in Nat, \A f \in 1..n : files[f].rows \in Seq(Row)
  PROVE  RowsUpTo(files, n) \in Seq(Row)
<1> DEFINE S == {m \in Nat : m <= n => RowsUpTo(files, m) \in Seq(Row)}
<1>1. 0 \in S
  <2>1. <<>> \in Seq(Row)
    OBVIOUS
  <2>2. RowsUpTo(files, 0) \in Seq(Row)
    BY <2>1, RowsUpToZero
  <2>3. QED
    BY <2>2
<1>2. ASSUME NEW m \in Nat, m \in S
      PROVE  m + 1 \in S
  <2>1. SUFFICES ASSUME m + 1 <= n
                 PROVE  RowsUpTo(files, m + 1) \in Seq(Row)
    OBVIOUS
  <2>2. m <= n /\ m + 1 \in 1..n
    BY <2>1
  <2>3. RowsUpTo(files, m) \in Seq(Row) /\ files[m + 1].rows \in Seq(Row)
    BY <1>2, <2>2
  <2>4. RowsUpTo(files, m + 1) = RowsUpTo(files, m) \o files[m + 1].rows
    BY <2>3, RowsUpToNext
  <2> HIDE DEF S
  <2>5. QED
    BY <2>3, <2>4, Concat
<1>3. Nat \subseteq S
  <2> HIDE DEF S
  <2>1. QED
    BY <1>1, <1>2, Induct
<1>4. QED
  BY <1>3

(* More files only add rows behind.                                         *)
LEMMA RowsUpToPrefix ==
  ASSUME NEW files, NEW n \in Nat, \A f \in 1..n : files[f].rows \in Seq(Row),
         NEW m \in Nat, m <= n
  PROVE  /\ Len(RowsUpTo(files, m)) <= Len(RowsUpTo(files, n))
         /\ \A i \in 1..Len(RowsUpTo(files, m)) :
              RowsUpTo(files, n)[i] = RowsUpTo(files, m)[i]
<1> DEFINE Prefix(k) == /\ Len(RowsUpTo(files, m)) <= Len(RowsUpTo(files, k))
                        /\ \A i \in 1..Len(RowsUpTo(files, m)) :
                             RowsUpTo(files, k)[i] = RowsUpTo(files, m)[i]
           S == {d \in Nat : m + d <= n => Prefix(m + d)}
<1>1. \A k \in Nat : k <= n => RowsUpTo(files, k) \in Seq(Row)
  BY RowsUpToSeq
<1>2. 0 \in S
  BY <1>1
<1>3. ASSUME NEW d \in Nat, d \in S
      PROVE  d + 1 \in S
  <2>1. SUFFICES ASSUME m + d + 1 <= n
                 PROVE  Prefix(m + d + 1)
    OBVIOUS
  <2>2. m + d <= n /\ m + d \in Nat /\ m + d + 1 \in 1..n
    BY <2>1
  <2>3. Prefix(m + d)
    BY <1>3, <2>2
  <2>4. files[m + d + 1].rows \in Seq(Row)
    BY <2>2
  <2>5. RowsUpTo(files, m + d + 1) = RowsUpTo(files, m + d) \o files[m + d + 1].rows
    BY <2>2, <2>4, RowsUpToNext
  <2>6. RowsUpTo(files, m) \in Seq(Row) /\ RowsUpTo(files, m + d) \in Seq(Row)
    BY <1>1, <2>2
  <2> HIDE DEF S
  <2>7. /\ Len(RowsUpTo(files, m)) <= Len(RowsUpTo(files, m + d) \o files[m + d + 1].rows)
        /\ \A i \in 1..Len(RowsUpTo(files, m)) :
             (RowsUpTo(files, m + d) \o files[m + d + 1].rows)[i] = RowsUpTo(files, m)[i]
    BY <2>3, <2>4, <2>6, PrefixConcat
  <2>8. QED
    BY <2>5, <2>7
<1>4. Nat \subseteq S
  <2> HIDE DEF S
  <2>1. QED
    BY <1>2, <1>3, Induct
<1>5. n - m \in Nat /\ m + (n - m) = n
  OBVIOUS
<1>6. n - m \in S
  BY <1>4, <1>5
<1>7. QED
  BY <1>5, <1>6

LEMMA RowsUpToSame ==
  ASSUME NEW a, NEW b, NEW n \in Nat, \A f \in 1..n : a[f].rows = b[f].rows
  PROVE  RowsUpTo(a, n) = RowsUpTo(b, n)
<1>1. [f \in 1..n |-> a[f].rows] = [f \in 1..n |-> b[f].rows]
  OBVIOUS
<1>2. QED
  BY <1>1 DEF RowsUpTo

-----------------------------------------------------------------------------
(* What the metadata proofs need of the types.                              *)
MetaTypes ==
  /\ episodes \in Seq(Episode)
  /\ metadata_buffer \in Seq(Episode)
  /\ log \in Seq(Seq(Nat))
  /\ episode_buffer \in [index : Nat, frames : Seq(Nat), keys : {"all", "uneven", "popped"}]
  /\ info \in [episodes : Nat, frames : Nat]
  /\ file \in Nat
  /\ clock \in Nat
  /\ safe \in Nat

MetaInv == MetaTypes /\ Bookkeeping

-----------------------------------------------------------------------------
(* The last of some episodes is an episode, and where it ends.              *)
LEMMA LastIsEpisode ==
  ASSUME NEW eps \in Seq(Episode), eps # <<>>
  PROVE  Last(eps) \in Episode
<1>1. Len(eps) \in 1..Len(eps)
  OBVIOUS
<1>2. QED
  BY <1>1 DEF Last

LEMMA LatestToNat ==
  ASSUME NEW eps \in Seq(Episode)
  PROVE  LatestTo(eps) \in Nat
<1>1. CASE eps = <<>>
  BY <1>1 DEF LatestTo
<1>2. CASE eps # <<>>
  BY <1>2, LastIsEpisode DEF LatestTo, Episode
<1>3. QED
  BY <1>1, <1>2

LEMMA LatestToAppend ==
  ASSUME NEW eps \in Seq(Episode), NEW e \in Episode
  PROVE  LatestTo(Append(eps, e)) = e.to
<1> DEFINE new == Append(eps, e)
<1>1. new # <<>> /\ Len(new) = Len(eps) + 1
  <2>1. new \in Seq(Episode) /\ Len(new) = Len(eps) + 1 /\ Len(eps) \in Nat
    OBVIOUS
  <2>2. Len(new) # 0
    BY <2>1
  <2>3. new # <<>>
    BY <2>2
  <2>4. QED
    BY <2>1, <2>3
<1>2. Append(eps, e)[Len(eps) + 1] = e
  OBVIOUS
<1>3. QED
  BY <1>1, <1>2 DEF LatestTo, Last

(* Appending an episode that starts where the last one ended keeps the      *)
(* episodes in a row.                                                       *)
LEMMA TiledAppend ==
  ASSUME NEW eps \in Seq(Episode), NEW saved \in Seq(Seq(Nat)), Len(eps) = Len(saved),
         Tiled(eps, saved), NEW frames \in Seq(Nat), NEW e \in Episode,
         e.from = LatestTo(eps), e.to = LatestTo(eps) + Len(frames)
  PROVE  Tiled(Append(eps, e), Append(saved, frames))
<1> DEFINE new == Append(eps, e)
           all == Append(saved, frames)
<1>1. Len(new) = Len(eps) + 1 /\ Len(eps) \in Nat
  OBVIOUS
<1>2. \A i \in 1..Len(eps) : new[i] = eps[i] /\ all[i] = saved[i]
  OBVIOUS
<1>3. new[Len(eps) + 1] = e /\ all[Len(eps) + 1] = frames
  OBVIOUS
<1>4. ASSUME NEW i \in 1..Len(new)
      PROVE  /\ new[i].from = (IF i = 1 THEN 0 ELSE new[i - 1].to)
             /\ new[i].to = new[i].from + Len(all[i])
  <2>1. CASE i \in 1..Len(eps)
    <3>1. i = 1 \/ i - 1 \in 1..Len(eps)
      BY <1>1, <2>1
    <3>2. QED
      BY <1>1, <1>2, <2>1, <3>1 DEF Tiled
  <2>2. CASE i = Len(eps) + 1
    <3>1. CASE Len(eps) = 0
      <4>1. eps = <<>>
        BY <3>1
      <4>2. LatestTo(eps) = 0
        BY <4>1 DEF LatestTo
      <4>3. QED
        BY <1>3, <2>2, <3>1, <4>2
    <3>2. CASE Len(eps) > 0
      <4>1. eps # <<>> /\ i # 1 /\ i - 1 = Len(eps) /\ Len(eps) \in 1..Len(eps)
        BY <1>1, <2>2, <3>2
      <4>2. LatestTo(eps) = eps[Len(eps)].to
        BY <4>1 DEF LatestTo, Last
      <4>3. new[i - 1].to = LatestTo(eps)
        BY <1>2, <4>1, <4>2
      <4>4. QED
        BY <1>3, <2>2, <4>1, <4>3
    <3>3. QED
      BY <1>1, <3>1, <3>2
  <2>3. QED
    BY <1>1, <1>4, <2>1, <2>2
<1>5. QED
  BY <1>4 DEF Tiled

(* The first episodes of a row are in a row.                                *)
LEMMA TiledPrefix ==
  ASSUME NEW eps \in Seq(Episode), NEW rest \in Seq(Episode), NEW saved \in Seq(Seq(Nat)),
         Len(saved) = Len(eps \o rest), Tiled(eps \o rest, saved)
  PROVE  Tiled(eps, SubSeq(saved, 1, Len(eps)))
<1> DEFINE all == eps \o rest
           kept == SubSeq(saved, 1, Len(eps))
<1>1. Len(all) = Len(eps) + Len(rest) /\ Len(eps) \in Nat /\ Len(rest) \in Nat
  OBVIOUS
<1>2. \A i \in 1..Len(eps) : all[i] = eps[i] /\ kept[i] = saved[i]
  BY <1>1
<1>3. ASSUME NEW i \in 1..Len(eps)
      PROVE  /\ eps[i].from = (IF i = 1 THEN 0 ELSE eps[i - 1].to)
             /\ eps[i].to = eps[i].from + Len(kept[i])
  <2>1. i \in 1..Len(all) /\ (i = 1 \/ i - 1 \in 1..Len(eps))
    BY <1>1
  <2>2. QED
    BY <1>2, <2>1 DEF Tiled
<1>4. QED
  BY <1>3 DEF Tiled

(* The rows of metadata after a save: the old ones and the new one, however *)
(* many of them have been written out.                                      *)
LEMMA BufferAppends ==
  ASSUME MetaTypes, BufferMetadata, NewEpisode \in Episode
  PROVE  /\ AllEpisodes' = Append(AllEpisodes, NewEpisode)
         /\ episodes' \in Seq(Episode) /\ metadata_buffer' \in Seq(Episode)
         /\ Len(episodes') >= Len(episodes)
<1> DEFINE buffered == Append(metadata_buffer, NewEpisode)
<1>1. buffered \in Seq(Episode) /\ episodes \o buffered \in Seq(Episode)
  BY DEF MetaTypes
<1>2. episodes \o buffered = Append(AllEpisodes, NewEpisode)
  BY DEF MetaTypes, AllEpisodes
<1>3. CASE Len(buffered) >= MetadataBufferSize
  <2>1. episodes' = episodes \o buffered /\ metadata_buffer' = <<>>
    BY <1>3 DEF BufferMetadata
  <2>2. AllEpisodes' = episodes \o buffered
    BY <1>1, <2>1 DEF AllEpisodes
  <2>3. Len(episodes \o buffered) >= Len(episodes)
    BY <1>1 DEF MetaTypes
  <2>4. QED
    BY <1>1, <1>2, <2>1, <2>2, <2>3
<1>4. CASE ~(Len(buffered) >= MetadataBufferSize)
  <2>1. episodes' = episodes /\ metadata_buffer' = buffered
    BY <1>4 DEF BufferMetadata
  <2>2. Len(episodes) >= Len(episodes)
    BY DEF MetaTypes
  <2>3. QED
    BY <1>1, <1>2, <2>1, <2>2 DEF AllEpisodes, MetaTypes
<1>5. QED
  BY <1>3, <1>4

-----------------------------------------------------------------------------
LEMMA InitMeta == WriterInit => MetaInv
  BY DEF WriterInit, MetaInv, MetaTypes, Bookkeeping, AllEpisodes, Tiled, EmptyBuffer, LatestTo

LEMMA StepMeta == MetaInv /\ [Next]_writerVars => MetaInv'
<1> SUFFICES ASSUME MetaInv, [Next]_writerVars
             PROVE  MetaInv'
  OBVIOUS
<1> USE DEF MetaInv, Bookkeeping, AllEpisodes
<1>types. MetaTypes
  OBVIOUS
<1>lens. Len(episodes) \in Nat /\ Len(metadata_buffer) \in Nat /\ Len(log) \in Nat
         /\ Len(episodes \o metadata_buffer) = Len(episodes) + Len(metadata_buffer)
  BY DEF MetaTypes
<1>1. CASE AddFrame \/ AddFrameFails \/ SaveRaises \/ ClearEpisodeBuffer
  <2>1. /\ UNCHANGED <<episodes, metadata_buffer, info, file, saving, status>>
        /\ UNCHANGED <<log, safe, unclean>>
    BY <1>1 DEF AddFrame, AddFrameFails, SaveRaises, ClearEpisodeBuffer, disk, memory, history
  <2>2. clock' \in Nat
    BY <1>1 DEF AddFrame, AddFrameFails, SaveRaises, ClearEpisodeBuffer, MetaTypes
  <2>3. episode_buffer' \in [index : Nat, frames : Seq(Nat), keys : {"all", "uneven", "popped"}]
    <3>1. CASE AddFrame
      <4>1. Append(episode_buffer.frames, clock + 1) \in Seq(Nat)
        BY DEF MetaTypes
      <4>2. QED
        BY <3>1, <4>1 DEF AddFrame, MetaTypes
    <3>2. CASE AddFrameFails
      BY <3>2 DEF AddFrameFails, MetaTypes
    <3>3. CASE SaveRaises
      BY <3>3 DEF SaveRaises, MetaTypes
    <3>4. CASE ClearEpisodeBuffer
      BY <3>4 DEF ClearEpisodeBuffer, EmptyBuffer, MetaTypes
    <3>5. QED
      BY <1>1, <3>1, <3>2, <3>3, <3>4
  <2>4. MetaTypes'
    BY <2>1, <2>2, <2>3 DEF MetaTypes
  <2>5. Bookkeeping'
    BY <2>1 DEF Tiled
  <2>6. QED
    BY <2>4, <2>5
<1>2. CASE SaveData
  <2>1. file' \in Nat
    <3>1. episodes # <<>> => Last(episodes).file \in Nat
      BY LastIsEpisode DEF MetaTypes, Episode
    <3>2. PICK rotate \in BOOLEAN : file' = NextFile(rotate)
      BY <1>2 DEF SaveData
    <3>3. file \in Nat
      BY DEF MetaTypes
    <3>4. NextFile(rotate) \in Nat
      BY <3>1, <3>3 DEF NextFile
    <3>5. QED
      BY <3>2, <3>4
  <2>2. QED
    BY <1>2, <2>1 DEF SaveData, MetaTypes, Ready, history
<1>3. CASE SaveVideos \/ SaveVideosFails
  BY <1>3 DEF SaveVideos, SaveVideosFails, MetaTypes, disk, memory, history
<1>4. CASE SaveMetadata
  <2> DEFINE frames == episode_buffer.frames
  <2>1. frames \in Seq(Nat) /\ Len(frames) \in Nat /\ LatestTo(AllEpisodes) \in Nat
    <3>1. AllEpisodes \in Seq(Episode)
      BY DEF MetaTypes
    <3>2. LatestTo(AllEpisodes) \in Nat
      BY <3>1, LatestToNat
    <3>3. QED
      BY <3>2 DEF MetaTypes
  <2>2. NewEpisode \in Episode
    <3>1. episode_buffer.index \in Nat /\ file \in Nat
      BY DEF MetaTypes
    <3>2. QED
      BY <2>1, <3>1 DEF NewEpisode, Episode
  <2>3. /\ AllEpisodes' = Append(AllEpisodes, NewEpisode)
        /\ episodes' \in Seq(Episode) /\ metadata_buffer' \in Seq(Episode)
        /\ Len(episodes') >= Len(episodes)
    BY <1>4, <2>2, BufferAppends DEF SaveMetadata
  <2>4. log' = Append(log, frames) /\ log' \in Seq(Seq(Nat))
    BY <1>4, <2>1 DEF SaveMetadata, MetaTypes
  <2>5. Len(log') = Len(AllEpisodes')
    BY <2>2, <2>3, <2>4 DEF MetaTypes
  <2>6. Tiled(AllEpisodes', log')
    <3>1. NewEpisode.from = LatestTo(AllEpisodes)
          /\ NewEpisode.to = LatestTo(AllEpisodes) + Len(frames)
      BY DEF NewEpisode
    <3>2. AllEpisodes \in Seq(Episode) /\ log \in Seq(Seq(Nat))
      BY DEF MetaTypes
    <3>3. Tiled(Append(AllEpisodes, NewEpisode), Append(log, frames))
      BY <2>1, <2>2, <3>1, <3>2, TiledAppend
    <3>4. QED
      BY <2>3, <2>4, <3>3
  <2>7. safe' <= Len(episodes')
    BY <1>4, <2>3, <1>lens DEF SaveMetadata, MetaTypes
  <2>8. ~unclean' => info' = [episodes |-> Len(AllEpisodes'), frames |-> LatestTo(AllEpisodes')]
    <3>1. AllEpisodes \in Seq(Episode)
      BY DEF MetaTypes
    <3>2. LatestTo(AllEpisodes') = LatestTo(AllEpisodes) + Len(frames)
      BY <2>2, <2>3, <3>1, LatestToAppend DEF NewEpisode
    <3>3. Len(AllEpisodes') = Len(AllEpisodes) + 1
      BY <2>2, <2>3, <3>1
    <3>4. SUFFICES ASSUME ~unclean'
                   PROVE  info' = [episodes |-> Len(AllEpisodes'), frames |-> LatestTo(AllEpisodes')]
      OBVIOUS
    <3>5. info = [episodes |-> Len(AllEpisodes), frames |-> LatestTo(AllEpisodes)]
      BY <1>4, <3>4 DEF SaveMetadata
    <3>6. info' = [episodes |-> info.episodes + 1, frames |-> info.frames + Len(frames)]
      BY <1>4 DEF SaveMetadata
    <3>7. QED
      BY <3>2, <3>3, <3>5, <3>6
  <2>9. MetaTypes'
    <3>1. info.episodes \in Nat /\ info.frames \in Nat
      BY DEF MetaTypes
    <3>2. info' = [episodes |-> info.episodes + 1, frames |-> info.frames + Len(frames)]
      BY <1>4 DEF SaveMetadata
    <3>3. info' \in [episodes : Nat, frames : Nat]
      BY <2>1, <3>1, <3>2
    <3>4. episode_buffer' \in [index : Nat, frames : Seq(Nat), keys : {"all", "uneven", "popped"}]
      BY <1>4, <3>1 DEF SaveMetadata, EmptyBuffer
    <3>5. UNCHANGED <<file, clock, safe>>
      BY <1>4 DEF SaveMetadata
    <3>6. QED
      BY <2>3, <2>4, <3>3, <3>4, <3>5 DEF MetaTypes
  <2>10. QED
    BY <1>4, <2>3, <2>5, <2>6, <2>7, <2>8, <2>9 DEF SaveMetadata
<1>5. CASE Finalize
  <2>1. episodes' = AllEpisodes /\ metadata_buffer' = <<>> /\ log' = log
    BY <1>5 DEF Finalize
  <2>2. AllEpisodes' = AllEpisodes
    BY <2>1 DEF MetaTypes
  <2>3. QED
    BY <1>5, <1>lens, <2>1, <2>2 DEF Finalize, MetaTypes, Ready
<1>6. CASE Crash
  <2>1. /\ episodes' = episodes /\ metadata_buffer' = <<>>
        /\ log' = SubSeq(log, 1, Len(episodes))
    BY <1>6 DEF Crash
  <2>2. AllEpisodes' = episodes
    BY <2>1 DEF MetaTypes
  <2>3. Len(log') = Len(episodes) /\ log' \in Seq(Seq(Nat))
    BY <2>1, <1>lens DEF MetaTypes
  <2>4. Tiled(AllEpisodes', log')
    BY <2>1, <2>2, <1>lens, TiledPrefix DEF MetaTypes
  <2>5. ~unclean' => info' = [episodes |-> Len(AllEpisodes'), frames |-> LatestTo(AllEpisodes')]
    <3>1. SUFFICES ASSUME ~unclean'
                   PROVE  info' = [episodes |-> Len(AllEpisodes'), frames |-> LatestTo(AllEpisodes')]
      OBVIOUS
    <3>2. ~unclean /\ Len(log) <= safe
      <4>1. ~unclean /\ ~(Len(log) > safe)
        BY <1>6, <3>1, Zenon DEF Crash
      <4>2. QED
        BY <4>1, <1>lens DEF MetaTypes
    <3>3. metadata_buffer = <<>>
      BY <3>2, <1>lens DEF MetaTypes
    <3>4. AllEpisodes' = AllEpisodes
      BY <2>2, <3>3 DEF MetaTypes
    <3>5. QED
      BY <1>6, <3>2, <3>4 DEF Crash
  <2>6. MetaTypes'
    BY <1>6, <2>3 DEF Crash, MetaTypes, EmptyBuffer
  <2>7. QED
    BY <1>6, <2>1, <2>2, <2>3, <2>4, <2>5, <2>6 DEF Crash
<1>7. CASE Resume
  BY <1>7 DEF Resume, MetaTypes, EmptyBuffer, disk, history
<1>8. CASE UNCHANGED writerVars
  BY <1>8 DEF writerVars, disk, memory, history, MetaTypes
<1>f. QED
  BY <1>1, <1>2, <1>3, <1>4, <1>5, <1>6, <1>7, <1>8 DEF Next

(* The metadata lists every saved episode that is not lost, one after the   *)
(* other; the counters of info.json count them unless a process died with   *)
(* episodes it had not finalised; the episodes of finished sessions are on  *)
(* disk.                                                                    *)
THEOREM MetadataIsKept == Spec => []Bookkeeping
<1>1. Spec => []MetaInv
  BY InitMeta, StepMeta, PTL DEF Spec
<1>2. MetaInv => Bookkeeping
  BY DEF MetaInv
<1>3. QED
  BY <1>1, <1>2, PTL

-----------------------------------------------------------------------------
LEMMA StepSurvives ==
  ASSUME MetaInv, [Next]_writerVars
  PROVE  [/\ safe' >= safe /\ Len(log') >= safe
          /\ \A i \in 1..safe : log'[i] = log[i]]_writerVars
<1>1. safe \in Nat /\ safe <= Len(episodes) /\ Len(episodes) \in Nat /\ Len(log) \in Nat
      /\ Len(log) >= Len(episodes) /\ log \in Seq(Seq(Nat))
  BY DEF MetaInv, MetaTypes, Bookkeeping, AllEpisodes
<1>2. CASE SaveMetadata
  BY <1>1, <1>2 DEF SaveMetadata, MetaInv, MetaTypes
<1>3. CASE Finalize
  BY <1>1, <1>3 DEF Finalize
<1>4. CASE Crash
  BY <1>1, <1>4 DEF Crash
<1>5. CASE log' = log /\ safe' = safe
  BY <1>1, <1>5
<1>6. QED
  BY <1>2, <1>3, <1>4, <1>5
     DEF Next, AddFrame, AddFrameFails, SaveRaises, SaveData, SaveVideos, SaveVideosFails,
         ClearEpisodeBuffer, Resume, history, writerVars

(* No crash and no failure takes or changes an episode of a session that    *)
(* was finished.                                                            *)
THEOREM FinishedEpisodesSurvive == Spec => FinishedSurvives
<1>1. Spec => []MetaInv
  BY InitMeta, StepMeta, PTL DEF Spec
<1>2. QED
  BY <1>1, StepSurvives, PTL DEF Spec, FinishedSurvives

-----------------------------------------------------------------------------
(* The other types: what is on disk and where the session is.               *)
DataFile == [rows : Seq(Row), closed : BOOLEAN]

DiskTypes ==
  /\ has_video \in BOOLEAN
  /\ data \in Seq(DataFile)
  /\ meta_torn \in BOOLEAN
  /\ data_writer \in BOOLEAN
  /\ meta_writer \in BOOLEAN
  /\ saving \in {"idle", "video", "metadata"}
  /\ status \in {"recording", "finalized", "dead"}
  /\ session \in Nat
  /\ orphaned \in BOOLEAN
  /\ unclean \in BOOLEAN

(* The data file of the latest of some episodes.                            *)
LastFile(eps) == IF eps = <<>> THEN 0 ELSE Last(eps).file

(* The data file that the session, or an episode on disk, wrote last: those *)
(* behind it are left of a session that died, and nothing refers to them.   *)
LatestFile == IF file # 0 THEN file ELSE LastFile(episodes)

Kept == RowsUpTo(data, LatestFile)

FilesSound ==
  /\ LatestFile <= Len(data)
  /\ LastFile(episodes) <= LatestFile
  /\ LastFile(AllEpisodes) <= LatestFile
  /\ file = 0 => metadata_buffer = <<>> /\ saving = "idle"
  /\ file # 0 /\ status = "recording" => data_writer /\ ~data[file].closed
  /\ file # 0 /\ status = "recording" /\ ~meta_writer => LastFile(episodes) < file
  /\ status # "recording" => ~meta_writer
  /\ status = "recording" => ~meta_torn

(* The rows of every episode are where its row of metadata says.            *)
RowsSound ==
  \A i \in 1..Len(AllEpisodes) :
    /\ AllEpisodes[i].to <= Len(Rows)
    /\ \A k \in 1..Len(log[i]) : Rows[AllEpisodes[i].from + k].frame = log[i][k]

(* The rows up to the latest file are those of the episodes and of the save *)
(* that runs, and what lies behind it has no footer.                        *)
KeptSound ==
  /\ saving = "idle" => Len(Kept) = LatestTo(AllEpisodes)
  /\ saving # "idle" =>
       /\ Len(Kept) = LatestTo(AllEpisodes) + Len(episode_buffer.frames)
       /\ \A k \in 1..Len(episode_buffer.frames) :
            Kept[LatestTo(AllEpisodes) + k].frame = episode_buffer.frames[k]
  /\ ~meta_writer => Len(RowsUpTo(data, LastFile(episodes))) = LatestTo(episodes)
  /\ file # 0 /\ saving = "idle" => LastFile(AllEpisodes) = file
  /\ Len(data) > LatestFile => ~data[Len(data)].closed
  /\ ~unclean => \A i \in 1..Len(Kept) : Kept[i].index = i - 1

DiskInv ==
  /\ DiskTypes
  /\ FilesSound
  /\ ~orphaned => RowsSound
  /\ ~orphaned /\ ~meta_torn => KeptSound

LEMMA RowsAre ==
  ASSUME NEW d \in Seq(DataFile)
  PROVE  FlattenSeq([f \in DOMAIN d |-> d[f].rows]) = RowsUpTo(d, Len(d))
<1>1. DOMAIN d = 1..Len(d)
  OBVIOUS
<1>2. QED
  BY <1>1 DEF RowsUpTo

LEMMA LastFileNat ==
  ASSUME NEW eps \in Seq(Episode)
  PROVE  LastFile(eps) \in Nat
<1>1. CASE eps = <<>>
  BY <1>1 DEF LastFile
<1>2. CASE eps # <<>>
  BY <1>2, LastIsEpisode DEF LastFile, Episode
<1>3. QED
  BY <1>1, <1>2

LEMMA LastFileAppend ==
  ASSUME NEW eps \in Seq(Episode), NEW e \in Episode
  PROVE  LastFile(Append(eps, e)) = e.file
<1>1. Append(eps, e) \in Seq(Episode) /\ Len(Append(eps, e)) = Len(eps) + 1 /\ Len(eps) \in Nat
      /\ Append(eps, e)[Len(eps) + 1] = e
  OBVIOUS
<1>2. Append(eps, e) # <<>>
  BY <1>1
<1>3. QED
  BY <1>1, <1>2 DEF LastFile, Last

LEMMA NewRowsAre ==
  ASSUME MetaTypes
  PROVE  /\ NewRows \in Seq(Row)
         /\ Len(NewRows) = Len(episode_buffer.frames)
         /\ \A i \in 1..Len(NewRows) : /\ NewRows[i].frame = episode_buffer.frames[i]
                                       /\ NewRows[i].index = info.frames + i - 1
<1>1. /\ Len(episode_buffer.frames) \in Nat /\ info.frames \in Nat /\ episode_buffer.index \in Nat
      /\ \A i \in 1..Len(episode_buffer.frames) : episode_buffer.frames[i] \in Nat
  BY DEF MetaTypes
<1>2. \A i \in 1..Len(episode_buffer.frames) : info.frames + i - 1 \in Nat
  BY <1>1
<1>3. QED
  BY <1>1, <1>2 DEF NewRows, Row

(* What a save leaves of the data files: it writes right behind the rows    *)
(* that count.                                                              *)
LEMMA Writes ==
  ASSUME MetaTypes, DiskInv, NEW rotate \in BOOLEAN, NEW f, f = NextFile(rotate)
  PROVE  /\ f \in Nat \ {0} /\ f >= LatestFile
         /\ Written(f) \in Seq(DataFile)
         /\ f <= Len(Written(f))
         /\ ~Written(f)[f].closed
         /\ \/ Len(Written(f)) = f
            \/ /\ Len(Written(f)) = Len(data) /\ Len(data) > f
               /\ Written(f)[Len(data)] = data[Len(data)]
         /\ \A g \in 1..(f - 1) : Written(f)[g].rows = data[g].rows
         /\ RowsUpTo(Written(f), f) = Kept \o NewRows
<1> DEFINE W == Written(f)
           closing == [g \in DOMAIN data |-> IF g = file THEN [data[g] EXCEPT !.closed = (f # file)]
                                                         ELSE data[g]]
<1>1. /\ LatestFile \in Nat /\ LatestFile <= Len(data) /\ Len(data) \in Nat /\ file \in Nat
      /\ LastFile(episodes) \in Nat
  BY LastFileNat DEF DiskInv, DiskTypes, FilesSound, MetaTypes, LatestFile
<1>2. \/ f = file /\ file # 0
      \/ f = LatestFile + 1 /\ f # file
  BY <1>1 DEF NextFile, LatestFile, LastFile
<1>3. NewRows \in Seq(Row)
  BY NewRowsAre
<1>4. data \in Seq(DataFile)
  BY DEF DiskInv, DiskTypes
<1>5. \A g \in 1..Len(data) : data[g] \in DataFile /\ data[g].rows \in Seq(Row)
  <2>1. \A g \in 1..Len(data) : data[g] \in DataFile
    BY <1>4
  <2>2. QED
    BY <2>1 DEF DataFile
<1>f. /\ closing \in Seq(DataFile) /\ Len(closing) = Len(data)
      /\ \A g \in 1..Len(data) : closing[g].rows = data[g].rows
      /\ \A g \in 1..Len(data) : g # file => closing[g] = data[g]
  <2>1. DOMAIN data = 1..Len(data)
    BY <1>4
  <2>2. ASSUME NEW g \in 1..Len(data)
        PROVE  /\ closing[g] \in DataFile /\ closing[g].rows = data[g].rows
               /\ g # file => closing[g] = data[g]
    <3>1. data[g] \in [rows : Seq(Row), closed : BOOLEAN]
      BY <1>5 DEF DataFile
    <3>2. CASE g = file
      <4> DEFINE b == (f # file)
      <4>1. closing[g] = [data[g] EXCEPT !.closed = b] /\ b \in BOOLEAN
        BY <2>1, <3>2
      <4> HIDE DEF b, closing
      <4>2. QED
        BY <3>1, <3>2, <4>1 DEF DataFile
    <3>3. CASE g # file
      <4>1. closing[g] = data[g]
        BY <2>1, <3>3
      <4>2. QED
        BY <3>1, <3>3, <4>1 DEF DataFile
    <3>4. QED
      BY <3>2, <3>3
  <2>3. closing = [g \in 1..Len(data) |-> closing[g]]
    BY <2>1
  <2> HIDE DEF closing
  <2>4. closing \in Seq(DataFile) /\ Len(closing) = Len(data)
    BY <1>1, <2>2, <2>3
  <2>5. QED
    BY <2>2, <2>4
<1>6. CASE f = file /\ file # 0
  <2>1. f \in 1..Len(data) /\ LatestFile = f
    BY <1>1, <1>6 DEF LatestFile
  <2> DEFINE new == [rows |-> data[f].rows \o NewRows, closed |-> FALSE]
  <2>2. new \in DataFile
    BY <1>3, <1>5, <2>1 DEF DataFile
  <2>3. W = [closing EXCEPT ![f] = new]
    BY <1>6, <2>1 DEF Written
  <2>4. /\ W \in Seq(DataFile) /\ Len(W) = Len(data) /\ W[f] = new
        /\ \A g \in 1..Len(data) : g # f => W[g] = data[g]
    <3> HIDE DEF closing, new, W
    <3>1. QED
      BY <1>f, <1>6, <2>1, <2>2, <2>3
  <2>5. /\ RowsUpTo(W, f - 1) = RowsUpTo(data, f - 1)
        /\ \A g \in 1..(f - 1) : W[g].rows = data[g].rows
    <3>1. f - 1 \in Nat /\ \A g \in 1..(f - 1) : W[g].rows = data[g].rows
      <4> HIDE DEF W, new, closing
      <4>1. f - 1 \in Nat /\ \A g \in 1..(f - 1) : g \in 1..Len(data) /\ g # f
        BY <1>1, <2>1
      <4>2. QED
        BY <2>4, <4>1
    <3> HIDE DEF W
    <3>2. QED
      BY <3>1, RowsUpToSame
  <2>6. f - 1 \in Nat /\ f - 1 + 1 = f
    BY <2>1
  <2>7. RowsUpTo(data, f) = RowsUpTo(data, f - 1) \o data[f].rows
    BY <1>5, <2>1, <2>6, RowsUpToNext
  <2>8. RowsUpTo(W, f) = RowsUpTo(W, f - 1) \o (data[f].rows \o NewRows)
    <3>1. W[f].rows = data[f].rows \o NewRows /\ W[f].rows \in Seq(Row)
      BY <1>3, <1>5, <2>1, <2>4
    <3> HIDE DEF W
    <3>2. QED
      BY <2>6, <3>1, RowsUpToNext
  <2>9. RowsUpTo(data, f - 1) \in Seq(Row)
    BY <1>1, <1>5, <2>1, <2>6, RowsUpToSeq
  <2>10. RowsUpTo(W, f) = Kept \o NewRows
    <3>1. data[f].rows \in Seq(Row)
      BY <1>5, <2>1
    <3> HIDE DEF W
    <3>2. RowsUpTo(data, f - 1) \o (data[f].rows \o NewRows)
            = (RowsUpTo(data, f - 1) \o data[f].rows) \o NewRows
      BY <1>3, <2>9, <3>1, ConcatAssoc
    <3>3. QED
      BY <2>1, <2>5, <2>7, <2>8, <3>2 DEF Kept
  <2> HIDE DEF W
  <2>11. Len(W) = f \/ (Len(W) = Len(data) /\ Len(data) > f /\ W[Len(data)] = data[Len(data)])
    BY <1>1, <2>1, <2>4
  <2>12. ~W[f].closed
    BY <2>4
  <2>13. QED
    BY <1>1, <2>1, <2>4, <2>5, <2>10, <2>11, <2>12 DEF W
<1>7. CASE f = LatestFile + 1 /\ f # file
  <2> DEFINE new == [rows |-> NewRows, closed |-> FALSE]
  <2>1. new \in DataFile
    BY <1>3 DEF DataFile
  <2>2. W = IF f <= Len(data) THEN [closing EXCEPT ![f] = new] ELSE Append(closing, new)
    BY <1>7 DEF Written
  <2>3. f \in Nat /\ f # 0 /\ f <= Len(data) + 1 /\ f - 1 = LatestFile
    BY <1>1, <1>7
  <2>4. /\ W \in Seq(DataFile) /\ W[f] = new /\ f <= Len(W)
        /\ Len(W) = f \/ (Len(W) = Len(data) /\ Len(data) > f)
        /\ \A g \in 1..Len(data) : g # f => W[g] = closing[g]
    <3> HIDE DEF closing, new, W
    <3>1. CASE f <= Len(data)
      <4>1. W = [closing EXCEPT ![f] = new] /\ f \in 1..Len(data)
        BY <2>2, <2>3, <3>1
      <4>2. QED
        BY <1>1, <1>f, <2>1, <2>3, <3>1, <4>1
    <3>2. CASE ~(f <= Len(data))
      <4>1. W = Append(closing, new) /\ f = Len(data) + 1
        BY <1>1, <2>2, <2>3, <3>2
      <4>2. QED
        BY <1>1, <1>f, <2>1, <2>3, <4>1
    <3>3. QED
      BY <3>1, <3>2
  <2>5. /\ RowsUpTo(W, f - 1) = Kept
        /\ \A g \in 1..(f - 1) : W[g].rows = data[g].rows
    <3>1. f - 1 \in Nat /\ \A g \in 1..(f - 1) : W[g].rows = data[g].rows
      <4> HIDE DEF W, new, closing
      <4>1. f - 1 \in Nat /\ \A g \in 1..(f - 1) : g \in 1..Len(data) /\ g # f
        BY <1>1, <2>3
      <4>2. QED
        BY <1>f, <2>4, <4>1
    <3> HIDE DEF W
    <3>2. QED
      BY <2>3, <3>1, RowsUpToSame DEF Kept
  <2>6. f - 1 \in Nat /\ f - 1 + 1 = f
    BY <2>3
  <2>7. RowsUpTo(W, f) = Kept \o NewRows
    <3>1. W[f].rows = NewRows /\ W[f].rows \in Seq(Row)
      BY <1>3, <2>4
    <3> HIDE DEF W
    <3>2. QED
      BY <2>5, <2>6, <3>1, RowsUpToNext
  <2>8. Len(data) > f => W[Len(data)] = data[Len(data)]
    <3>1. SUFFICES ASSUME Len(data) > f
                   PROVE  W[Len(data)] = data[Len(data)]
      OBVIOUS
    <3>2. Len(data) \in 1..Len(data) /\ Len(data) # f /\ Len(data) # file
      BY <1>1, <1>7, <2>3, <3>1 DEF LatestFile
    <3> HIDE DEF W
    <3>3. QED
      BY <1>f, <2>4, <3>2
  <2>9. ~W[f].closed
    BY <2>4
  <2> HIDE DEF W
  <2>10. QED
    BY <1>1, <2>3, <2>4, <2>5, <2>7, <2>8, <2>9 DEF W
<1>8. QED
  BY <1>2, <1>6, <1>7

(* Episodes that lie in a row end before the last one does.                 *)
LEMMA TiledEnds ==
  ASSUME NEW eps \in Seq(Episode), NEW saved \in Seq(Seq(Nat)), Len(eps) = Len(saved),
         Tiled(eps, saved)
  PROVE  \A i \in 1..Len(eps) : eps[i].to <= LatestTo(eps)
<1> DEFINE n == Len(eps)
           S == {d \in Nat : d < n => eps[n - d].to <= LatestTo(eps)}
<1>1. n \in Nat /\ \A i \in 1..n : eps[i] \in Episode /\ eps[i].from \in Nat /\ eps[i].to \in Nat
                                   /\ Len(saved[i]) \in Nat
  <2>1. \A i \in 1..n : eps[i] \in Episode /\ Len(saved[i]) \in Nat
    OBVIOUS
  <2>2. QED
    BY <2>1 DEF Episode
<1>2. 0 \in S
  <2>1. SUFFICES ASSUME 0 < n
                 PROVE  eps[n].to <= LatestTo(eps)
    BY <1>1
  <2>2. eps # <<>> /\ n \in 1..n
    BY <1>1, <2>1
  <2>3. LatestTo(eps) = eps[n].to
    BY <2>2 DEF LatestTo, Last
  <2>4. QED
    BY <1>1, <2>2, <2>3
<1>3. ASSUME NEW d \in Nat, d \in S
      PROVE  d + 1 \in S
  <2>1. SUFFICES ASSUME d + 1 < n
                 PROVE  eps[n - (d + 1)].to <= LatestTo(eps)
    OBVIOUS
  <2>2. n - d \in 1..n /\ n - d # 1 /\ n - (d + 1) \in 1..n /\ n - d - 1 = n - (d + 1)
    BY <1>1, <2>1
  <2>3. /\ eps[n - d].from = eps[n - (d + 1)].to
        /\ eps[n - d].to = eps[n - d].from + Len(saved[n - d])
    BY <2>2 DEF Tiled
  <2>4. eps[n - d].to <= LatestTo(eps)
    BY <1>1, <1>3, <2>1
  <2>5. LatestTo(eps) \in Nat
    BY LatestToNat
  <2>6. eps[n - (d + 1)].to \in Nat /\ Len(saved[n - d]) \in Nat
    BY <1>1, <2>2
  <2> HIDE DEF S, n
  <2>7. QED
    BY <2>3, <2>4, <2>5, <2>6
<1>4. Nat \subseteq S
  <2> HIDE DEF S
  <2>1. QED
    BY <1>2, <1>3, Induct
<1>5. ASSUME NEW i \in 1..n
      PROVE  eps[i].to <= LatestTo(eps)
  <2>1. n - i \in Nat /\ n - i < n /\ n - (n - i) = i
    BY <1>1
  <2>2. n - i \in S
    BY <1>4, <2>1
  <2>3. QED
    BY <2>1, <2>2
<1>6. QED
  BY <1>5

LEMMA FilesPrefix ==
  ASSUME NEW d \in Seq(DataFile), NEW n \in Nat, n <= Len(d)
  PROVE  /\ RowsUpTo(d, n) \in Seq(Row) /\ RowsUpTo(d, Len(d)) \in Seq(Row)
         /\ Len(RowsUpTo(d, n)) <= Len(RowsUpTo(d, Len(d)))
         /\ \A i \in 1..Len(RowsUpTo(d, n)) : RowsUpTo(d, Len(d))[i] = RowsUpTo(d, n)[i]
<1>1. \A f \in 1..Len(d) : d[f] \in DataFile
  OBVIOUS
<1>2. \A f \in 1..Len(d) : d[f].rows \in Seq(Row)
  BY <1>1 DEF DataFile
<1>3. Len(d) \in Nat
  OBVIOUS
<1>4. RowsUpTo(d, Len(d)) \in Seq(Row)
  BY <1>2, <1>3, RowsUpToSeq
<1>5. RowsUpTo(d, n) \in Seq(Row)
  <2>1. \A f \in 1..n : d[f].rows \in Seq(Row)
    BY <1>2, <1>3
  <2>2. QED
    BY <2>1, RowsUpToSeq
<1>6. QED
  BY <1>2, <1>3, <1>4, <1>5, RowsUpToPrefix

(* The rows that count are the first ones a reader finds.                   *)
LEMMA KeptFirst ==
  ASSUME MetaTypes, DiskInv
  PROVE  /\ Kept \in Seq(Row) /\ Rows \in Seq(Row)
         /\ Len(Kept) <= Len(Rows)
         /\ \A p \in 1..Len(Kept) : Rows[p] = Kept[p]
<1>1. data \in Seq(DataFile) /\ LatestFile <= Len(data) /\ LatestFile \in Nat
  BY LastFileNat DEF DiskInv, DiskTypes, FilesSound, MetaTypes, LatestFile
<1>2. Rows = RowsUpTo(data, Len(data))
  BY <1>1, RowsAre DEF Rows
<1>3. QED
  BY <1>1, <1>2, FilesPrefix DEF Kept

LEMMA EpisodeWithin ==
  ASSUME MetaInv, NEW i \in 1..Len(AllEpisodes)
  PROVE  /\ AllEpisodes[i].from \in Nat /\ AllEpisodes[i].to \in Nat
         /\ Len(log[i]) \in Nat
         /\ AllEpisodes[i].to = AllEpisodes[i].from + Len(log[i])
         /\ AllEpisodes[i].to <= LatestTo(AllEpisodes)
<1>1. AllEpisodes \in Seq(Episode) /\ log \in Seq(Seq(Nat)) /\ Len(AllEpisodes) = Len(log)
  BY DEF MetaInv, MetaTypes, Bookkeeping, AllEpisodes
<1>2. AllEpisodes[i] \in Episode /\ log[i] \in Seq(Nat)
  BY <1>1
<1>3. Tiled(AllEpisodes, log)
  BY DEF MetaInv, Bookkeeping
<1>4. AllEpisodes[i].to <= LatestTo(AllEpisodes)
  BY <1>1, <1>3, TiledEnds
<1>5. AllEpisodes[i].to = AllEpisodes[i].from + Len(log[i])
  BY <1>3 DEF Tiled
<1>6. QED
  BY <1>2, <1>4, <1>5 DEF Episode

-----------------------------------------------------------------------------
LEMMA InitDisk == WriterInit => DiskInv
<1> SUFFICES ASSUME WriterInit
             PROVE  DiskInv
  OBVIOUS
<1> USE DEF WriterInit
<1>1. DiskTypes
  <2>1. has_video \in BOOLEAN
    BY WriterAssumption DEF WriterAssumption
  <2>2. data \in Seq(DataFile)
    <3>1. <<>> \in Seq(DataFile)
      OBVIOUS
    <3>2. QED
      BY <3>1
  <2>3. QED
    BY <2>1, <2>2 DEF DiskTypes
<1>2. AllEpisodes = <<>> /\ LastFile(episodes) = 0 /\ LastFile(AllEpisodes) = 0 /\ LatestFile = 0
      /\ LatestTo(episodes) = 0 /\ LatestTo(AllEpisodes) = 0
  BY DEF AllEpisodes, LastFile, LatestFile, LatestTo
<1>3. Kept = <<>> /\ RowsUpTo(data, LastFile(episodes)) = <<>>
  BY <1>2, RowsUpToZero DEF Kept
<1>4. FilesSound
  BY <1>2 DEF FilesSound
<1>5. RowsSound
  BY <1>2 DEF RowsSound
<1>6. KeptSound
  BY <1>2, <1>3 DEF KeptSound
<1>7. QED
  BY <1>1, <1>4, <1>5, <1>6 DEF DiskInv

(* Steps that touch nothing but the frames being collected.                 *)
LEMMA BufferStep ==
  ASSUME DiskInv, saving = "idle", session' \in Nat,
         UNCHANGED <<has_video, disk, memory, saving, status, log, orphaned, unclean>>
  PROVE  DiskInv'
<1> USE DEF disk, memory
<1>1. /\ AllEpisodes' = AllEpisodes /\ LatestFile' = LatestFile /\ Kept' = Kept /\ Rows' = Rows
  BY DEF AllEpisodes, LatestFile, Kept, Rows
<1>2. DiskTypes'
  BY DEF DiskInv, DiskTypes
<1>3. FilesSound'
  BY <1>1 DEF DiskInv, FilesSound
<1>4. RowsSound => RowsSound'
  BY <1>1 DEF RowsSound
<1>5. KeptSound => KeptSound'
  BY <1>1 DEF KeptSound
<1>6. QED
  BY <1>2, <1>3, <1>4, <1>5 DEF DiskInv

LEMMA VideosStep == ASSUME DiskInv, SaveVideos \/ SaveVideosFails PROVE DiskInv'
<1> USE DEF disk, memory, history, SaveVideos, SaveVideosFails
<1>1. /\ AllEpisodes' = AllEpisodes /\ LatestFile' = LatestFile /\ Kept' = Kept /\ Rows' = Rows
  BY DEF AllEpisodes, LatestFile, Kept, Rows
<1>2. DiskTypes'
  BY DEF DiskInv, DiskTypes
<1>3. FilesSound'
  BY <1>1 DEF DiskInv, FilesSound
<1>4. CASE SaveVideos
  <2>1. RowsSound => RowsSound'
    BY <1>1, <1>4 DEF RowsSound
  <2>2. KeptSound => KeptSound'
    BY <1>1, <1>4 DEF KeptSound
  <2>3. QED
    BY <1>2, <1>3, <1>4, <2>1, <2>2 DEF DiskInv
<1>5. CASE SaveVideosFails
  BY <1>2, <1>3, <1>5 DEF DiskInv
<1>6. QED
  BY <1>4, <1>5

(* The rows of a save go behind those that count.                           *)
LEMMA DataStep == ASSUME MetaInv, DiskInv, SaveData PROVE DiskInv'
<1>1. PICK rotate \in BOOLEAN : data' = Written(NextFile(rotate)) /\ file' = NextFile(rotate)
  BY DEF SaveData
<1> DEFINE f == NextFile(rotate)
<1>2. /\ UNCHANGED <<has_video, episodes, info, meta_torn, meta_writer, metadata_buffer, status,
                     session, log, orphaned, unclean>>
      /\ status = "recording" /\ saving = "idle" /\ saving' \in {"video", "metadata"}
      /\ data_writer' = TRUE /\ episode_buffer'.frames = episode_buffer.frames
  BY DEF SaveData, Ready, history, MetaInv, MetaTypes
<1>3. MetaTypes
  BY DEF MetaInv
<1>4. /\ f \in Nat \ {0} /\ f >= LatestFile
      /\ data' \in Seq(DataFile)
      /\ f <= Len(data')
      /\ ~data'[f].closed
      /\ \/ Len(data') = f
         \/ /\ Len(data') = Len(data) /\ Len(data) > f
            /\ data'[Len(data)] = data[Len(data)]
      /\ \A g \in 1..(f - 1) : data'[g].rows = data[g].rows
      /\ RowsUpTo(data', f) = Kept \o NewRows
  BY <1>1, <1>3, Writes
<1>5. AllEpisodes' = AllEpisodes /\ LatestFile' = f /\ Kept' = RowsUpTo(data', f)
  BY <1>1, <1>2, <1>4 DEF AllEpisodes, LatestFile, Kept
<1> HIDE DEF f
<1>6. DiskTypes'
  BY <1>2, <1>4 DEF DiskInv, DiskTypes
<1>7. /\ LatestFile \in Nat /\ LastFile(episodes) \in Nat /\ LastFile(AllEpisodes) \in Nat
      /\ file \in Nat /\ AllEpisodes \in Seq(Episode) /\ LatestTo(AllEpisodes) \in Nat
  <2>1. file \in Nat /\ episodes \in Seq(Episode) /\ AllEpisodes \in Seq(Episode)
    BY <1>3 DEF MetaTypes, AllEpisodes
  <2>2. /\ LastFile(episodes) \in Nat /\ LastFile(AllEpisodes) \in Nat
        /\ LatestTo(AllEpisodes) \in Nat
    BY <2>1, LastFileNat, LatestToNat
  <2>3. QED
    BY <2>1, <2>2 DEF LatestFile
<1>8. LastFile(episodes) <= LatestFile /\ LastFile(AllEpisodes) <= LatestFile /\ ~meta_torn
      /\ (~meta_writer => LastFile(episodes) < f)
  <2>1. LastFile(episodes) <= LatestFile /\ LastFile(AllEpisodes) <= LatestFile /\ ~meta_torn
    BY <1>2 DEF DiskInv, FilesSound
  <2>2. CASE file = 0
    <3>1. f = LastFile(episodes) + 1
      BY <2>2, <1>7 DEF f, NextFile, LastFile
    <3>2. QED
      BY <1>7, <2>1, <3>1
  <2>3. CASE file # 0
    <3>1. ~meta_writer => LastFile(episodes) < file
      BY <1>2, <2>3 DEF DiskInv, FilesSound
    <3>2. LatestFile = file
      BY <2>3 DEF LatestFile
    <3>3. QED
      BY <1>4, <1>7, <2>1, <3>1, <3>2
  <2>4. QED
    BY <2>2, <2>3
<1>9. FilesSound'
  <2>1. LastFile(episodes)' = LastFile(episodes) /\ LastFile(AllEpisodes)' = LastFile(AllEpisodes)
    BY <1>2, <1>5 DEF LastFile
  <2>2. file' = f
    BY <1>1 DEF f
  <2>3. LastFile(episodes) <= f /\ LastFile(AllEpisodes) <= f /\ f # 0
    BY <1>4, <1>7, <1>8
  <2>4. QED
    BY <1>2, <1>4, <1>5, <1>8, <2>1, <2>2, <2>3 DEF FilesSound
<1>10. /\ Kept \in Seq(Row) /\ NewRows \in Seq(Row)
       /\ Len(NewRows) = Len(episode_buffer.frames)
       /\ \A i \in 1..Len(NewRows) : /\ NewRows[i].frame = episode_buffer.frames[i]
                                     /\ NewRows[i].index = info.frames + i - 1
  BY <1>3, KeptFirst, NewRowsAre
<1>11. /\ Kept' \in Seq(Row) /\ Len(Kept') = Len(Kept) + Len(NewRows)
       /\ \A p \in 1..Len(Kept) : Kept'[p] = Kept[p]
       /\ \A p \in 1..Len(NewRows) : Kept'[Len(Kept) + p] = NewRows[p]
  BY <1>4, <1>5, <1>10, Concat
<1>12. ~orphaned => KeptSound /\ RowsSound /\ Len(Kept) = LatestTo(AllEpisodes)
  BY <1>2, <1>8 DEF DiskInv, KeptSound
<1>13. ~orphaned => RowsSound'
  <2>1. Rows' = RowsUpTo(data', Len(data'))
    BY <1>4, RowsAre DEF Rows
  <2>2. /\ Len(Kept') <= Len(Rows') /\ Rows' \in Seq(Row)
        /\ \A p \in 1..Len(Kept') : Rows'[p] = Kept'[p]
    BY <1>4, <1>5, <2>1, FilesPrefix
  <2>3. /\ Len(Kept) <= Len(Rows')
        /\ \A p \in 1..Len(Kept) : Rows'[p] = Kept[p] /\ Rows[p] = Kept[p]
    <3>1. \A p \in 1..Len(Kept) : Rows[p] = Kept[p]
      BY <1>3, KeptFirst
    <3>2. Len(Kept) \in Nat /\ Len(NewRows) \in Nat /\ Len(Kept') \in Nat /\ Len(Rows') \in Nat
      BY <1>10, <1>11, <2>2
    <3>3. \A p \in 1..Len(Kept) : p \in 1..Len(Kept')
      BY <1>11, <3>2
    <3>4. QED
      BY <1>11, <2>2, <3>1, <3>2, <3>3
  <2>4. SUFFICES ASSUME ~orphaned, NEW i \in 1..Len(AllEpisodes)
                 PROVE  /\ AllEpisodes[i].to <= Len(Rows')
                        /\ \A k \in 1..Len(log[i]) :
                             Rows'[AllEpisodes[i].from + k].frame = log[i][k]
    BY <1>2, <1>5 DEF RowsSound
  <2>5. /\ AllEpisodes[i].from \in Nat /\ AllEpisodes[i].to \in Nat /\ Len(log[i]) \in Nat
        /\ AllEpisodes[i].to = AllEpisodes[i].from + Len(log[i])
        /\ AllEpisodes[i].to <= Len(Kept)
    BY <1>12, <2>4, EpisodeWithin
  <2>6. Len(Kept) \in Nat /\ Len(Rows') \in Nat
    BY <1>10, <2>2
  <2>7. \A k \in 1..Len(log[i]) : AllEpisodes[i].from + k \in 1..Len(Kept)
    BY <2>5, <2>6
  <2>8. \A k \in 1..Len(log[i]) : Rows[AllEpisodes[i].from + k].frame = log[i][k]
    BY <1>12, <2>4 DEF RowsSound
  <2>9. \A k \in 1..Len(log[i]) : Rows'[AllEpisodes[i].from + k] = Rows[AllEpisodes[i].from + k]
    BY <2>3, <2>7
  <2>10. AllEpisodes[i].to <= Len(Rows')
    BY <2>3, <2>5, <2>6
  <2>11. QED
    BY <2>8, <2>9, <2>10
<1>14. ~orphaned => KeptSound'
  <2>1. SUFFICES ASSUME ~orphaned
                 PROVE  KeptSound'
    OBVIOUS
  <2>2. /\ Len(Kept') = LatestTo(AllEpisodes') + Len(episode_buffer'.frames)
        /\ \A k \in 1..Len(episode_buffer'.frames) :
             Kept'[LatestTo(AllEpisodes') + k].frame = episode_buffer'.frames[k]
    BY <1>2, <1>5, <1>10, <1>11, <1>12, <2>1
  <2>3. ~meta_writer => Len(RowsUpTo(data', LastFile(episodes))) = LatestTo(episodes)
    <3>1. SUFFICES ASSUME ~meta_writer
                   PROVE  RowsUpTo(data', LastFile(episodes)) = RowsUpTo(data, LastFile(episodes))
      BY <1>12, <2>1 DEF KeptSound
    <3>2. \A g \in 1..LastFile(episodes) : data'[g].rows = data[g].rows
      BY <1>4, <1>7, <1>8, <3>1
    <3>3. QED
      BY <1>7, <3>2, RowsUpToSame
  <2>4. Len(data') > f => ~data'[Len(data')].closed
    <3>1. Len(data) > LatestFile => ~data[Len(data)].closed
      BY <1>12, <2>1 DEF KeptSound
    <3>2. Len(data) \in Nat
      BY DEF DiskInv, DiskTypes
    <3>3. QED
      BY <1>4, <1>7, <3>1, <3>2
  <2>5. ~unclean => \A i \in 1..Len(Kept') : Kept'[i].index = i - 1
    <3>1. SUFFICES ASSUME ~unclean, NEW i \in 1..Len(Kept')
                   PROVE  Kept'[i].index = i - 1
      OBVIOUS
    <3>2. info.frames = Len(Kept)
      BY <1>12, <2>1, <3>1 DEF MetaInv, Bookkeeping
    <3>3. Len(Kept) \in Nat /\ Len(NewRows) \in Nat
      BY <1>10
    <3>4. CASE i \in 1..Len(Kept)
      BY <1>11, <1>12, <2>1, <3>1, <3>4 DEF KeptSound
    <3>5. CASE ~(i \in 1..Len(Kept))
      <4>1. i - Len(Kept) \in 1..Len(NewRows) /\ Len(Kept) + (i - Len(Kept)) = i
        BY <1>11, <3>3, <3>5
      <4>2. Kept'[i] = NewRows[i - Len(Kept)]
        BY <1>11, <4>1
      <4>3. QED
        BY <1>10, <3>2, <3>3, <4>1, <4>2
    <3>6. QED
      BY <3>4, <3>5
  <2>6. QED
    BY <1>2, <1>5, <2>2, <2>3, <2>4, <2>5 DEF KeptSound
<1>15. QED
  BY <1>2, <1>6, <1>9, <1>13, <1>14 DEF DiskInv

(* An episode is added for the rows that were written last.                 *)
LEMMA MetadataStep == ASSUME MetaInv, DiskInv, SaveMetadata PROVE DiskInv'
<1> DEFINE frames == episode_buffer.frames
<1>1. /\ UNCHANGED <<has_video, data, meta_torn, file, data_writer, status, session, orphaned,
                     unclean>>
      /\ saving = "metadata" /\ saving' = "idle" /\ BufferMetadata
      /\ log' = Append(log, frames)
  BY DEF SaveMetadata
<1>2. MetaTypes /\ frames \in Seq(Nat) /\ Len(frames) \in Nat
  BY DEF MetaInv, MetaTypes
<1>3. /\ file \in Nat /\ episodes \in Seq(Episode) /\ AllEpisodes \in Seq(Episode)
      /\ log \in Seq(Seq(Nat)) /\ Len(AllEpisodes) = Len(log)
  BY DEF MetaInv, MetaTypes, AllEpisodes, Bookkeeping
<1>4. LatestTo(AllEpisodes) \in Nat /\ LastFile(episodes) \in Nat
  BY <1>3, LatestToNat, LastFileNat
<1>5. NewEpisode \in Episode
  BY <1>2, <1>3, <1>4 DEF NewEpisode, Episode, MetaTypes
<1>6. /\ AllEpisodes' = Append(AllEpisodes, NewEpisode)
      /\ \/ episodes' = episodes /\ (~meta_writer' => ~meta_writer)
         \/ episodes' = AllEpisodes' /\ meta_writer'
  <2>1. AllEpisodes' = Append(AllEpisodes, NewEpisode)
    BY <1>1, <1>2, <1>5, BufferAppends
  <2>2. CASE Len(Append(metadata_buffer, NewEpisode)) >= MetadataBufferSize
    <3>1. /\ episodes' = episodes \o Append(metadata_buffer, NewEpisode)
          /\ metadata_buffer' = <<>> /\ meta_writer'
      BY <1>1, <2>2 DEF BufferMetadata
    <3>2. episodes \o Append(metadata_buffer, NewEpisode) \in Seq(Episode)
      BY <1>2, <1>5 DEF MetaTypes
    <3>3. AllEpisodes' = episodes'
      BY <3>1, <3>2 DEF AllEpisodes
    <3>4. QED
      BY <2>1, <3>1, <3>3
  <2>3. CASE ~(Len(Append(metadata_buffer, NewEpisode)) >= MetadataBufferSize)
    <3>1. episodes' = episodes /\ (~meta_writer' => ~meta_writer)
      BY <1>1, <2>3 DEF BufferMetadata
    <3>2. QED
      BY <2>1, <3>1
  <2>4. QED
    BY <2>2, <2>3
<1>7. file # 0 /\ status = "recording" /\ ~meta_torn
  BY <1>1 DEF DiskInv, FilesSound, MetaInv, Bookkeeping
<1>8. LatestFile = file /\ LatestFile' = file /\ Kept' = Kept /\ Rows' = Rows
  BY <1>1, <1>7 DEF LatestFile, Kept, Rows
<1>9. LastFile(AllEpisodes') = file /\ LatestTo(AllEpisodes') = LatestTo(AllEpisodes) + Len(frames)
  BY <1>3, <1>5, <1>6, LastFileAppend, LatestToAppend DEF NewEpisode
<1>10. DiskTypes'
  <2>1. meta_writer' \in BOOLEAN
    BY <1>1 DEF BufferMetadata, DiskInv, DiskTypes
  <2>2. QED
    BY <1>1, <2>1 DEF DiskInv, DiskTypes
<1>11. FilesSound'
  <2>1. LastFile(episodes) <= file /\ file <= Len(data)
    BY <1>8 DEF DiskInv, FilesSound
  <2>2. LastFile(episodes') <= file /\ (~meta_writer' => LastFile(episodes') < file)
    <3>1. CASE episodes' = episodes /\ (~meta_writer' => ~meta_writer)
      BY <1>7, <2>1, <3>1 DEF DiskInv, FilesSound
    <3>2. CASE episodes' = AllEpisodes' /\ meta_writer'
      BY <1>3, <1>9, <3>2
    <3>3. QED
      BY <1>6, <3>1, <3>2
  <2>3. LastFile(AllEpisodes') <= file
    BY <1>3, <1>9
  <2>4. data_writer' /\ ~data'[file'].closed
    BY <1>1, <1>7 DEF DiskInv, FilesSound
  <2>5. LastFile(episodes)' = LastFile(episodes') /\ LastFile(AllEpisodes)' = LastFile(AllEpisodes')
    BY DEF LastFile
  <2>6. QED
    BY <1>1, <1>7, <1>8, <2>1, <2>2, <2>3, <2>4, <2>5 DEF FilesSound
<1>12. ~orphaned =>
         /\ RowsSound
         /\ Len(Kept) = LatestTo(AllEpisodes) + Len(frames)
         /\ \A k \in 1..Len(frames) : Kept[LatestTo(AllEpisodes) + k].frame = frames[k]
         /\ ~meta_writer => Len(RowsUpTo(data, LastFile(episodes))) = LatestTo(episodes)
         /\ Len(data) > LatestFile => ~data[Len(data)].closed
         /\ ~unclean => \A i \in 1..Len(Kept) : Kept[i].index = i - 1
  BY <1>1, <1>7 DEF DiskInv, KeptSound
<1>13. ~orphaned => RowsSound'
  <2>1. SUFFICES ASSUME ~orphaned, NEW i \in 1..Len(AllEpisodes')
                 PROVE  /\ AllEpisodes'[i].to <= Len(Rows)
                        /\ \A k \in 1..Len(log'[i]) :
                             Rows[AllEpisodes'[i].from + k].frame = log'[i][k]
    BY <1>8 DEF RowsSound
  <2>2. Len(AllEpisodes') = Len(AllEpisodes) + 1 /\ Len(AllEpisodes) \in Nat
    BY <1>3, <1>5, <1>6
  <2>3. CASE i \in 1..Len(AllEpisodes)
    <3>1. AllEpisodes'[i] = AllEpisodes[i] /\ log'[i] = log[i]
      BY <1>1, <1>2, <1>3, <1>5, <1>6, <2>3
    <3>2. QED
      BY <1>12, <2>1, <2>3, <3>1 DEF RowsSound
  <2>4. CASE i = Len(AllEpisodes) + 1
    <3>1. AllEpisodes'[i] = NewEpisode /\ log'[i] = frames
      BY <1>1, <1>2, <1>3, <1>5, <1>6, <2>4
    <3>2. NewEpisode.from = LatestTo(AllEpisodes) /\ NewEpisode.to = Len(Kept)
      BY <1>12, <2>1 DEF NewEpisode
    <3>3. /\ Len(Kept) <= Len(Rows)
          /\ \A p \in 1..Len(Kept) : Rows[p] = Kept[p]
      BY <1>2, KeptFirst
    <3>4. \A k \in 1..Len(frames) : LatestTo(AllEpisodes) + k \in 1..Len(Kept)
      BY <1>2, <1>4, <1>12, <2>1
    <3>5. \A k \in 1..Len(frames) : Rows[LatestTo(AllEpisodes) + k].frame = frames[k]
      BY <1>12, <2>1, <3>3, <3>4
    <3>6. QED
      BY <3>1, <3>2, <3>3, <3>5
  <2>5. QED
    BY <2>1, <2>2, <2>3, <2>4
<1>14. ~orphaned => KeptSound'
  <2>1. SUFFICES ASSUME ~orphaned
                 PROVE  KeptSound'
    OBVIOUS
  <2>2. ~meta_writer' => Len(RowsUpTo(data', LastFile(episodes'))) = LatestTo(episodes')
    BY <1>1, <1>6, <1>12, <2>1
  <2>3. LastFile(episodes)' = LastFile(episodes') /\ LastFile(AllEpisodes)' = LastFile(AllEpisodes')
        /\ LatestTo(episodes)' = LatestTo(episodes')
        /\ LatestTo(AllEpisodes)' = LatestTo(AllEpisodes')
    BY DEF LastFile, LatestTo
  <2>4. QED
    BY <1>1, <1>8, <1>9, <1>12, <2>1, <2>2, <2>3 DEF KeptSound
<1>15. QED
  BY <1>1, <1>10, <1>11, <1>13, <1>14 DEF DiskInv

(* Closing the files changes no row.                                        *)
LEMMA FinalizeStep == ASSUME MetaInv, DiskInv, Finalize PROVE DiskInv'
<1>1. /\ UNCHANGED <<has_video, meta_torn, file, saving, session, log, orphaned, unclean>>
      /\ status = "recording" /\ status' = "finalized" /\ saving = "idle" /\ ~meta_torn
      /\ data' = ClosedFiles /\ ~data_writer' /\ ~meta_writer' /\ data_writer' = FALSE
      /\ meta_writer' = FALSE /\ episodes' = AllEpisodes /\ metadata_buffer' = <<>>
  BY DEF Finalize, Ready, DiskInv, FilesSound
<1>2. /\ file \in Nat /\ episodes \in Seq(Episode) /\ AllEpisodes \in Seq(Episode)
  BY DEF MetaInv, MetaTypes, AllEpisodes
<1>3. AllEpisodes' = AllEpisodes
  BY <1>1, <1>2 DEF AllEpisodes
<1>4. /\ data' \in Seq(DataFile) /\ Len(data') = Len(data)
      /\ \A g \in 1..Len(data) : data'[g].rows = data[g].rows
      /\ \A g \in 1..Len(data) : g # file => data'[g] = data[g]
  <2>1. data \in Seq(DataFile) /\ DOMAIN data = 1..Len(data) /\ Len(data) \in Nat
    BY DEF DiskInv, DiskTypes
  <2>2. ASSUME NEW g \in 1..Len(data)
        PROVE  /\ ClosedFiles[g] \in DataFile /\ ClosedFiles[g].rows = data[g].rows
               /\ g # file => ClosedFiles[g] = data[g]
    <3>0. data[g] \in DataFile
      BY <2>1
    <3>1. data[g] \in [rows : Seq(Row), closed : BOOLEAN]
      BY <3>0 DEF DataFile
    <3>2. CASE g = file /\ data_writer
      <4>1. ClosedFiles[g] = [data[g] EXCEPT !.closed = TRUE]
        BY <2>1, <3>2 DEF ClosedFiles
      <4>2. QED
        BY <3>1, <3>2, <4>1 DEF DataFile
    <3>3. CASE ~(g = file /\ data_writer)
      <4>1. ClosedFiles[g] = data[g]
        BY <2>1, <3>3 DEF ClosedFiles
      <4>2. QED
        BY <3>1, <4>1 DEF DataFile
    <3>4. QED
      BY <3>2, <3>3
  <2>3. ClosedFiles = [g \in 1..Len(data) |-> ClosedFiles[g]]
    BY <2>1 DEF ClosedFiles
  <2>4. ClosedFiles \in Seq(DataFile) /\ Len(ClosedFiles) = Len(data)
    BY <2>1, <2>2, <2>3
  <2>5. QED
    BY <1>1, <2>2, <2>4
<1>5. /\ LatestFile \in Nat /\ LatestFile <= Len(data) /\ Len(data) \in Nat
      /\ LastFile(AllEpisodes) <= LatestFile /\ LastFile(AllEpisodes) \in Nat
  BY <1>2, LastFileNat DEF LatestFile, DiskInv, FilesSound, DiskTypes
<1>6. file = 0 => AllEpisodes = episodes
  BY <1>2 DEF AllEpisodes, DiskInv, FilesSound
<1>7. LatestFile' = LatestFile
  BY <1>1, <1>6 DEF LatestFile
<1>8. \A n \in Nat : n <= Len(data) => RowsUpTo(data', n) = RowsUpTo(data, n)
  <2>1. SUFFICES ASSUME NEW n \in Nat, n <= Len(data)
                 PROVE  RowsUpTo(data', n) = RowsUpTo(data, n)
    OBVIOUS
  <2>2. \A f \in 1..n : data'[f].rows = data[f].rows
    BY <1>4, <1>5, <2>1
  <2>3. QED
    BY <2>2, RowsUpToSame
<1>9. Kept' = Kept /\ Rows' = Rows
  <2>1. Kept' = Kept
    BY <1>5, <1>7, <1>8 DEF Kept
  <2>2. Rows = RowsUpTo(data, Len(data)) /\ Rows' = RowsUpTo(data', Len(data'))
    BY <1>4, RowsAre DEF Rows, DiskInv, DiskTypes
  <2>3. QED
    BY <1>4, <1>5, <1>8, <2>1, <2>2
<1>10. DiskTypes'
  BY <1>1, <1>4 DEF DiskInv, DiskTypes
<1>11. FilesSound'
  <2>1. LastFile(episodes)' = LastFile(AllEpisodes) /\ LastFile(AllEpisodes)' = LastFile(AllEpisodes)
    BY <1>1, <1>3 DEF LastFile
  <2>2. QED
    BY <1>1, <1>4, <1>5, <1>7, <2>1 DEF FilesSound
<1>12. RowsSound => RowsSound'
  BY <1>1, <1>3, <1>9 DEF RowsSound
<1>13. KeptSound => KeptSound'
  <2>1. SUFFICES ASSUME KeptSound
                 PROVE  KeptSound'
    OBVIOUS
  <2>2. LastFile(AllEpisodes) = LatestFile
    <3>1. CASE file = 0
      BY <1>6, <3>1 DEF LatestFile
    <3>2. CASE file # 0
      BY <1>1, <2>1, <3>2 DEF LatestFile, KeptSound
    <3>3. QED
      BY <3>1, <3>2
  <2>3. RowsUpTo(data', LastFile(episodes')) = Kept
    BY <1>1, <1>5, <1>8, <2>2 DEF Kept
  <2>4. Len(Kept) = LatestTo(AllEpisodes)
    BY <1>1, <2>1 DEF KeptSound
  <2>5. Len(data') > LatestFile' => ~data'[Len(data')].closed
    <3>1. SUFFICES ASSUME Len(data) > LatestFile
                   PROVE  ~data'[Len(data)].closed
      BY <1>4, <1>7
    <3>2. Len(data) \in 1..Len(data) /\ Len(data) # file
      BY <1>2, <1>5, <3>1 DEF LatestFile
    <3>3. data'[Len(data)] = data[Len(data)]
      BY <1>4, <3>2
    <3>4. QED
      BY <2>1, <3>1, <3>3 DEF KeptSound
  <2>6. LastFile(episodes)' = LastFile(AllEpisodes) /\ LastFile(AllEpisodes)' = LastFile(AllEpisodes)
        /\ LatestTo(episodes)' = LatestTo(AllEpisodes)
        /\ LatestTo(AllEpisodes)' = LatestTo(AllEpisodes)
    BY <1>1, <1>3 DEF LastFile, LatestTo
  <2>7. file # 0 => LastFile(AllEpisodes) = file
    BY <2>2 DEF LatestFile
  <2>8. ~unclean' => \A i \in 1..Len(Kept') : Kept'[i].index = i - 1
    BY <1>1, <1>9, <2>1 DEF KeptSound
  <2>9. RowsUpTo(data', LastFile(episodes)') = Kept
    BY <1>1, <2>3, <2>6
  <2>10. QED
    BY <1>1, <1>9, <2>4, <2>5, <2>6, <2>7, <2>8, <2>9 DEF KeptSound
<1>14. QED
  BY <1>1, <1>10, <1>11, <1>12, <1>13 DEF DiskInv

(* What a crash leaves is what the metadata on disk knows.                  *)
LEMMA CrashStep == ASSUME MetaInv, DiskInv, Crash PROVE DiskInv'
<1>1. /\ UNCHANGED <<has_video, data, episodes, session, orphaned>>
      /\ status = "recording" /\ status' = "dead" /\ ~meta_torn
      /\ meta_torn' \in BOOLEAN /\ (~meta_torn' => ~meta_writer)
      /\ file' = 0 /\ data_writer' = FALSE
      /\ meta_writer' = FALSE /\ metadata_buffer' = <<>> /\ saving' = "idle"
      /\ log' = SubSeq(log, 1, Len(episodes)) /\ unclean' = (unclean \/ Len(log) > safe)
  <2>1. meta_torn \in BOOLEAN /\ meta_writer \in BOOLEAN
    BY DEF DiskInv, DiskTypes, MetaInv, MetaTypes
  <2>2. meta_torn' \in BOOLEAN /\ (~meta_torn' => ~meta_writer)
    BY <2>1 DEF Crash, Flushing
  <2>3. QED
    BY <2>2 DEF Crash, DiskInv, FilesSound
<1>2. /\ file \in Nat /\ episodes \in Seq(Episode) /\ metadata_buffer \in Seq(Episode)
      /\ log \in Seq(Seq(Nat)) /\ Len(episodes) <= Len(log) /\ Len(episodes) \in Nat
      /\ Len(AllEpisodes) = Len(episodes) + Len(metadata_buffer)
      /\ data \in Seq(DataFile) /\ Len(data) \in Nat
  BY DEF MetaInv, MetaTypes, AllEpisodes, Bookkeeping, DiskInv, DiskTypes
<1>3. AllEpisodes' = episodes /\ LatestFile' = LastFile(episodes) /\ Rows' = Rows
      /\ Kept' = RowsUpTo(data, LastFile(episodes))
  BY <1>1, <1>2 DEF AllEpisodes, LatestFile, Rows, Kept, LastFile
<1>4. /\ LastFile(episodes) \in Nat /\ LatestFile \in Nat
      /\ LastFile(episodes) <= LatestFile /\ LatestFile <= Len(data)
  BY <1>2, LastFileNat DEF LatestFile, DiskInv, FilesSound
<1>5. DiskTypes'
  BY <1>1 DEF DiskInv, DiskTypes
<1>6. LastFile(episodes)' = LastFile(episodes) /\ LastFile(AllEpisodes)' = LastFile(episodes)
      /\ LatestTo(episodes)' = LatestTo(episodes) /\ LatestTo(AllEpisodes)' = LatestTo(episodes)
  BY <1>1, <1>3 DEF LastFile, LatestTo
<1>7. FilesSound'
  BY <1>1, <1>3, <1>4, <1>6 DEF FilesSound
<1>8. RowsSound => RowsSound'
  <2>1. \A i \in 1..Len(episodes) : /\ AllEpisodes[i] = episodes[i] /\ log'[i] = log[i]
                                    /\ i \in 1..Len(AllEpisodes)
    BY <1>1, <1>2 DEF AllEpisodes
  <2>2. SUFFICES ASSUME RowsSound, NEW i \in 1..Len(episodes)
                 PROVE  /\ episodes[i].to <= Len(Rows)
                        /\ \A k \in 1..Len(log'[i]) : Rows[episodes[i].from + k].frame = log'[i][k]
    BY <1>3 DEF RowsSound
  <2>3. QED
    BY <2>1, <2>2 DEF RowsSound
<1>9. ASSUME ~orphaned, ~meta_torn'
      PROVE  KeptSound'
  <2>1. ~meta_writer /\ KeptSound
    BY <1>1, <1>9 DEF DiskInv
  <2>2. Len(Kept') = LatestTo(episodes)
    BY <1>3, <2>1 DEF KeptSound
  <2>3. Len(data) > LastFile(episodes) => ~data[Len(data)].closed
    <3>1. CASE Len(data) > LatestFile
      BY <2>1, <3>1 DEF KeptSound
    <3>2. CASE ~(Len(data) > LatestFile)
      <4>1. Len(data) = LatestFile
        BY <1>2, <1>4, <3>2
      <4>2. CASE file # 0
        BY <1>1, <4>1, <4>2 DEF LatestFile, DiskInv, FilesSound
      <4>3. CASE file = 0
        BY <1>4, <4>1, <4>3 DEF LatestFile
      <4>4. QED
        BY <4>2, <4>3
    <3>3. QED
      BY <3>1, <3>2
  <2>4. ~unclean => \A i \in 1..Len(Kept') : Kept'[i].index = i - 1
    <3>1. \A f \in 1..LatestFile : data[f].rows \in Seq(Row)
      <4>1. \A f \in 1..LatestFile : data[f] \in DataFile
        BY <1>2, <1>4
      <4>2. QED
        BY <4>1 DEF DataFile
    <3>2. /\ Kept \in Seq(Row) /\ Kept' \in Seq(Row) /\ Len(Kept') <= Len(Kept)
          /\ \A i \in 1..Len(Kept') : Kept[i] = Kept'[i]
      <4>1. Kept' \in Seq(Row)
        BY <1>2, <1>3, <1>4, FilesPrefix
      <4>2. Kept \in Seq(Row)
        BY <1>2, <1>4, FilesPrefix DEF Kept
      <4>3. QED
        BY <1>3, <1>4, <3>1, <4>1, <4>2, RowsUpToPrefix DEF Kept
    <3>3. Len(Kept') \in Nat /\ Len(Kept) \in Nat
      BY <3>2
    <3>4. QED
      BY <2>1, <3>2, <3>3 DEF KeptSound
  <2>5. ~unclean' => ~unclean
    BY <1>1, Zenon
  <2>6. RowsUpTo(data', LastFile(episodes)') = Kept'
    BY <1>1, <1>3, <1>6
  <2>7. QED
    BY <1>1, <1>3, <1>6, <2>2, <2>3, <2>4, <2>5, <2>6 DEF KeptSound
<1>10. QED
  BY <1>1, <1>5, <1>7, <1>8, <1>9 DEF DiskInv

(* A session resumes behind the latest episode on disk.                     *)
LEMMA ResumeStep == ASSUME MetaInv, DiskInv, Resume PROVE DiskInv'
<1>1. /\ UNCHANGED <<has_video, data, episodes, info, meta_torn, data_writer, meta_writer,
                     metadata_buffer, saving, log, orphaned, unclean>>
      /\ status # "recording" /\ status' = "recording" /\ ~meta_torn /\ file' = 0
      /\ session' = session + 1
  BY DEF Resume, disk, history
<1>2. /\ file \in Nat /\ episodes \in Seq(Episode) /\ metadata_buffer = <<>> /\ saving = "idle"
      /\ ~meta_writer /\ data \in Seq(DataFile) /\ Len(data) \in Nat
  BY <1>1 DEF MetaInv, MetaTypes, Bookkeeping, DiskInv, FilesSound, DiskTypes
<1>3. AllEpisodes = episodes /\ AllEpisodes' = episodes /\ Rows' = Rows
      /\ LatestFile' = LastFile(episodes) /\ Kept' = RowsUpTo(data, LastFile(episodes))
  BY <1>1, <1>2 DEF AllEpisodes, LatestFile, Rows, Kept, LastFile
<1>4. /\ LastFile(episodes) \in Nat /\ LatestFile \in Nat
      /\ LastFile(episodes) <= LatestFile /\ LatestFile <= Len(data)
  BY <1>2, LastFileNat DEF LatestFile, DiskInv, FilesSound
<1>5. DiskTypes'
  BY <1>1 DEF DiskInv, DiskTypes
<1>6. LastFile(episodes)' = LastFile(episodes) /\ LastFile(AllEpisodes)' = LastFile(episodes)
      /\ LatestTo(episodes)' = LatestTo(episodes) /\ LatestTo(AllEpisodes)' = LatestTo(episodes)
  BY <1>1, <1>3 DEF LastFile, LatestTo
<1>7. FilesSound'
  BY <1>1, <1>2, <1>3, <1>4, <1>6 DEF FilesSound
<1>8. RowsSound => RowsSound'
  BY <1>1, <1>3 DEF RowsSound
<1>9. KeptSound => KeptSound'
  <2>1. SUFFICES ASSUME KeptSound
                 PROVE  KeptSound'
    OBVIOUS
  <2>2. LatestFile = LastFile(episodes)
    BY <1>2, <1>3, <2>1 DEF KeptSound, LatestFile
  <2>3. Kept' = Kept
    BY <1>3, <2>2 DEF Kept
  <2>4. QED
    BY <1>1, <1>2, <1>3, <1>6, <2>1, <2>2, <2>3 DEF KeptSound
<1>10. QED
  BY <1>1, <1>5, <1>7, <1>8, <1>9 DEF DiskInv

LEMMA StepDisk == MetaInv /\ DiskInv /\ [Next]_writerVars => DiskInv'
<1> SUFFICES ASSUME MetaInv, DiskInv, [Next]_writerVars
             PROVE  DiskInv'
  OBVIOUS
<1>1. session \in Nat
  BY DEF DiskInv, DiskTypes
<1>2. CASE AddFrame \/ AddFrameFails \/ SaveRaises \/ ClearEpisodeBuffer
  <2>1. saving = "idle" /\ session' \in Nat
        /\ UNCHANGED <<has_video, disk, memory, saving, status, log, orphaned, unclean>>
    BY <1>1, <1>2 DEF AddFrame, AddFrameFails, SaveRaises, ClearEpisodeBuffer, Ready, history
  <2>2. QED
    BY <2>1, BufferStep
<1>3. CASE UNCHANGED writerVars
  <2>1. AllEpisodes' = AllEpisodes /\ LatestFile' = LatestFile /\ Kept' = Kept /\ Rows' = Rows
    BY <1>3 DEF AllEpisodes, LatestFile, Kept, Rows, writerVars, disk, memory
  <2>2. QED
    BY <1>3, <2>1 DEF writerVars, disk, memory, history, DiskInv, DiskTypes, FilesSound, RowsSound,
                      KeptSound
<1>4. QED
  BY <1>2, <1>3, VideosStep, DataStep, MetadataStep, FinalizeStep, CrashStep, ResumeStep DEF Next

-----------------------------------------------------------------------------

(* What the metadata and the rows decode to is the log.                     *)
LEMMA StoredIsLog == ASSUME MetaInv, DiskInv, ~orphaned PROVE Stored = log
<1>1. /\ AllEpisodes \in Seq(Episode) /\ log \in Seq(Seq(Nat)) /\ Len(AllEpisodes) = Len(log)
  BY DEF MetaInv, MetaTypes, AllEpisodes, Bookkeeping
<1>2. DOMAIN AllEpisodes = 1..Len(log) /\ DOMAIN log = 1..Len(log)
  BY <1>1
<1>3. Rows \in Seq(Row)
  BY KeptFirst DEF MetaInv
<1>4. ASSUME NEW i \in 1..Len(log)
      PROVE  Frames(AllEpisodes[i]) = log[i]
  <2> DEFINE e == AllEpisodes[i]
             rows == SubSeq(Rows, e.from + 1, e.to)
  <2>1. /\ e.from \in Nat /\ e.to \in Nat /\ Len(log[i]) \in Nat /\ log[i] \in Seq(Nat)
        /\ e.to = e.from + Len(log[i])
    BY <1>1, EpisodeWithin
  <2>2. /\ e.to <= Len(Rows) /\ Len(Rows) \in Nat
        /\ \A k \in 1..Len(log[i]) : Rows[e.from + k].frame = log[i][k]
    BY <1>1, <1>3 DEF DiskInv, RowsSound
  <2> HIDE DEF e
  <2>3. /\ DOMAIN rows = 1..Len(log[i])
        /\ \A k \in 1..Len(log[i]) : rows[k] = Rows[e.from + k]
    <3>1. e.from <= e.to /\ e.to - e.from = Len(log[i])
      BY <2>1
    <3>2. /\ SubSeq(Rows, e.from + 1, e.to) \in Seq(Row)
          /\ Len(SubSeq(Rows, e.from + 1, e.to)) = e.to - e.from
          /\ \A k \in 1..(e.to - e.from) : SubSeq(Rows, e.from + 1, e.to)[k] = Rows[e.from + k]
      <4>1. e.from \in Nat /\ e.to \in Nat /\ e.to <= Len(Rows)
        BY <2>1, <2>2
      <4> HIDE DEF e
      <4>2. QED
        BY <1>3, <3>1, <4>1, SubSeqFrom
    <3>3. rows \in Seq(Row) /\ Len(rows) = Len(log[i])
          /\ \A k \in 1..Len(log[i]) : rows[k] = Rows[e.from + k]
      BY <3>1, <3>2
    <3> HIDE DEF rows
    <3>4. QED
      BY <3>3
  <2>4. Frames(e) = [k \in 1..Len(log[i]) |-> log[i][k]]
    <3>1. Frames(e) = [k \in DOMAIN rows |-> rows[k].frame]
      BY DEF Frames
    <3> HIDE DEF rows
    <3>2. \A k \in 1..Len(log[i]) : rows[k].frame = log[i][k]
      BY <2>2, <2>3
    <3>3. DOMAIN rows = 1..Len(log[i])
      BY <2>3
    <3>4. QED
      BY <3>1, <3>2, <3>3
  <2>5. log[i] = [k \in 1..Len(log[i]) |-> log[i][k]]
    BY <2>1, SeqIsFunction
  <2>6. QED
    BY <2>4, <2>5 DEF e
<1>5. QED
  BY <1>1, <1>2, <1>4 DEF Stored

LEMMA DiskAgreesInductive == MetaInv /\ DiskInv => DiskAgrees
<1> SUFFICES ASSUME MetaInv, DiskInv
             PROVE  DiskAgrees
  OBVIOUS
<1>1. WriterTypeOK
  BY DEF MetaInv, MetaTypes, DiskInv, DiskTypes, WriterTypeOK, DataFile
<1>2. /\ MetaTypes /\ episodes \in Seq(Episode) /\ AllEpisodes \in Seq(Episode)
      /\ log \in Seq(Seq(Nat)) /\ Len(AllEpisodes) = Len(log)
      /\ data \in Seq(DataFile) /\ Len(data) \in Nat /\ file \in Nat
  BY DEF MetaInv, MetaTypes, AllEpisodes, Bookkeeping, DiskInv, DiskTypes
<1>3. ASSUME Readable
      PROVE  /\ AllEpisodes = episodes /\ saving = "idle" /\ ~meta_torn
             /\ \A f \in 1..Len(data) : data[f].closed
  <2>1. \A f \in 1..Len(data) : data[f].closed
    BY <1>2, <1>3 DEF Readable
  <2>2. ~meta_torn
    BY <1>3 DEF Readable
  <2>3. metadata_buffer = <<>> /\ saving = "idle"
    <3>1. CASE status = "recording"
      <4>1. file = 0
        <5>1. SUFFICES ASSUME file # 0
                       PROVE  FALSE
          OBVIOUS
        <5>2. file \in 1..Len(data) /\ ~data[file].closed
          BY <1>2, <3>1, <5>1 DEF DiskInv, FilesSound, LatestFile
        <5>3. QED
          BY <2>1, <5>2
      <4>2. QED
        BY <4>1 DEF DiskInv, FilesSound
    <3>2. CASE status # "recording"
      BY <3>2 DEF MetaInv, Bookkeeping
    <3>3. QED
      BY <3>1, <3>2
  <2>4. AllEpisodes = episodes
    BY <1>2, <2>3 DEF AllEpisodes
  <2>5. QED
    BY <2>1, <2>2, <2>3, <2>4
<1>4. ~orphaned => Stored = log
  BY StoredIsLog
<1>5. ReadBack
  <2>1. SUFFICES ASSUME Readable, ~orphaned
                 PROVE  [i \in DOMAIN episodes |-> Frames(episodes[i])] = log
    BY DEF ReadBack
  <2>2. QED
    BY <1>3, <1>4, <2>1 DEF Stored
<1>6. CountsAgree
  <2>1. SUFFICES ASSUME Readable, ~orphaned, ~unclean
                 PROVE  /\ info = [episodes |-> Len(episodes), frames |-> Len(Rows)]
                        /\ \A i \in DOMAIN Rows : Rows[i].index = i - 1
    BY DEF CountsAgree
  <2>2. info = [episodes |-> Len(AllEpisodes), frames |-> LatestTo(AllEpisodes)]
    BY <2>1 DEF MetaInv, Bookkeeping
  <2>3. KeptSound
    BY <1>3, <2>1 DEF DiskInv
  <2>4. Kept = Rows
    <3>1. LatestFile <= Len(data) /\ LatestFile \in Nat
      BY <1>2, LastFileNat DEF LatestFile, DiskInv, FilesSound
    <3>2. ~(Len(data) > LatestFile)
      <4>1. Len(data) > LatestFile => Len(data) \in 1..Len(data)
        BY <1>2, <3>1
      <4>2. QED
        BY <1>3, <2>1, <2>3, <4>1 DEF KeptSound
    <3>3. Len(data) = LatestFile
      BY <1>2, <3>1, <3>2
    <3>4. Rows = RowsUpTo(data, Len(data))
      BY <1>2, RowsAre DEF Rows
    <3>5. QED
      BY <3>3, <3>4 DEF Kept
  <2>5. DOMAIN Rows = 1..Len(Rows)
    BY <1>2, KeptFirst
  <2>6. QED
    BY <1>3, <2>1, <2>2, <2>3, <2>4, <2>5 DEF KeptSound
<1>7. QED
  BY <1>1, <1>5, <1>6 DEF DiskAgrees

(* A dataset that can be read holds the saved episodes frame by frame, and  *)
(* its counts and indices are right unless a process died with episodes it  *)
(* had not finalised.                                                       *)
THEOREM DiskTellsTheLog == Spec => []DiskAgrees
<1>1. WriterInit => MetaInv /\ DiskInv
  BY InitMeta, InitDisk
<1>2. MetaInv /\ DiskInv /\ [Next]_writerVars => MetaInv' /\ DiskInv'
  BY StepMeta, StepDisk
<1>3. QED
  BY <1>1, <1>2, DiskAgreesInductive, PTL DEF Spec

-----------------------------------------------------------------------------
(* The refinement of the log of episodes. *)

NeverEmpty == saving # "idle" => episode_buffer.frames # <<>>

LEMMA StepNeverEmpty == MetaInv /\ NeverEmpty /\ [Next]_writerVars => NeverEmpty'
<1> SUFFICES ASSUME MetaInv, NeverEmpty, [Next]_writerVars, saving' # "idle"
             PROVE  episode_buffer'.frames # <<>>
  BY DEF NeverEmpty
<1>1. CASE SaveData
  BY <1>1 DEF SaveData, Valid, MetaInv, MetaTypes
<1>2. CASE SaveVideos
  BY <1>2 DEF SaveVideos, NeverEmpty
<1>3. CASE UNCHANGED writerVars
  BY <1>3 DEF writerVars, NeverEmpty
<1>4. saving' # "idle" /\ Next => SaveData \/ SaveVideos
  <2>1. ~(AddFrame \/ AddFrameFails \/ SaveRaises \/ ClearEpisodeBuffer \/ Finalize)
    BY DEF AddFrame, AddFrameFails, SaveRaises, ClearEpisodeBuffer, Finalize, Ready
  <2>2. ~(SaveVideosFails \/ SaveMetadata \/ Crash)
    BY DEF SaveVideosFails, SaveMetadata, Crash
  <2>3. ~Resume
    BY DEF Resume, MetaInv, Bookkeeping
  <2>4. QED
    BY <2>1, <2>2, <2>3 DEF Next
<1>5. QED
  BY <1>1, <1>2, <1>3, <1>4

(* The variables of the log.                                                *)
logNow == IF orphaned THEN log ELSE Stored
currentNow == IF episode_buffer.keys = "popped" /\ saving = "idle"
             THEN <<>> ELSE episode_buffer.frames

LEMMA StoredLog == ASSUME MetaInv, DiskInv PROVE logNow = log
  BY StoredIsLog DEF logNow

(* Frames at the end of what is recorded, and nothing else.                 *)
LEMMA GrowthRecords ==
  ASSUME currentNow \in Seq(Nat), NEW new \in Seq(Nat), new # <<>>, currentNow' = currentNow \o new,
         \A i \in 1..Len(new) : new[i] \in 1..MaxFrames, logNow' = logNow, safe' = safe
  PROVE  Log!Record
<1> DEFINE now == currentNow
           grown == now \o new
<1>1. /\ now \in Seq(Nat) /\ Len(now) \in Nat /\ Len(new) \in Nat \ {0} /\ grown \in Seq(Nat)
      /\ Len(grown) = Len(now) + Len(new)
      /\ \A i \in 1..Len(now) : grown[i] = now[i]
      /\ \A i \in (Len(now) + 1)..Len(grown) : grown[i] = new[i - Len(now)]
  OBVIOUS
<1>2. currentNow' = grown
  OBVIOUS
<1> HIDE DEF now, grown
<1>3. IsStrictPrefix(now, grown)
  <2>1. SubSeq(now, 1, Len(now)) = SubSeq(grown, 1, Len(now))
    BY <1>1
  <2>2. QED
    BY <1>1, <2>1 DEF IsStrictPrefix, IsPrefix
<1>4. \A i \in (Len(now) + 1)..Len(grown) : grown[i] \in 1..MaxFrames
  <2>1. SUFFICES ASSUME NEW i \in (Len(now) + 1)..Len(grown)
                 PROVE  grown[i] \in 1..MaxFrames
    OBVIOUS
  <2>2. i - Len(now) \in 1..Len(new)
    BY <1>1
  <2>3. QED
    BY <1>1, <2>2
<1>5. Log!IsStrictPrefix(currentNow, currentNow')
  BY <1>2, <1>3 DEF Log!IsStrictPrefix, Log!IsPrefix, IsStrictPrefix, IsPrefix, now
<1>6. \A i \in (Len(currentNow) + 1)..Len(currentNow') : currentNow'[i] \in 1..MaxFrames
  BY <1>2, <1>4 DEF now
<1>7. QED
  BY <1>5, <1>6 DEF Log!Record, logNow, currentNow

LEMMA AppendRecords ==
  ASSUME currentNow \in Seq(Nat), NEW f \in 1..MaxFrames, currentNow' = Append(currentNow, f),
         logNow' = logNow, safe' = safe
  PROVE  Log!Record
<1>1. <<f>> \in Seq(Nat) /\ <<f>> # <<>> /\ Append(currentNow, f) = currentNow \o <<f>>
      /\ \A i \in 1..Len(<<f>>) : <<f>>[i] \in 1..MaxFrames
  BY WriterAssumption DEF WriterAssumption
<1>2. QED
  BY <1>1, GrowthRecords

LEMMA StepLog ==
  ASSUME MetaInv, DiskInv, NeverEmpty, logNow = log, logNow' = log', [Next]_writerVars
  PROVE  [Log!Next]_<<logNow, currentNow, safe>>
<1>1. CASE AddFrame
  <2>1. /\ UNCHANGED <<log, safe, saving>> /\ saving = "idle"
        /\ episode_buffer.keys # "popped"
        /\ episode_buffer' = [episode_buffer EXCEPT !.frames = Append(@, clock + 1)]
        /\ clock < MaxFrames
    BY <1>1 DEF AddFrame, Ready, history
  <2>2. clock + 1 \in 1..MaxFrames
    BY <2>1, WriterAssumption DEF WriterAssumption, MetaInv, MetaTypes
  <2>3. currentNow \in Seq(Nat) /\ currentNow' = Append(currentNow, clock + 1)
    BY <2>1 DEF currentNow, MetaInv, MetaTypes
  <2>4. Log!Record
    BY <2>1, <2>2, <2>3, AppendRecords
  <2>5. QED
    BY <2>4 DEF Log!Next
<1>2. CASE AddFrameFails \/ SaveVideos
  <2>1. UNCHANGED <<log, safe>> /\ currentNow' = currentNow
    BY <1>2 DEF AddFrameFails, SaveVideos, Ready, history, currentNow, MetaInv, MetaTypes
  <2>2. QED
    BY <2>1
<1>3. CASE SaveData
  <2>1. UNCHANGED <<log, safe>> /\ currentNow' = currentNow
    BY <1>3 DEF SaveData, Valid, Ready, history, currentNow, MetaInv, MetaTypes
  <2>2. QED
    BY <2>1
<1>4. CASE SaveRaises \/ SaveVideosFails \/ ClearEpisodeBuffer \/ Resume
  <2>1. UNCHANGED <<log, safe>> /\ (currentNow' = currentNow \/ currentNow' = <<>>)
    BY <1>4 DEF SaveRaises, SaveVideosFails, ClearEpisodeBuffer, Resume, Ready, history, currentNow,
                EmptyBuffer, MetaInv, MetaTypes
  <2>2. CASE currentNow' = currentNow
    BY <2>1, <2>2
  <2>3. CASE currentNow' = <<>>
    BY <2>1, <2>3 DEF Log!Next, Log!Discard, logNow, currentNow
  <2>4. QED
    BY <2>1, <2>2, <2>3
<1>5. CASE SaveMetadata
  <2>1. /\ log' = Append(log, episode_buffer.frames) /\ safe' = safe
        /\ currentNow = episode_buffer.frames /\ currentNow' = <<>> /\ currentNow # <<>>
    BY <1>5 DEF SaveMetadata, currentNow, EmptyBuffer, NeverEmpty
  <2>2. Log!Save
    BY <2>1 DEF Log!Save, logNow, currentNow
  <2>3. QED
    BY <2>2 DEF Log!Next
<1>6. CASE Finalize
  <2>1. safe' = Len(log) /\ log' = log /\ currentNow' = currentNow
    BY <1>6 DEF Finalize, currentNow
  <2>2. Log!Finish
    BY <2>1 DEF Log!Finish, logNow, currentNow
  <2>3. QED
    BY <2>2 DEF Log!Next
<1>7. CASE Crash
  <2>1. /\ log' = SubSeq(log, 1, Len(episodes)) /\ safe' = safe /\ currentNow' = <<>>
    BY <1>7 DEF Crash, currentNow, EmptyBuffer
  <2>2. Len(episodes) \in safe..Len(log)
    BY DEF MetaInv, MetaTypes, Bookkeeping, AllEpisodes
  <2>3. Log!Crash
    BY <2>1, <2>2 DEF Log!Crash, logNow, currentNow
  <2>4. QED
    BY <2>3 DEF Log!Next
<1>8. CASE UNCHANGED writerVars
  BY <1>8 DEF writerVars, history, currentNow
<1>9. QED
  BY <1>1, <1>2, <1>3, <1>4, <1>5, <1>6, <1>7, <1>8 DEF Next

(* The writer implements the log: an episode is appended as a whole, frame  *)
(* by frame what was added since the last one, and a crash takes only       *)
(* episodes of the session that died.                                       *)
THEOREM WriterImplementsLog == Spec => ImplementsLog
<1>1. WriterInit => MetaInv /\ DiskInv /\ NeverEmpty
  BY InitMeta, InitDisk DEF WriterInit, NeverEmpty
<1>2. WriterInit => Log!Init
  <2>1. SUFFICES ASSUME WriterInit
                 PROVE  Log!Init
    OBVIOUS
  <2>2. logNow = log
    BY <1>1, <2>1, StoredLog
  <2>3. QED
    BY <2>1, <2>2 DEF Log!Init, logNow, currentNow, WriterInit, EmptyBuffer
<1>3. MetaInv /\ DiskInv /\ NeverEmpty /\ [Next]_writerVars => MetaInv' /\ DiskInv' /\ NeverEmpty'
  BY StepMeta, StepDisk, StepNeverEmpty
<1> DEFINE J == MetaInv /\ DiskInv /\ NeverEmpty /\ logNow = log
<1>4. J /\ J' /\ [Next]_writerVars => [Log!Next]_<<logNow, currentNow, safe>>
  BY StepLog
<1>5. MetaInv /\ DiskInv /\ NeverEmpty => J
  BY StoredLog
<1>6. Spec => []J
  <2> HIDE DEF J
  <2>1. QED
    BY <1>1, <1>3, <1>5, PTL DEF Spec
<1>7. Spec => Log!Init /\ [][Log!Next]_<<logNow, currentNow, safe>>
  <2> HIDE DEF J
  <2>1. QED
    BY <1>2, <1>4, <1>6, PTL DEF Spec
<1>8. QED
  BY <1>7 DEF ImplementsLog, Log!Spec, logNow, currentNow

-----------------------------------------------------------------------------
(* The episode lock separates a save from an upload, and what an upload has *)
(* published is what there is until it has cleared the flag.                *)
LockIInv ==
  /\ lock = "push" <=> pusher # "idle"
  /\ lock = "main" <=> main = "saving"
  /\ saving # "idle" => main = "saving"
  /\ pusher = "clear" => hub.known = info.episodes

FlagsUnpushed == Flagged /\ main # "saved" /\ ~needs_push => hub.known = info.episodes

FlagInv == LockIInv /\ FlagsUnpushed

-----------------------------------------------------------------------------
LEMMA InitLock == Init => FlagInv
  BY DEF Init, WriterInit, FlagInv, LockIInv, FlagsUnpushed, Flagged

(* Keys touch nothing the invariant is about.                               *)
LEMMA OperatorLock == FlagInv /\ Operator => FlagInv'
<1>1. Operator => UNCHANGED <<strategy, main, lock, pusher, saving, hub, info, needs_push>>
  BY DEF Operator, Shutdown, PressSave, PressPush, PressArrow, writerVars, disk, pushVars
<1>2. QED
  BY <1>1 DEF FlagInv, LockIInv, FlagsUnpushed, Flagged

(* Capturing neither starts nor ends a save.                                *)
LEMMA CaptureLock == FlagInv /\ Capture => FlagInv'
<1> USE DEF writerVars, disk, memory, pushVars, Aside, Goto
<1>1. ASSUME Capture
      PROVE  /\ UNCHANGED <<strategy, lock, pusher, saving, hub, info, needs_push>>
             /\ main \notin {"saving", "saved"} /\ main' \notin {"saving", "saved"}
  <2>1. CASE Tick \/ TickWithoutFrame \/ TickFails
    BY <2>1 DEF Tick, TickWithoutFrame, TickFails, Goes, NextStep, AddFrame, AddFrameFails
  <2>2. CASE KeepEpisode \/ Rotate
    BY <2>2 DEF KeepEpisode, Rotate
  <2>3. CASE ChangePhase \/ ServePush
    BY <2>3 DEF ChangePhase, ServePush, Goes
  <2>4. CASE CaptureToRing \/ CaptureLive
    BY <2>4 DEF CaptureToRing, CaptureLive, Goes, AddFrame
  <2>5. CASE StartEpisode \/ EndEpisode \/ HighlightFails
    BY <2>5 DEF StartEpisode, EndEpisode, HighlightFails, Goes, AddFrame, AddFrameFails
  <2>6. CASE EndPolicyLoop \/ EndResetLoop
    BY <2>6 DEF EndPolicyLoop, EndResetLoop
  <2>7. CASE Rerecord \/ Keep
    BY <2>7 DEF Rerecord, Keep, NextEpisode
  <2>8. QED
    BY <1>1, <2>1, <2>2, <2>3, <2>4, <2>5, <2>6, <2>7 DEF Capture
<1>2. QED
  BY <1>1 DEF FlagInv, LockIInv, FlagsUnpushed, Flagged

(* Only a save that succeeds adds an episode; it holds the lock, and the    *)
(* flag is set before the control thread does anything else.                *)
LEMMA EndingLock == FlagInv /\ Ending => FlagInv'
<1> SUFFICES ASSUME FlagInv, Ending
             PROVE  FlagInv'
  OBVIOUS
<1> USE DEF FlagInv, LockIInv, FlagsUnpushed, Flagged, writerVars, disk, memory, Aside, KeepKeys,
            Goto, pushVars
<1>1. CASE LeaveLoop \/ SaveLast \/ StopExecutor \/ FinalPush
  <2>1. /\ UNCHANGED <<strategy, lock, pusher, saving, hub, info, needs_push>>
        /\ main \notin {"saving", "saved"} /\ main' \notin {"saving", "saved"}
    BY <1>1 DEF LeaveLoop, SaveLast, StopExecutor, FinalPush
  <2>2. QED
    BY <2>1
<1>2. CASE Exit
  <2>1. /\ UNCHANGED <<strategy, lock, pusher, saving, hub, info, needs_push>>
        /\ main = "exit" /\ main' = "teardown"
    BY <1>2 DEF Exit, Finalize
  <2>2. QED
    BY <2>1
<1>3. CASE AcquireToSave
  <2>1. /\ UNCHANGED <<strategy, pusher, saving, hub, info, needs_push>>
        /\ lock = "free" /\ lock' = "main" /\ main = "wait" /\ main' = "saving"
    BY <1>3 DEF AcquireToSave
  <2>2. QED
    BY <2>1
<1>4. CASE SaveStep
  <2>1. UNCHANGED <<strategy, main, lock, pusher, hub, info, needs_push>> /\ main = "saving"
    BY <1>4 DEF SaveStep, SaveData, SaveVideos
  <2>2. QED
    BY <2>1
<1>5. CASE SaveSucceeds
  <2>1. /\ UNCHANGED <<strategy, pusher, hub, needs_push>> /\ saving' = "idle"
        /\ main = "saving" /\ main' = "saved" /\ lock' = "free"
    BY <1>5 DEF SaveSucceeds, SaveMetadata
  <2>2. QED
    BY <2>1
<1>6. CASE SaveFails
  <2>1. /\ UNCHANGED <<strategy, pusher, hub, info, needs_push>> /\ saving' = "idle"
        /\ main = "saving" /\ main' \in {"exit", "final"} /\ lock' = "free"
    BY <1>6 DEF SaveFails, SaveVideosFails, SaveRaises, Ready
  <2>2. QED
    BY <2>1
<1>7. CASE AfterSave
  <2>1. /\ UNCHANGED <<strategy, lock, pusher, saving, hub, info>>
        /\ main = "saved" /\ main' \in {"exit", "final", "loop"} /\ (Flagged => needs_push')
    BY <1>7 DEF AfterSave, NextEpisode
  <2>2. QED
    BY <2>1
<1>8. CASE ReadDataLast \/ PublishLast \/ PublishLastFails
  <2>1. /\ UNCHANGED <<strategy, lock, pusher, saving, info, needs_push>>
        /\ main \notin {"saving", "saved"} /\ main' \notin {"saving", "saved"}
        /\ hub' = hub \/ hub'.known = info.episodes
    BY <1>8 DEF ReadDataLast, PublishLast, PublishLastFails, Publish
  <2>2. QED
    BY <2>1
<1>9. QED
  BY <1>1, <1>2, <1>3, <1>4, <1>5, <1>6, <1>7, <1>8 DEF Ending

(* The flag is cleared under the lock, right after all there is has been    *)
(* uploaded.                                                                *)
LEMMA PusherLock == FlagInv /\ Pusher => FlagInv'
<1> SUFFICES ASSUME FlagInv, Pusher
             PROVE  FlagInv'
  OBVIOUS
<1> USE DEF FlagInv, LockIInv, FlagsUnpushed, Flagged, writerVars, disk, memory, pusherOnly
<1>1. CASE StartPush
  BY <1>1 DEF StartPush
<1>2. CASE PushData
  BY <1>2 DEF PushData
<1>3. CASE PushMetadata
  <2>1. hub'.known = info.episodes
    BY <1>3 DEF PushMetadata, Publish
  <2>2. UNCHANGED <<strategy, main, lock, saving, info, needs_push>>
        /\ pusher = "metadata" /\ pusher' = "clear"
    BY <1>3 DEF PushMetadata
  <2>3. QED
    BY <2>1, <2>2
<1>4. CASE PushFails
  BY <1>4 DEF PushFails
<1>5. CASE ClearNeedsPush
  BY <1>5 DEF ClearNeedsPush
<1>6. QED
  BY <1>1, <1>2, <1>3, <1>4, <1>5 DEF Pusher

LEMMA StepLock == FlagInv /\ [RecordingNext]_vars => FlagInv'
<1>1. ASSUME FlagInv, UNCHANGED vars
      PROVE  FlagInv'
  BY <1>1 DEF vars, writerVars, disk, pushVars, FlagInv, LockIInv, FlagsUnpushed, Flagged
<1>2. QED
  BY <1>1, OperatorLock, CaptureLock, EndingLock, PusherLock DEF RecordingNext

-----------------------------------------------------------------------------
(* What a recording session does to the writer. *)

(* Frames are collected, or dropped.                                        *)
Collects ==
  /\ saving = "idle"
  /\ clock' \in Nat
  /\ episode_buffer' \in [index : Nat, frames : Seq(Nat), keys : {"all", "uneven", "popped"}]
  /\ UNCHANGED <<has_video, disk, memory, saving, status, session, history>>

(* The steps that concern the writer alone.                                 *)
SaveSteps == SaveData \/ SaveMetadata \/ Finalize \/ SaveVideos \/ SaveVideosFails \/ SaveRaises

EndingStates == {"push", "pushing", "uploading", "done"}

(* One session, never killed: its own files are all there is.               *)
FilesUsed ==
  /\ ~meta_torn /\ ~unclean
  /\ Len(data) = file
  /\ file = 0 => episodes = <<>>
  /\ \A f \in 1..Len(data) : f # file \/ status = "finalized" => data[f].closed

StatusKnown ==
  status = IF main = "teardown" \/ main \in EndingStates THEN "finalized" ELSE "recording"

OneSession == FilesUsed /\ StatusKnown

SwitchTypes ==
  /\ ending \in BOOLEAN /\ needs_push \in BOOLEAN /\ failed \in BOOLEAN
  /\ shutdown \in BOOLEAN /\ save_requested \in BOOLEAN /\ push_requested \in BOOLEAN
  /\ rerecord \in BOOLEAN /\ exit_early \in BOOLEAN /\ live \in BOOLEAN

OtherTypes ==
  /\ strategy \in Strategies
  /\ main \in {"loop", "rotate", "reset", "decide", "wait", "saving", "saved", "final", "exit",
               "teardown", "push", "pushing", "uploading", "done"}
  /\ lock \in {"free", "main", "push"}
  /\ queued \in Nat
  /\ pusher \in {"idle", "data", "metadata", "clear"}
  /\ snapshot \in Snapshot
  /\ hub \in Hub
  /\ ring \in Seq(Nat)
  /\ ring_bytes \in Nat
  /\ emptied \in Nat
  /\ phase \in {"autonomous", "paused", "correcting"}
  /\ count \in Nat
  /\ pushes \in Nat

RecordingTypes == SwitchTypes /\ OtherTypes

WriterInv == MetaInv /\ DiskInv

LEMMA WriterKeeps == WriterInv /\ ([Next]_writerVars \/ Collects) => WriterInv'
<1> SUFFICES ASSUME WriterInv, [Next]_writerVars \/ Collects
             PROVE  WriterInv'
  OBVIOUS
<1>1. CASE [Next]_writerVars
  BY <1>1, StepMeta, StepDisk DEF WriterInv
<1>2. CASE Collects
  <2>1. DiskInv'
    <3>1. session \in Nat
      BY DEF WriterInv, DiskInv, DiskTypes
    <3>2. QED
      BY <1>2, <3>1, BufferStep DEF WriterInv, Collects, history
  <2>2. MetaTypes'
    BY <1>2 DEF Collects, disk, memory, history, WriterInv, MetaInv, MetaTypes
  <2>3. Bookkeeping'
    BY <1>2 DEF Collects, disk, memory, history, WriterInv, MetaInv, Bookkeeping, AllEpisodes, Tiled
  <2>4. QED
    BY <2>1, <2>2, <2>3 DEF WriterInv, MetaInv
<1>3. QED
  BY <1>1, <1>2

(* A tick adds a frame to what is collected.                                *)
LEMMA FramesCollected ==
  ASSUME WriterInv, AddFrame \/ AddFrameFails
  PROVE  Collects
<1> DEFINE Buffers == [index : Nat, frames : Seq(Nat), keys : {"all", "uneven", "popped"}]
<1>1. clock \in Nat /\ episode_buffer \in Buffers
  BY DEF WriterInv, MetaInv, MetaTypes
<1>2. /\ saving = "idle" /\ clock' = clock + 1
      /\ UNCHANGED <<has_video, disk, memory, saving, status, session, history>>
  BY DEF AddFrame, AddFrameFails, Ready
<1>3. episode_buffer' \in Buffers
  <2>1. CASE AddFrame
    <3>1. Append(episode_buffer.frames, clock + 1) \in Seq(Nat)
      BY <1>1
    <3>2. episode_buffer' = [episode_buffer EXCEPT !.frames = Append(episode_buffer.frames, clock + 1)]
      BY <2>1 DEF AddFrame
    <3>3. QED
      BY <1>1, <3>1, <3>2
  <2>2. CASE AddFrameFails
    <3>1. episode_buffer' = [episode_buffer EXCEPT !.keys = "uneven"]
      BY <2>2 DEF AddFrameFails
    <3>2. QED
      BY <1>1, <3>1
  <2>3. QED
    BY <2>1, <2>2
<1>4. QED
  BY <1>1, <1>2, <1>3 DEF Collects

LEMMA OperatorWriter == Operator => UNCHANGED writerVars
  BY DEF Operator, Shutdown, PressSave, PressPush, PressArrow

LEMMA PusherWriter == Pusher => UNCHANGED writerVars
  BY DEF Pusher, StartPush, PushData, PushMetadata, PushFails, ClearNeedsPush, pusherOnly

LEMMA CaptureWriter ==
  ASSUME WriterInv, RecordingTypes, LockIInv, Capture
  PROVE  UNCHANGED writerVars \/ Collects
<1>types. /\ clock \in Nat /\ info.episodes \in Nat
          /\ episode_buffer \in [index : Nat, frames : Seq(Nat), keys : {"all", "uneven", "popped"}]
  BY DEF WriterInv, MetaInv, MetaTypes
<1>idle. main # "saving" => saving = "idle"
  BY DEF LockIInv
<1>1. CASE Tick \/ TickFails \/ CaptureLive \/ EndEpisode \/ HighlightFails
  BY <1>1, FramesCollected DEF Tick, TickFails, CaptureLive, EndEpisode, HighlightFails
<1>2. CASE TickWithoutFrame \/ KeepEpisode \/ Rotate \/ ServePush \/ EndPolicyLoop \/ EndResetLoop
           \/ Keep
  BY <1>2 DEF TickWithoutFrame, KeepEpisode, Rotate, ServePush, EndPolicyLoop, EndResetLoop, Keep
<1>3. CASE ChangePhase \/ CaptureToRing
  BY <1>3, <1>types, <1>idle DEF ChangePhase, CaptureToRing, NextTake, Goes, Collects
<1>4. CASE Rerecord
  BY <1>4, <1>types, <1>idle DEF Rerecord, NextTake, Goto, EmptyBuffer, Collects
<1>5. CASE StartEpisode
  <2> DEFINE new == (episode_buffer.frames \o ring) \o <<clock + 1>>
  <2>1. new \in Seq(Nat)
    <3>1. episode_buffer.frames \in Seq(Nat) /\ ring \in Seq(Nat) /\ <<clock + 1>> \in Seq(Nat)
      BY <1>types DEF RecordingTypes, OtherTypes
    <3>2. QED
      BY <3>1
  <2>2. episode_buffer' = [episode_buffer EXCEPT !.frames = new]
    BY <1>5 DEF StartEpisode
  <2> HIDE DEF new
  <2>3. episode_buffer' \in [index : Nat, frames : Seq(Nat), keys : {"all", "uneven", "popped"}]
    BY <1>types, <2>1, <2>2
  <2>4. QED
    BY <1>5, <1>types, <1>idle, <2>3 DEF StartEpisode, Goes, Collects
<1>6. QED
  BY <1>1, <1>2, <1>3, <1>4, <1>5 DEF Capture

LEMMA EndingWriter == Ending => UNCHANGED writerVars \/ SaveSteps
  BY DEF Ending, LeaveLoop, SaveLast, AcquireToSave, SaveStep, SaveSucceeds, SaveFails, AfterSave,
         Exit, StopExecutor, FinalPush, ReadDataLast, PublishLast, PublishLastFails, SaveSteps

LEMMA StepWriter ==
  ASSUME WriterInv, RecordingTypes, LockIInv, [RecordingNext]_vars
  PROVE  /\ UNCHANGED writerVars \/ Collects \/ SaveSteps
         /\ WriterInv'
<1>1. UNCHANGED writerVars \/ Collects \/ SaveSteps
  BY OperatorWriter, PusherWriter, CaptureWriter, EndingWriter DEF RecordingNext, vars
<1>2. SaveSteps => Next
  BY DEF SaveSteps, Next
<1>3. QED
  BY <1>1, <1>2, WriterKeeps

-----------------------------------------------------------------------------
LEMMA MinOfTwo ==
  ASSUME NEW a \in Nat, NEW b \in Nat
  PROVE  Min({a, b}) = IF a <= b THEN a ELSE b
<1>1. \E x \in {a, b} : \A y \in {a, b} : x <= y
  OBVIOUS
<1>2. Min({a, b}) \in {a, b} /\ \A y \in {a, b} : Min({a, b}) <= y
  BY <1>1 DEF Min
<1>3. QED
  BY <1>2

LEMMA EvictedIs ==
  ASSUME RecordingTypes
  PROVE  /\ Evicted \in Nat
         /\ Evicted = IF ring_bytes + 1 > RingBytes
                        THEN IF ring_bytes + 1 - RingBytes <= Len(ring)
                               THEN ring_bytes + 1 - RingBytes ELSE Len(ring)
                        ELSE 0
<1>1. ring_bytes \in Nat /\ Len(ring) \in Nat /\ RingBytes \in Nat
  BY StrategyAssumption DEF StrategyAssumption, RecordingTypes, OtherTypes
<1>2. CASE ring_bytes + 1 > RingBytes
  <2>1. ring_bytes + 1 - RingBytes \in Nat
    BY <1>1, <1>2
  <2>2. QED
    BY <1>1, <1>2, <2>1, MinOfTwo DEF Evicted
<1>3. CASE ~(ring_bytes + 1 > RingBytes)
  BY <1>3 DEF Evicted
<1>4. QED
  BY <1>2, <1>3

LEMMA RingTypes ==
  ASSUME RecordingTypes, NEW f \in Nat, RingAppend(f)
  PROVE  ring' \in Seq(Nat) /\ ring_bytes' \in Nat
<1>1. ring \in Seq(Nat) /\ ring_bytes \in Nat /\ RingBytes \in Nat \ {0}
  BY StrategyAssumption DEF StrategyAssumption, RecordingTypes, OtherTypes
<1>2. Evicted \in Nat /\ Evicted <= ring_bytes + 1
  BY <1>1, EvictedIs
<1>3. SubSeq(ring, Evicted + 1, Len(ring)) \in Seq(Nat)
  BY <1>1, <1>2
<1> DEFINE added == Append(SubSeq(ring, Evicted + 1, Len(ring)), f)
<1>4. added \in Seq(Nat) /\ added # <<>>
  <2>1. added \in Seq(Nat) /\ Len(added) = Len(SubSeq(ring, Evicted + 1, Len(ring))) + 1
        /\ Len(SubSeq(ring, Evicted + 1, Len(ring))) \in Nat
    BY <1>3
  <2>2. QED
    BY <2>1
<1> HIDE DEF added
<1>5. Bounded(added) \in Seq(Nat)
  BY <1>4 DEF Bounded
<1>6. ring' = Bounded(added) /\ ring_bytes' = ring_bytes + 1 - Evicted
  BY DEF RingAppend, added
<1>7. QED
  BY <1>1, <1>2, <1>5, <1>6

(* The switches change hands as they are.                                    *)
LEMMA StepSwitches == SwitchTypes /\ [RecordingNext]_vars => SwitchTypes'
<1> SUFFICES ASSUME SwitchTypes, [RecordingNext]_vars
             PROVE  SwitchTypes'
  OBVIOUS
<1> USE DEF SwitchTypes, pushVars, ringVars, keyVars, Aside, Goto, KeepKeys, pusherOnly
<1>1. CASE Operator
  BY <1>1 DEF Operator, Shutdown, PressSave, PressPush, PressArrow
<1>2. CASE Capture
  <2>1. CASE Tick \/ TickWithoutFrame \/ TickFails \/ KeepEpisode \/ Rotate \/ Keep
    BY <2>1 DEF Tick, TickWithoutFrame, TickFails, KeepEpisode, Rotate, Keep
  <2>2. CASE ChangePhase \/ ServePush \/ CaptureToRing \/ CaptureLive
    BY <2>2 DEF ChangePhase, ServePush, CaptureToRing, CaptureLive
  <2>3. CASE StartEpisode \/ EndEpisode
    BY <2>3 DEF StartEpisode, EndEpisode
  <2>4. CASE HighlightFails
    BY <2>4 DEF HighlightFails
  <2>5. CASE EndPolicyLoop \/ EndResetLoop \/ Rerecord
    BY <2>5 DEF EndPolicyLoop, EndResetLoop, Rerecord
  <2>6. QED
    BY <1>2, <2>1, <2>2, <2>3, <2>4, <2>5 DEF Capture
<1>3. CASE Ending
  <2>1. CASE LeaveLoop \/ SaveLast
    BY <2>1 DEF LeaveLoop, SaveLast
  <2>2. CASE AfterSave
    BY <2>2 DEF AfterSave
  <2>3. CASE AcquireToSave \/ SaveStep \/ SaveSucceeds \/ SaveFails
    BY <2>3 DEF AcquireToSave, SaveStep, SaveSucceeds, SaveFails
  <2>4. CASE Exit \/ StopExecutor \/ FinalPush
    BY <2>4 DEF Exit, StopExecutor, FinalPush
  <2>5. CASE ReadDataLast \/ PublishLast
    BY <2>5 DEF ReadDataLast, PublishLast
  <2>6. CASE PublishLastFails
    BY <2>6 DEF PublishLastFails
  <2>7. QED
    BY <1>3, <2>1, <2>2, <2>3, <2>4, <2>5, <2>6 DEF Ending
<1>4. CASE Pusher
  BY <1>4 DEF Pusher, StartPush, PushData, PushMetadata, PushFails, ClearNeedsPush
<1>5. CASE UNCHANGED vars
  BY <1>5 DEF vars
<1>6. QED
  BY <1>1, <1>2, <1>3, <1>4, <1>5 DEF RecordingNext

LEMMA OperatorTypes == ASSUME OtherTypes, Operator PROVE OtherTypes'
<1> USE DEF OtherTypes, pushVars, ringVars
<1>1. CASE Shutdown
  BY <1>1 DEF Shutdown
<1>2. CASE PressSave
  BY <1>2 DEF PressSave
<1>3. CASE PressPush
  BY <1>3 DEF PressPush
<1>4. CASE PressArrow
  BY <1>4 DEF PressArrow
<1>5. QED
  BY <1>1, <1>2, <1>3, <1>4 DEF Operator

LEMMA CaptureTypes == ASSUME RecordingTypes, clock \in Nat, Capture PROVE OtherTypes'
<1> USE DEF RecordingTypes, OtherTypes, pushVars, ringVars, keyVars, Aside, Goto
<1>1. CASE Tick \/ TickWithoutFrame \/ TickFails \/ KeepEpisode \/ Rotate \/ Keep \/ CaptureLive
  BY <1>1 DEF Tick, TickWithoutFrame, TickFails, KeepEpisode, Rotate, Keep,
              CaptureLive, NextStep, Goes
<1>2. CASE ChangePhase
  BY <1>2 DEF ChangePhase, Goes
<1>3. CASE ServePush
  BY <1>3 DEF ServePush, Goes
<1>4. CASE CaptureToRing
  <2>1. ring' \in Seq(Nat) /\ ring_bytes' \in Nat
    <3>1. RingAppend(clock + 1) /\ clock + 1 \in Nat
      BY <1>4 DEF CaptureToRing
    <3>2. QED
      BY <3>1, RingTypes
  <2>2. QED
    BY <1>4, <2>1 DEF CaptureToRing
<1> <<>> \in Seq(Nat)
  OBVIOUS
<1>5. CASE StartEpisode
  BY <1>5 DEF StartEpisode, Drain, Goes
<1>6. CASE EndEpisode
  BY <1>6 DEF EndEpisode, Goes
<1>7. CASE HighlightFails
  <2>1. UNCHANGED <<ring, ring_bytes, emptied>> \/ Drain
    BY <1>7 DEF HighlightFails
  <2>2. CASE UNCHANGED <<ring, ring_bytes, emptied>>
    BY <1>7, <2>2 DEF HighlightFails
  <2>3. CASE Drain
    BY <1>7, <2>3 DEF HighlightFails, Drain
  <2>4. QED
    BY <2>1, <2>2, <2>3
<1>8. CASE EndPolicyLoop \/ EndResetLoop
  BY <1>8 DEF EndPolicyLoop, EndResetLoop
<1>9. CASE Rerecord
  BY <1>9 DEF Rerecord, NextEpisode
<1>10. QED
  BY <1>1, <1>2, <1>3, <1>4, <1>5, <1>6, <1>7, <1>8, <1>9 DEF Capture

LEMMA ReadTypes ==
  ASSUME WriterInv
  PROVE  /\ Len(Rows) \in Nat /\ Len(episodes) \in Nat
         /\ info.frames \in Nat /\ info.episodes \in Nat /\ meta_writer \in BOOLEAN
         /\ [rows |-> Len(Rows), closed |-> \A f \in DOMAIN data : data[f].closed] \in Snapshot
<1>1. Rows \in Seq(Row)
  BY KeptFirst DEF WriterInv, MetaInv
<1>2. (\A f \in DOMAIN data : data[f].closed) \in BOOLEAN
  OBVIOUS
<1>3. QED
  BY <1>1, <1>2 DEF WriterInv, MetaInv, MetaTypes, DiskInv, DiskTypes, Snapshot

LEMMA PublishTypes ==
  ASSUME WriterInv, RecordingTypes, Publish
  PROVE  hub' \in Hub
<1>1. snapshot.rows \in Nat /\ snapshot.closed \in BOOLEAN
  BY DEF RecordingTypes, OtherTypes, Snapshot
<1> DEFINE r == snapshot.closed /\ ~meta_writer
<1>2. r \in BOOLEAN
  BY <1>1, ReadTypes
<1>3. hub' = [rows |-> snapshot.rows, frames |-> info.frames, episodes |-> Len(episodes),
              known |-> info.episodes, readable |-> r]
  BY DEF Publish
<1> HIDE DEF r
<1>4. QED
  BY <1>1, <1>2, <1>3, ReadTypes DEF Hub

LEMMA EndingTypes == ASSUME RecordingTypes, WriterInv, Ending PROVE OtherTypes'
<1> USE DEF RecordingTypes, OtherTypes, pushVars, ringVars, keyVars, Aside, Goto, KeepKeys
<1>1. CASE LeaveLoop \/ SaveLast \/ AcquireToSave \/ SaveStep
  BY <1>1 DEF LeaveLoop, SaveLast, AcquireToSave, SaveStep
<1>2. CASE SaveSucceeds \/ SaveFails
  BY <1>2 DEF SaveSucceeds, SaveFails
<1>3. CASE AfterSave
  <2>1. clock \in Nat
    BY DEF WriterInv, MetaInv, MetaTypes
  <2>2. QED
    BY <1>3, <2>1 DEF AfterSave, NextEpisode
<1>4. CASE Exit \/ StopExecutor \/ FinalPush
  BY <1>4 DEF Exit, StopExecutor, FinalPush
<1>5. CASE ReadDataLast
  BY <1>5, ReadTypes DEF ReadDataLast, ReadData
<1>6. CASE PublishLast
  <2>1. hub' \in Hub
    BY <1>6, PublishTypes DEF PublishLast
  <2>2. QED
    BY <1>6, <2>1 DEF PublishLast
<1>7. CASE PublishLastFails
  BY <1>7 DEF PublishLastFails
<1>8. QED
  BY <1>1, <1>2, <1>3, <1>4, <1>5, <1>6, <1>7 DEF Ending

LEMMA PusherTypes ==
  ASSUME RecordingTypes, WriterInv, pusher # "idle" => queued > 0, Pusher
  PROVE  OtherTypes'
<1> USE DEF RecordingTypes, OtherTypes, pusherOnly, ringVars, keyVars
<1>1. CASE StartPush
  BY <1>1 DEF StartPush
<1>2. CASE PushData
  BY <1>2, ReadTypes DEF PushData, ReadData
<1>3. CASE PushMetadata
  <2>1. hub' \in Hub
    BY <1>3, PublishTypes DEF PushMetadata
  <2>2. QED
    BY <1>3, <2>1 DEF PushMetadata
<1>4. CASE PushFails
  BY <1>4 DEF PushFails
<1>5. CASE ClearNeedsPush
  BY <1>5 DEF ClearNeedsPush
<1>6. QED
  BY <1>1, <1>2, <1>3, <1>4, <1>5 DEF Pusher


-----------------------------------------------------------------------------
(* The session and its files. *)

(* A session writes its files one after the other.                          *)
LEMMA DataFilesUsed ==
  ASSUME WriterInv, FilesUsed, SaveData
  PROVE  FilesUsed'
<1>1. /\ file \in Nat /\ data \in Seq(DataFile) /\ Len(data) = file
      /\ \A f \in 1..Len(data) : f # file => data[f].closed
      /\ ~meta_torn /\ ~unclean
  BY DEF WriterInv, MetaInv, MetaTypes, DiskInv, DiskTypes, FilesUsed
<1>2. PICK rotate \in BOOLEAN : data' = Written(NextFile(rotate)) /\ file' = NextFile(rotate)
  BY DEF SaveData
<1> DEFINE f == NextFile(rotate)
<1>3. f \in Nat \ {0} /\ (f = file \/ f = file + 1)
  BY <1>1 DEF NextFile, FilesUsed
<1>4. /\ UNCHANGED <<episodes, meta_torn, status, unclean>>
      /\ status = "recording"
  BY DEF SaveData, Ready, history
<1> DEFINE closing == [g \in DOMAIN data |-> IF g = file THEN [data[g] EXCEPT !.closed = (f # file)]
                                                         ELSE data[g]]
           rows == IF f = file THEN data[f].rows \o NewRows ELSE NewRows
           new == [rows |-> rows, closed |-> FALSE]
<1>5. data' = IF f <= Len(data) THEN [closing EXCEPT ![f] = new] ELSE Append(closing, new)
  BY <1>2 DEF Written
<1>6. /\ DOMAIN closing = 1..file /\ Len(closing) = file
      /\ \A g \in 1..file : g # f => closing[g].closed
  <2>1. DOMAIN data = 1..file
    BY <1>1
  <2>2. ASSUME NEW g \in 1..file, g # f
        PROVE  closing[g].closed
    <3>1. CASE g = file
      <4>1. closing[g] = [data[g] EXCEPT !.closed = (f # file)]
        BY <2>1, <3>1
      <4>2. data[g] \in DataFile
        BY <1>1
      <4>3. closing[g].closed = (f # file)
        BY <4>1, <4>2 DEF DataFile
      <4>4. QED
        BY <2>2, <3>1, <4>3
    <3>2. CASE g # file
      BY <1>1, <2>1, <3>2
    <3>3. QED
      BY <3>1, <3>2
  <2>3. QED
    BY <1>1, <2>1, <2>2
<1> HIDE DEF f, new, closing, rows
<1>7. /\ Len(data') = f
      /\ \A g \in 1..f : g # f => data'[g].closed
  <2>1. CASE f = file
    <3>1. data' = [closing EXCEPT ![f] = new]
      BY <1>1, <1>3, <1>5, <2>1
    <3>2. DOMAIN data' = 1..file /\ \A g \in 1..file : g # f => data'[g] = closing[g]
      BY <1>6, <3>1
    <3>3. QED
      BY <1>1, <1>6, <2>1, <3>2, <3>1
  <2>2. CASE f = file + 1
    <3>1. data' = Append(closing, new)
      BY <1>1, <1>3, <1>5, <2>2
    <3>2. Len(data') = file + 1 /\ \A g \in 1..file : data'[g] = closing[g]
      BY <1>1, <1>6, <3>1
    <3>3. QED
      BY <1>1, <1>6, <2>2, <3>2
  <2>3. QED
    BY <1>3, <2>1, <2>2
<1>8. file' = f
  BY <1>2 DEF f
<1>9. QED
  BY <1>1, <1>3, <1>4, <1>7, <1>8 DEF FilesUsed

LEMMA FinalFilesUsed ==
  ASSUME WriterInv, FilesUsed, Finalize
  PROVE  FilesUsed'
<1>1. /\ file \in Nat /\ data \in Seq(DataFile) /\ Len(data) = file
      /\ \A f \in 1..Len(data) : f # file => data[f].closed
      /\ ~meta_torn /\ ~unclean
      /\ file # 0 => data_writer
      /\ file = 0 => episodes = <<>> /\ metadata_buffer = <<>>
  BY DEF WriterInv, MetaInv, MetaTypes, DiskInv, DiskTypes, FilesUsed, Finalize, Ready, FilesSound
<1>2. /\ data' = ClosedFiles /\ episodes' = AllEpisodes
      /\ UNCHANGED <<meta_torn, file, unclean>>
  BY DEF Finalize
<1>3. /\ Len(ClosedFiles) = file
      /\ \A f \in 1..file : ClosedFiles[f].closed
  <2>1. DOMAIN data = 1..file
    BY <1>1
  <2>2. DOMAIN ClosedFiles = 1..file /\ Len(ClosedFiles) = file
    BY <1>1, <2>1 DEF ClosedFiles
  <2>3. ASSUME NEW f \in 1..file
        PROVE  ClosedFiles[f].closed
    <3>1. CASE f = file
      <4>1. data[f] \in DataFile /\ data_writer
        BY <1>1, <3>1
      <4>2. ClosedFiles[f] = [data[f] EXCEPT !.closed = TRUE]
        BY <2>1, <3>1, <4>1 DEF ClosedFiles
      <4>3. QED
        BY <4>1, <4>2 DEF DataFile
    <3>2. CASE f # file
      BY <1>1, <2>1, <3>2 DEF ClosedFiles
    <3>3. QED
      BY <3>1, <3>2
  <2>4. QED
    BY <2>2, <2>3
<1>4. file = 0 => AllEpisodes = <<>>
  BY <1>1 DEF AllEpisodes
<1>5. QED
  BY <1>1, <1>2, <1>3, <1>4 DEF FilesUsed

LEMMA StepFilesUsed ==
  ASSUME WriterInv, FilesUsed, UNCHANGED writerVars \/ Collects \/ SaveSteps
  PROVE  FilesUsed'
<1>1. CASE UNCHANGED writerVars \/ Collects
  BY <1>1 DEF FilesUsed, Collects, writerVars, disk, memory, history
<1>2. CASE SaveVideos \/ SaveVideosFails \/ SaveRaises
  BY <1>2 DEF FilesUsed, SaveVideos, SaveVideosFails, SaveRaises, disk, memory, history
<1>3. CASE SaveMetadata
  <2>1. file # 0
    BY <1>3 DEF WriterInv, DiskInv, FilesSound, SaveMetadata
  <2>2. QED
    BY <1>3, <2>1 DEF FilesUsed, SaveMetadata
<1>4. QED
  BY <1>1, <1>2, <1>3, DataFilesUsed, FinalFilesUsed DEF SaveSteps

(* What the control thread and the others leave as it is.                   *)
LEMMA StatusKept ==
  ASSUME UNCHANGED writerVars \/ Collects \/ SaveData \/ SaveVideos \/ SaveMetadata
         \/ SaveVideosFails \/ SaveRaises
  PROVE  UNCHANGED status
  BY DEF writerVars, Collects, SaveData, SaveVideos, SaveMetadata, SaveVideosFails, SaveRaises

LEMMA StepStatusKnown ==
  ASSUME WriterInv, RecordingTypes, LockIInv, StatusKnown, [RecordingNext]_vars
  PROVE  StatusKnown'
<1> USE DEF StatusKnown, EndingStates
<1>1. CASE Operator \/ Pusher
  <2>1. UNCHANGED <<main, status>>
    BY <1>1, OperatorWriter, PusherWriter
       DEF Operator, Shutdown, PressSave, PressPush, PressArrow, Pusher, StartPush, PushData,
           PushMetadata, PushFails, ClearNeedsPush, pusherOnly, writerVars
  <2>2. QED
    BY <2>1
<1>2. CASE Capture
  <2>1. UNCHANGED status
    BY <1>2, CaptureWriter, StatusKept
  <2>2. /\ main \in {"loop", "rotate", "reset", "decide"}
        /\ main' \in {"loop", "rotate", "reset", "decide", "wait", "final"}
    BY <1>2 DEF Capture, Tick, TickWithoutFrame, TickFails, KeepEpisode, Rotate, ChangePhase,
                ServePush, CaptureToRing, CaptureLive, StartEpisode, EndEpisode, HighlightFails,
                EndPolicyLoop, EndResetLoop, Rerecord, Keep, Goes, Goto, NextStep, NextEpisode
  <2>3. QED
    BY <2>1, <2>2
<1>3. CASE LeaveLoop \/ SaveLast \/ AcquireToSave \/ SaveStep \/ SaveSucceeds \/ SaveFails \/ AfterSave
  <2>1. UNCHANGED status
    BY <1>3, StatusKept DEF LeaveLoop, SaveLast, AcquireToSave, SaveStep, SaveSucceeds, SaveFails,
                            AfterSave
  <2>2. /\ main \in {"loop", "reset", "final", "wait", "saving", "saved"}
        /\ main' \in {"final", "exit", "wait", "saving", "saved", "loop"}
    BY <1>3 DEF LeaveLoop, SaveLast, AcquireToSave, SaveStep, SaveSucceeds, SaveFails, AfterSave,
                Goto, NextEpisode
  <2>3. QED
    BY <2>1, <2>2
<1>4. CASE Exit
  BY <1>4 DEF Exit, Finalize, Goto
<1>5. CASE StopExecutor \/ FinalPush \/ ReadDataLast \/ PublishLast \/ PublishLastFails
  BY <1>5 DEF StopExecutor, FinalPush, ReadDataLast, PublishLast, PublishLastFails, Goto, writerVars
<1>6. CASE UNCHANGED vars
  BY <1>6 DEF vars, writerVars
<1>7. QED
  BY <1>1, <1>2, <1>3, <1>4, <1>5, <1>6 DEF RecordingNext, Ending

(* Rows and counts agree whenever no save runs.                             *)
LEMMA RowsCounted ==
  ASSUME WriterInv, FilesUsed, ~orphaned, saving = "idle"
  PROVE  Len(Rows) = info.frames
<1>1. data \in Seq(DataFile) /\ file \in Nat /\ KeptSound
  BY DEF WriterInv, MetaInv, MetaTypes, DiskInv, DiskTypes, FilesUsed
<1>2. LatestFile = Len(data)
  BY <1>1 DEF LatestFile, LastFile, FilesUsed
<1>3. Rows = Kept
  BY <1>1, <1>2, RowsAre DEF Rows, Kept
<1>4. info.frames = LatestTo(AllEpisodes)
  BY DEF WriterInv, MetaInv, Bookkeeping, FilesUsed
<1>5. QED
  BY <1>1, <1>3, <1>4 DEF KeptSound

-----------------------------------------------------------------------------
(* Uploads. *)

QueueSound ==
  /\ pusher # "idle" => queued > 0
  /\ main \in EndingStates => queued = 0

LEMMA StepQueueSound ==
  ASSUME RecordingTypes, QueueSound, [RecordingNext]_vars
  PROVE  QueueSound'
<1> USE DEF QueueSound, EndingStates, RecordingTypes, OtherTypes
<1>1. CASE Operator
  BY <1>1 DEF Operator, Shutdown, PressSave, PressPush, PressArrow, pushVars
<1>2. CASE Capture
  <2>1. UNCHANGED pusher /\ queued' \in Nat /\ queued' >= queued
    <3>1. CASE ServePush
      BY <3>1 DEF ServePush
    <3>2. CASE ~ServePush
      <4>1. UNCHANGED <<pusher, queued>>
        BY <1>2, <3>2 DEF Capture, Tick, TickWithoutFrame, TickFails, KeepEpisode, Rotate,
                ChangePhase, CaptureToRing, CaptureLive, StartEpisode, EndEpisode, HighlightFails,
                EndPolicyLoop, EndResetLoop, Rerecord, Keep, Aside, pushVars
      <4>2. QED
        BY <4>1
    <3>3. QED
      BY <3>1, <3>2
  <2>2. main' \in {"loop", "rotate", "reset", "decide", "wait", "final"}
    BY <1>2 DEF Capture, Tick, TickWithoutFrame, TickFails, KeepEpisode, Rotate, ChangePhase,
                ServePush, CaptureToRing, CaptureLive, StartEpisode, EndEpisode, HighlightFails,
                EndPolicyLoop, EndResetLoop, Rerecord, Keep, Goes, Goto, NextStep, NextEpisode
  <2>3. QED
    BY <2>1, <2>2
<1>3. CASE LeaveLoop \/ SaveLast \/ AcquireToSave \/ SaveStep \/ SaveSucceeds \/ SaveFails
  <2>1. UNCHANGED <<pusher, queued>>
    BY <1>3 DEF LeaveLoop, SaveLast, AcquireToSave, SaveStep, SaveSucceeds, SaveFails, Aside,
                pushVars, KeepKeys
  <2>2. main' \in {"final", "exit", "wait", "saving", "saved"}
    BY <1>3 DEF LeaveLoop, SaveLast, AcquireToSave, SaveStep, SaveSucceeds, SaveFails, Goto
  <2>3. QED
    BY <2>1, <2>2
<1>4. CASE AfterSave
  <2>1. UNCHANGED pusher /\ queued' \in Nat /\ queued' >= queued
    BY <1>4 DEF AfterSave
  <2>2. main' \in {"exit", "final", "loop"}
    BY <1>4 DEF AfterSave, Goto, NextEpisode
  <2>3. QED
    BY <2>1, <2>2
<1>5. CASE Exit \/ StopExecutor \/ FinalPush
  BY <1>5 DEF Exit, StopExecutor, FinalPush, Goto, Aside, pushVars
<1>6. CASE ReadDataLast \/ PublishLast \/ PublishLastFails
  BY <1>6 DEF ReadDataLast, PublishLast, PublishLastFails, Goto
<1>7. CASE StartPush
  BY <1>7 DEF StartPush, pusherOnly
<1>8. CASE PushData \/ PushMetadata
  BY <1>8 DEF PushData, PushMetadata, pusherOnly
<1>9. CASE PushFails \/ ClearNeedsPush
  BY <1>9 DEF PushFails, ClearNeedsPush, pusherOnly
<1>10. CASE UNCHANGED vars
  BY <1>10 DEF vars, pushVars
<1>11. QED
  BY <1>1, <1>2, <1>3, <1>4, <1>5, <1>6, <1>7, <1>8, <1>9, <1>10
     DEF RecordingNext, Ending, Pusher

(* Who changes what an upload reads and what it has read.                   *)
Published == <<info, episodes, log, orphaned>>

LEMMA StepPublished ==
  ASSUME WriterInv, RecordingTypes, LockIInv, [RecordingNext]_vars
  PROVE  \/ UNCHANGED Published
         \/ main = "saving" /\ UNCHANGED <<hub, pusher, snapshot, queued>>
         \/ main = "exit" /\ main' = "teardown" /\ UNCHANGED <<info, log, orphaned, hub, pusher, snapshot>>
<1> USE DEF Published
<1>1. UNCHANGED writerVars \/ Collects => UNCHANGED Published
  BY DEF writerVars, Collects, disk, history
<1>2. CASE Operator \/ Capture \/ Pusher \/ UNCHANGED vars
  BY <1>1, <1>2, OperatorWriter, CaptureWriter, PusherWriter DEF vars
<1>3. CASE LeaveLoop \/ SaveLast \/ AcquireToSave \/ AfterSave \/ StopExecutor \/ FinalPush
           \/ ReadDataLast \/ PublishLast \/ PublishLastFails
  BY <1>1, <1>3 DEF LeaveLoop, SaveLast, AcquireToSave, AfterSave, StopExecutor, FinalPush,
                    ReadDataLast, PublishLast, PublishLastFails
<1>4. CASE SaveStep \/ SaveSucceeds \/ SaveFails
  BY <1>4 DEF SaveStep, SaveSucceeds, SaveFails, KeepKeys, Goto
<1>5. CASE Exit
  BY <1>5 DEF Exit, Goto, Finalize, Aside, pushVars
<1>6. QED
  BY <1>2, <1>3, <1>4, <1>5 DEF RecordingNext, Ending

(* An upload reads whole episodes: the lock, or the end of the loop, keeps  *)
(* a save away.                                                             *)
SnapshotSound ==
  /\ ~orphaned /\ (pusher = "metadata" \/ main = "uploading") => snapshot.rows = info.frames
  /\ main = "uploading" => snapshot.closed

LEMMA StepSnapshotSound ==
  ASSUME WriterInv, RecordingTypes, LockIInv, OneSession, QueueSound, SnapshotSound,
         [RecordingNext]_vars
  PROVE  SnapshotSound'
<1>1. main = "saving" \/ main = "exit" => pusher # "metadata" \/ main = "exit"
  BY DEF LockIInv
<1>2. ASSUME ReadData, UNCHANGED <<info, orphaned>>, main # "saving"
      PROVE  /\ ~orphaned' => snapshot'.rows = info'.frames
             /\ status = "finalized" => snapshot'.closed
  <2>1. saving = "idle"
    BY <1>2 DEF LockIInv
  <2>2. /\ snapshot'.rows = Len(Rows)
        /\ snapshot'.closed = (\A f \in DOMAIN data : data[f].closed)
    BY <1>2 DEF ReadData
  <2>3. DOMAIN data = 1..Len(data)
    BY DEF WriterInv, DiskInv, DiskTypes
  <2>4. status = "finalized" => \A f \in DOMAIN data : data[f].closed
    BY <2>3 DEF OneSession, FilesUsed
  <2>5. ~orphaned => Len(Rows) = info.frames
    BY <2>1, RowsCounted DEF OneSession
  <2>6. QED
    BY <1>2, <2>2, <2>4, <2>5
<1>3. CASE ReadDataLast
  <2>1. ReadData /\ UNCHANGED <<info, orphaned, pusher>> /\ main = "pushing" /\ main' = "uploading"
    BY <1>3 DEF ReadDataLast, writerVars, disk, history, Goto
  <2>2. status = "finalized"
    BY <2>1 DEF OneSession, StatusKnown, EndingStates
  <2>3. QED
    BY <1>2, <2>1, <2>2 DEF SnapshotSound
<1>4. CASE PushData
  <2>1. ReadData /\ UNCHANGED <<info, orphaned, main>> /\ pusher = "data"
    BY <1>4 DEF PushData, pusherOnly, writerVars, disk, history
  <2>2. main # "saving" /\ main # "uploading"
    BY <2>1 DEF LockIInv, QueueSound, EndingStates
  <2>3. QED
    BY <1>2, <2>1, <2>2 DEF SnapshotSound
<1>5. CASE ~ReadDataLast /\ ~PushData
  <2>1. /\ UNCHANGED snapshot
        /\ pusher' = "metadata" => pusher = "metadata"
        /\ main' = "uploading" => main = "uploading"
    <3>1. CASE Operator
      BY <3>1 DEF Operator, Shutdown, PressSave, PressPush, PressArrow, pushVars
    <3>2. CASE Capture
      BY <3>2 DEF Capture, Tick, TickWithoutFrame, TickFails, KeepEpisode, Rotate, ChangePhase,
                ServePush, CaptureToRing, CaptureLive, StartEpisode, EndEpisode, HighlightFails,
                EndPolicyLoop, EndResetLoop, Rerecord, Keep, Goes, Goto, NextStep, NextEpisode,
                Aside, pushVars
    <3>3. CASE Ending
      BY <1>5, <3>3 DEF Ending, LeaveLoop, SaveLast, AcquireToSave, SaveStep, SaveSucceeds, SaveFails,
                  AfterSave, Exit, StopExecutor, FinalPush, PublishLast, PublishLastFails, Goto,
                  NextEpisode, Aside, pushVars, KeepKeys
    <3>4. CASE Pusher
      BY <1>5, <3>4 DEF Pusher, StartPush, PushMetadata, PushFails, ClearNeedsPush, pusherOnly
    <3>5. CASE UNCHANGED vars
      BY <3>5 DEF vars, pushVars
    <3>6. QED
      BY <3>1, <3>2, <3>3, <3>4, <3>5 DEF RecordingNext
  <2>2. CASE UNCHANGED <<info, orphaned>>
    BY <2>1, <2>2 DEF SnapshotSound
  <2>3. CASE main = "saving"
    <3>1. pusher # "metadata"
      BY <2>3 DEF LockIInv
    <3>2. QED
      BY <2>1, <2>3, <3>1 DEF SnapshotSound
  <2>4. QED
    BY <2>2, <2>3, StepPublished DEF Published
<1>6. QED
  BY <1>3, <1>4, <1>5

-----------------------------------------------------------------------------
(* What the Hub holds. *)

(* Whatever is done in the end, an upload published the last state.         *)
LEMMA FinishedWriter ==
  ASSUME WriterInv, OneSession, main \in EndingStates
  PROVE  DoneComplete /\ Readable /\ Len(episodes) = Len(log)
<1>1. status = "finalized"
  BY DEF OneSession, StatusKnown
<1>2. data \in Seq(DataFile) /\ episodes \in Seq(Episode)
  BY DEF WriterInv, DiskInv, DiskTypes, MetaInv, MetaTypes
<1>3. Readable
  <2>1. ~meta_torn /\ ~meta_writer
    BY <1>1 DEF OneSession, FilesUsed, WriterInv, DiskInv, FilesSound
  <2>2. \A f \in DOMAIN data : data[f].closed
    BY <1>1, <1>2 DEF OneSession, FilesUsed
  <2>3. QED
    BY <2>1, <2>2 DEF Readable
<1>4. Len(episodes) = Len(log)
  <2>1. metadata_buffer = <<>> /\ Len(log) = Len(AllEpisodes)
    BY <1>1 DEF WriterInv, MetaInv, Bookkeeping
  <2>2. AllEpisodes = episodes
    BY <1>2, <2>1 DEF AllEpisodes
  <2>3. QED
    BY <2>1, <2>2
<1>5. ReadBack
  BY DiskAgreesInductive DEF WriterInv, DiskAgrees
<1>6. QED
  BY <1>3, <1>4, <1>5 DEF DoneComplete

LEMMA HubChanges ==
  ASSUME [RecordingNext]_vars
  PROVE  \/ UNCHANGED hub
         \/ Publish /\ ((pusher = "metadata" /\ UNCHANGED main) \/ main = "uploading")
            /\ UNCHANGED <<writerVars, needs_push, failed>>
<1>1. CASE Operator
  BY <1>1 DEF Operator, Shutdown, PressSave, PressPush, PressArrow, pushVars
<1>2. CASE Capture
  BY <1>2 DEF Capture, Tick, TickWithoutFrame, TickFails, KeepEpisode, Rotate, ChangePhase,
              ServePush, CaptureToRing, CaptureLive, StartEpisode, EndEpisode, HighlightFails,
              EndPolicyLoop, EndResetLoop, Rerecord, Keep, Aside, pushVars
<1>3. CASE Ending
  BY <1>3 DEF Ending, LeaveLoop, SaveLast, AcquireToSave, SaveStep, SaveSucceeds, SaveFails,
              AfterSave, Exit, StopExecutor, FinalPush, ReadDataLast, PublishLast,
              PublishLastFails, Goto, Aside, pushVars, KeepKeys
<1>4. CASE Pusher
  BY <1>4 DEF Pusher, StartPush, PushData, PushMetadata, PushFails, ClearNeedsPush, pusherOnly
<1>5. CASE UNCHANGED vars
  BY <1>5 DEF vars, pushVars
<1>6. QED
  BY <1>1, <1>2, <1>3, <1>4, <1>5 DEF RecordingNext

LEMMA StepHubConsistent ==
  ASSUME WriterInv, RecordingTypes, LockIInv, SnapshotSound, HubConsistent, [RecordingNext]_vars
  PROVE  HubConsistent'
<1>1. orphaned => orphaned'
  <2>1. UNCHANGED writerVars \/ Collects => UNCHANGED orphaned
    BY DEF writerVars, Collects, history
  <2>2. SaveSteps /\ orphaned => orphaned'
    BY DEF SaveSteps, SaveData, SaveMetadata, Finalize, SaveVideos, SaveVideosFails, SaveRaises, history
  <2>3. QED
    BY <2>1, <2>2, StepWriter
<1>2. CASE UNCHANGED hub
  BY <1>1, <1>2 DEF HubConsistent
<1>3. CASE Publish /\ (pusher = "metadata" \/ main = "uploading") /\ UNCHANGED writerVars
  <2>1. hub'.rows = snapshot.rows /\ hub'.frames = info.frames /\ UNCHANGED orphaned
    BY <1>3 DEF Publish, writerVars, history
  <2>2. QED
    BY <1>3, <2>1 DEF HubConsistent, SnapshotSound
<1>4. QED
  BY <1>2, <1>3, HubChanges DEF writerVars

(* An upload of the teardown that succeeds leaves nothing out.              *)
LastPushPublished ==
  main = "done" /\ ~failed /\ (Flagged => needs_push) /\ info.episodes > 0 =>
    hub.readable /\ hub.episodes = Len(log)

LEMMA StepLastPush ==
  ASSUME WriterInv, RecordingTypes, LockIInv, OneSession, QueueSound, SnapshotSound, LastPushPublished,
         [RecordingNext]_vars
  PROVE  LastPushPublished'
<1>1. SUFFICES ASSUME main' = "done"
               PROVE  LastPushPublished'
  BY DEF LastPushPublished
<1>2. CASE main = "done"
  <2>1. pusher = "idle" /\ queued = 0
    BY <1>2 DEF QueueSound, EndingStates
  <2>2. UNCHANGED <<info, log>>
    BY <1>2, StepPublished DEF Published
  <2>3. UNCHANGED <<failed, needs_push, strategy>>
    <3>1. ~Capture /\ ~Ending
      BY <1>2 DEF Capture, Tick, TickWithoutFrame, TickFails, KeepEpisode, Rotate, ChangePhase,
              ServePush, CaptureToRing, CaptureLive, StartEpisode, EndEpisode, HighlightFails,
              EndPolicyLoop, EndResetLoop, Rerecord, Keep, Goes, Goto,
              Ending, LeaveLoop, SaveLast, AcquireToSave, SaveStep, SaveSucceeds, SaveFails,
              AfterSave, Exit, StopExecutor, FinalPush, ReadDataLast, PublishLast, PublishLastFails
    <3>2. ~Pusher
      BY <2>1 DEF Pusher, StartPush, PushData, PushMetadata, PushFails, ClearNeedsPush
    <3>3. Operator \/ UNCHANGED vars
      BY <3>1, <3>2 DEF RecordingNext
    <3>4. QED
      BY <3>3 DEF Operator, Shutdown, PressSave, PressPush, PressArrow, pushVars, vars
  <2>4. UNCHANGED hub
    BY <1>2, <2>1, HubChanges
  <2>5. QED
    BY <1>2, <2>2, <2>3, <2>4 DEF LastPushPublished, Flagged
<1>3. CASE main # "done"
  <2>1. PublishLast \/ PublishLastFails \/ FinalPush
    BY <1>1, <1>3 DEF RecordingNext, Operator, Shutdown, PressSave, PressPush, PressArrow,
          Capture, Tick, TickWithoutFrame, TickFails, KeepEpisode, Rotate, ChangePhase,
          ServePush, CaptureToRing, CaptureLive, StartEpisode, EndEpisode, HighlightFails,
          EndPolicyLoop, EndResetLoop, Rerecord, Keep, Goes, Goto, NextStep, NextEpisode,
          Ending, LeaveLoop, SaveLast, AcquireToSave, SaveStep, SaveSucceeds, SaveFails,
          AfterSave, Exit, StopExecutor, ReadDataLast, Pusher, StartPush, PushData, PushMetadata,
          PushFails, ClearNeedsPush, pusherOnly, vars
  <2>2. CASE PublishLastFails
    BY <2>2 DEF PublishLastFails, LastPushPublished
  <2>3. CASE FinalPush
    <3>1. ~Pushes /\ UNCHANGED <<info, strategy, needs_push>>
      BY <1>1, <2>3 DEF FinalPush, Goto, Aside, pushVars, writerVars, disk
    <3>2. QED
      BY <3>1 DEF Pushes, LastPushPublished, Flagged, WriterInv, MetaInv, MetaTypes
  <2>4. CASE PublishLast
    <3>1. main = "uploading" /\ Publish /\ UNCHANGED <<info, log>>
      BY <2>4 DEF PublishLast, Goto, writerVars, disk, history
    <3>2. Readable /\ Len(episodes) = Len(log)
      BY <3>1, FinishedWriter DEF EndingStates
    <3>3. hub'.readable = (snapshot.closed /\ ~meta_writer) /\ hub'.episodes = Len(episodes)
      BY <3>1 DEF Publish
    <3>4. QED
      BY <3>1, <3>2, <3>3 DEF SnapshotSound, Readable, LastPushPublished
  <2>5. QED
    BY <2>1, <2>2, <2>3, <2>4
<1>4. QED
  BY <1>2, <1>3

(* What the Hub counts is there: when it was published, all but the         *)
(* buffered metadata of the episodes it counts was on disk.                 *)
HubCounts ==
  /\ hub.known <= info.episodes
  /\ hub.known = info.episodes => /\ hub.frames = info.frames
                                  /\ info.episodes < hub.episodes + MetadataBufferSize

(* Fewer episodes than the buffer holds are not on disk.                    *)
BufferNotFull == Len(metadata_buffer) < MetadataBufferSize

LEMMA StepBufferNotFull ==
  ASSUME WriterInv, RecordingTypes, LockIInv, BufferNotFull, [RecordingNext]_vars
  PROVE  BufferNotFull'
<1>1. UNCHANGED writerVars \/ Collects => UNCHANGED metadata_buffer
  BY DEF writerVars, Collects, memory
<1>2. SaveData \/ SaveVideos \/ SaveVideosFails \/ SaveRaises => UNCHANGED metadata_buffer
  BY DEF SaveData, SaveVideos, SaveVideosFails, SaveRaises, memory
<1>3. Finalize => Len(metadata_buffer') = 0
  BY DEF Finalize
<1>4. ASSUME SaveMetadata PROVE BufferNotFull'
  <2> DEFINE buffered == Append(metadata_buffer, NewEpisode)
  <2>1. metadata_buffer' = IF Len(buffered) >= MetadataBufferSize THEN <<>> ELSE buffered
    BY <1>4 DEF SaveMetadata, BufferMetadata
  <2>2. metadata_buffer' = <<>> \/ ~(Len(metadata_buffer') >= MetadataBufferSize)
    BY <2>1
  <2>3. Len(metadata_buffer') \in Nat /\ MetadataBufferSize \in Nat \ {0}
    BY StepWriter, WriterAssumption DEF WriterAssumption, WriterInv, MetaInv, MetaTypes
  <2>4. metadata_buffer' = <<>> => Len(metadata_buffer') = 0
    OBVIOUS
  <2> HIDE DEF buffered
  <2>5. QED
    BY <2>2, <2>3, <2>4 DEF BufferNotFull
<1>5. QED
  BY <1>1, <1>2, <1>3, <1>4, StepWriter, WriterAssumption
     DEF SaveSteps, BufferNotFull, WriterAssumption

LEMMA StepHubCounts ==
  ASSUME WriterInv, RecordingTypes, LockIInv, OneSession, BufferNotFull, HubCounts,
         [RecordingNext]_vars
  PROVE  HubCounts'
<1>1. info.episodes \in Nat /\ hub \in Hub
  BY DEF WriterInv, MetaInv, MetaTypes, RecordingTypes, OtherTypes
<1>2. CASE UNCHANGED <<hub, info>>
  BY <1>2 DEF HubCounts
<1>3. CASE UNCHANGED hub /\ info'.episodes = info.episodes + 1
  BY <1>1, <1>3 DEF HubCounts, Hub
<1>4. CASE Publish /\ UNCHANGED writerVars
  <2>1. /\ hub'.known = info.episodes /\ hub'.frames = info.frames
        /\ hub'.episodes = Len(episodes) /\ UNCHANGED info
    BY <1>4 DEF Publish, writerVars, disk
  <2>2. info.episodes = Len(AllEpisodes)
    BY DEF WriterInv, MetaInv, Bookkeeping, OneSession, FilesUsed
  <2>3. Len(AllEpisodes) = Len(episodes) + Len(metadata_buffer)
    BY DEF AllEpisodes, WriterInv, MetaInv, MetaTypes
  <2>4. Len(episodes) \in Nat /\ Len(metadata_buffer) \in Nat /\ MetadataBufferSize \in Nat
    BY WriterAssumption DEF WriterAssumption, WriterInv, MetaInv, MetaTypes
  <2>5. QED
    BY <2>1, <2>2, <2>3, <2>4 DEF HubCounts, BufferNotFull
<1>5. UNCHANGED info \/ info'.episodes = info.episodes + 1
  <2>1. UNCHANGED writerVars \/ Collects => UNCHANGED info
    BY DEF writerVars, Collects, disk
  <2>2. SaveSteps => UNCHANGED info \/ info'.episodes = info.episodes + 1
    BY DEF SaveSteps, SaveData, SaveMetadata, Finalize, SaveVideos, SaveVideosFails, SaveRaises,
           disk
  <2>3. QED
    BY <2>1, <2>2, StepWriter
<1>6. QED
  BY <1>2, <1>3, <1>4, <1>5, HubChanges

-----------------------------------------------------------------------------
(* All of it.                                                               *)
RecordingInv ==
  /\ WriterInv /\ RecordingTypes
  /\ FlagInv
  /\ OneSession /\ QueueSound /\ SnapshotSound
  /\ HubConsistent /\ LastPushPublished
  /\ BufferNotFull /\ HubCounts

LEMMA InitRecording == Init => RecordingInv
<1> SUFFICES ASSUME Init
             PROVE  RecordingInv
  OBVIOUS
<1>1. WriterInv
  BY InitMeta, InitDisk DEF Init, WriterInv
<1>2. FlagInv
  BY InitLock
<1>3. SwitchTypes
  BY DEF Init, SwitchTypes
<1>4. OtherTypes
  BY DEF Init, OtherTypes, Snapshot, Hub
<1>5. OneSession
  BY DEF Init, WriterInit, OneSession, FilesUsed, StatusKnown, EndingStates
<1>6. QueueSound /\ SnapshotSound /\ HubConsistent /\ LastPushPublished
  BY DEF Init, QueueSound, SnapshotSound, HubConsistent, LastPushPublished, EndingStates
<1>7. BufferNotFull /\ HubCounts
  BY WriterAssumption DEF WriterAssumption, Init, WriterInit, BufferNotFull, HubCounts
<1>8. QED
  BY <1>1, <1>2, <1>3, <1>4, <1>5, <1>6, <1>7 DEF RecordingInv, RecordingTypes

LEMMA StepRecording == RecordingInv /\ [RecordingNext]_vars => RecordingInv'
<1> SUFFICES ASSUME RecordingInv, [RecordingNext]_vars
             PROVE  RecordingInv'
  OBVIOUS
<1> USE DEF RecordingInv, FlagInv
<1>1. WriterInv' /\ (UNCHANGED writerVars \/ Collects \/ SaveSteps)
  BY StepWriter
<1>2. FlagInv'
  BY StepLock
<1>3. OtherTypes'
  <2>1. clock \in Nat
    BY DEF WriterInv, MetaInv, MetaTypes
  <2>2. UNCHANGED vars => OtherTypes'
    BY DEF vars, RecordingTypes, OtherTypes, pushVars, ringVars, keyVars
  <2>3. QED
    BY <2>1, <2>2, OperatorTypes, CaptureTypes, EndingTypes, PusherTypes
       DEF RecordingNext, RecordingTypes, QueueSound
<1>4. OneSession'
  BY <1>1, StepFilesUsed, StepStatusKnown DEF OneSession
<1>5. SwitchTypes' /\ QueueSound' /\ SnapshotSound' /\ HubConsistent' /\ LastPushPublished'
  BY StepSwitches, StepQueueSound, StepSnapshotSound, StepHubConsistent, StepLastPush
     DEF RecordingTypes
<1>6. BufferNotFull' /\ HubCounts'
  BY StepBufferNotFull, StepHubCounts
<1>7. QED
  BY <1>1, <1>2, <1>3, <1>4, <1>5, <1>6 DEF RecordingTypes

(* A clear flag means that all was uploaded.                                *)
LEMMA RecordingUploads == RecordingInv => NeedsPushSound
<1> SUFFICES ASSUME RecordingInv, Flagged, main # "saved", ~needs_push
             PROVE  Uploaded
  BY DEF NeedsPushSound
<1>1. hub.known = info.episodes
  BY DEF RecordingInv, FlagInv, FlagsUnpushed
<1>2. QED
  BY <1>1 DEF RecordingInv, HubCounts, HubConsistent, Uploaded

LEMMA RecordingSaves == RecordingInv => SavedSound
<1> SUFFICES ASSUME RecordingInv
             PROVE  SavedSound
  OBVIOUS
<1>1. WriterTypeOK
  BY DiskAgreesInductive DEF RecordingInv, WriterInv, DiskAgrees
<1>2. {shutdown, save_requested, push_requested, rerecord, exit_early, live} \subseteq BOOLEAN
  BY DEF RecordingInv, RecordingTypes, SwitchTypes
<1>3. TypeOK
  BY <1>1, <1>2 DEF RecordingInv, RecordingTypes, SwitchTypes, OtherTypes, TypeOK
<1>4. DoneComplete
  BY FinishedWriter DEF RecordingInv, EndingStates, DoneComplete
<1>5. DonePublished
  BY RecordingUploads DEF RecordingInv, LastPushPublished, NeedsPushSound, DonePublished
<1>6. QED
  BY <1>3, <1>4, <1>5 DEF RecordingInv, SavedSound

(* What is saved is saved whole: the dataset of a session that ended is     *)
(* complete and readable on disk, whatever failed.  Unless the upload of    *)
(* the teardown failed it is so on the Hub too - or a background push had   *)
(* cleared needs_push, and the Hub has the rows and counts of every episode *)
(* but perhaps not its metadata and footers.  An upload on the way never    *)
(* mixes two moments.                                                       *)
THEOREM SavedIsSound == RecordingSpec => []SavedSound
<1>1. RecordingSpec => []RecordingInv
  BY InitRecording, StepRecording, PTL DEF RecordingSpec
<1>2. QED
  BY <1>1, RecordingSaves, PTL

(* Sentry and DAgger: while needs_push is clear the Hub counts every        *)
(* episode of info.json and has its rows, and lacks the metadata of fewer   *)
(* episodes than the buffer holds; any other episode is flagged, so that    *)
(* the teardown uploads it.                                                 *)
THEOREM UnpushedIsFlagged == RecordingSpec => []NeedsPushSound
<1>1. RecordingSpec => []RecordingInv
  BY InitRecording, StepRecording, PTL DEF RecordingSpec
<1>2. QED
  BY <1>1, RecordingUploads, PTL

-----------------------------------------------------------------------------
(* What is captured.  Frames are numbered in the order of the clock; those  *)
(* saved, those collected and those in the ring buffer follow each other.   *)
Consecutive(s) == \A j \in 1..(Len(s) - 1) : s[j + 1] = s[j] + 1

Before(s, t) == \A j \in 1..Len(s) : \A k \in 1..Len(t) : s[j] < t[k]

(* Some episodes and when they were captured.                               *)
Ordered(eps, now) ==
  /\ \A i \in 1..Len(eps) : eps[i] # <<>> /\ \A j \in 1..Len(eps[i]) : eps[i][j] <= now
  /\ \A i, k \in 1..Len(eps) : i < k => Before(eps[i], eps[k])

(* Captured, and after everything that is saved.                            *)
Pending(s, now, eps) ==
  /\ \A j \in 1..Len(s) : s[j] \in 1..now
  /\ \A i \in 1..Len(eps) : Before(eps[i], s)

LogSound ==
  /\ Ordered(log, clock)
  /\ strategy # "continuous" => \A i \in 1..Len(log) : Consecutive(log[i])

(* What is collected is the take that goes on.                              *)
CollectedSound ==
  /\ Pending(episode_buffer.frames, clock, log)
  /\ strategy # "continuous" => Consecutive(episode_buffer.frames)
  /\ strategy # "continuous" /\ main \in {"loop", "rotate"} /\ episode_buffer.frames # <<>> =>
       episode_buffer.frames[Len(episode_buffer.frames)] = clock

(* Where nothing is collected, and where the ring buffer is empty.          *)
ModesSound ==
  /\ strategy # "highlight" => ~live /\ ~save_requested /\ ring = <<>>
  /\ live => ring = <<>>
  /\ strategy = "highlight" /\ main \in {"wait", "saving", "saved"} => live
  /\ main \in {"reset", "decide"} => strategy = "episodic"
  /\ main = "rotate" => strategy \in {"sentry", "continuous"}
  /\ main = "saved" => episode_buffer.frames = <<>>
  /\ main = "loop" /\ strategy = "highlight" /\ ~live => episode_buffer.frames = <<>>
  /\ main = "loop" /\ strategy = "corrections" /\ phase # "correcting" =>
       episode_buffer.frames = <<>>

(* The bytes that stay counted never make up for a frame: the ring buffer   *)
(* only shrinks when it is emptied.                                         *)
RingSound ==
  /\ Pending(ring, clock, log) /\ Consecutive(ring)
  /\ ring # <<>> => ring[Len(ring)] = clock
  /\ ring_bytes <= RingBytes /\ Len(ring) <= RingFrames
  /\ ring = <<>> => ring_bytes = 0
  /\ Len(ring) < RingFrames => ring_bytes = Len(ring)
  /\ ring # <<>> /\ Len(ring) < RingFrames /\ Len(ring) < RingBytes => ring[1] = emptied + 1
  /\ ring = <<>> /\ main = "loop" /\ strategy = "highlight" /\ ~live => emptied = clock

CapturedInv == NeverEmpty /\ LogSound /\ CollectedSound /\ ModesSound /\ RingSound

-----------------------------------------------------------------------------
LEMMA LaterOrdered ==
  ASSUME NEW eps \in Seq(Seq(Nat)), NEW now \in Nat, NEW later \in Nat, later >= now,
         Ordered(eps, now)
  PROVE  Ordered(eps, later)
<1>1. ASSUME NEW i \in 1..Len(eps), NEW j \in 1..Len(eps[i])
      PROVE  eps[i][j] <= later
  <2>1. eps[i] \in Seq(Nat)
    OBVIOUS
  <2>2. eps[i][j] \in Nat /\ eps[i][j] <= now
    BY <2>1 DEF Ordered
  <2>3. QED
    BY <2>2
<1>2. QED
  BY <1>1 DEF Ordered

LEMMA LaterPending ==
  ASSUME NEW eps, NEW s \in Seq(Nat), NEW now \in Nat, NEW later \in Nat, later >= now,
         Pending(s, now, eps)
  PROVE  Pending(s, later, eps)
<1>1. ASSUME NEW j \in 1..Len(s)
      PROVE  s[j] <= later
  <2>1. s[j] \in Nat /\ s[j] <= now
    BY DEF Pending
  <2>2. QED
    BY <2>1
<1>2. QED
  BY <1>1 DEF Pending

LEMMA NothingPending ==
  ASSUME NEW eps, NEW now
  PROVE  Pending(<<>>, now, eps) /\ Consecutive(<<>>)
<1>1. Len(<<>>) = 0 /\ 1..0 = {} /\ 1..(0 - 1) = {}
  OBVIOUS
<1>2. QED
  BY <1>1 DEF Pending, Before, Consecutive

(* The next frame goes on with a take.                                      *)
LEMMA AppendPending ==
  ASSUME NEW eps \in Seq(Seq(Nat)), NEW s \in Seq(Nat), NEW now \in Nat,
         Ordered(eps, now), Pending(s, now, eps)
  PROVE  Pending(Append(s, now + 1), now + 1, eps)
<1> DEFINE t == Append(s, now + 1)
<1>1. /\ Len(t) = Len(s) + 1 /\ Len(s) \in Nat
      /\ \A j \in 1..Len(s) : t[j] = s[j] /\ s[j] \in Nat
      /\ t[Len(s) + 1] = now + 1
  OBVIOUS
<1> HIDE DEF t
<1>places. \A k \in 1..Len(t) : k \in 1..Len(s) \/ k = Len(s) + 1
  BY <1>1
<1>2. ASSUME NEW j \in 1..Len(t)
      PROVE  t[j] \in 1..(now + 1)
  <2>1. CASE j \in 1..Len(s)
    <3>1. s[j] \in 1..now
      BY <2>1 DEF Pending
    <3>2. QED
      BY <1>1, <2>1, <3>1
  <2>2. CASE j = Len(s) + 1
    BY <1>1, <2>2
  <2>3. QED
    BY <1>1, <2>1, <2>2
<1>3. ASSUME NEW i \in 1..Len(eps), NEW j \in 1..Len(eps[i]), NEW k \in 1..Len(t)
      PROVE  eps[i][j] < t[k]
  <2>1. eps[i] \in Seq(Nat)
    OBVIOUS
  <2>2. eps[i][j] \in Nat /\ eps[i][j] <= now
    BY <2>1 DEF Ordered
  <2>3. CASE k \in 1..Len(s)
    <3>1. eps[i][j] < s[k]
      BY <2>3 DEF Pending, Before
    <3>2. QED
      BY <1>1, <2>3, <3>1
  <2>4. CASE k = Len(s) + 1
    BY <1>1, <2>2, <2>4
  <2>5. k \in 1..Len(s) \/ k = Len(s) + 1
    BY <1>places
  <2>6. QED
    BY <2>3, <2>4, <2>5
<1>4. QED
  BY <1>2, <1>3 DEF Pending, Before, t

LEMMA AppendConsecutive ==
  ASSUME NEW s \in Seq(Nat), NEW now \in Nat, Consecutive(s), s # <<>> => s[Len(s)] = now
  PROVE  Consecutive(Append(s, now + 1))
<1> DEFINE t == Append(s, now + 1)
<1>1. /\ Len(t) = Len(s) + 1 /\ Len(s) \in Nat
      /\ \A j \in 1..Len(s) : t[j] = s[j]
      /\ t[Len(s) + 1] = now + 1
  OBVIOUS
<1> HIDE DEF t
<1>2. ASSUME NEW j \in 1..(Len(t) - 1)
      PROVE  t[j + 1] = t[j] + 1
  <2>1. CASE j \in 1..(Len(s) - 1)
    <3>1. s[j + 1] = s[j] + 1
      BY <2>1 DEF Consecutive
    <3>2. j \in 1..Len(s) /\ j + 1 \in 1..Len(s)
      BY <1>1, <2>1
    <3>3. QED
      BY <1>1, <3>1, <3>2
  <2>2. CASE j = Len(s)
    <3>1. j \in 1..Len(s) /\ s # <<>>
      BY <1>1, <2>2
    <3>2. QED
      BY <1>1, <2>2, <3>1
  <2>3. QED
    BY <1>1, <2>1, <2>2
<1>3. QED
  BY <1>2 DEF Consecutive, t

(* A take is saved.                                                         *)
LEMMA AppendOrdered ==
  ASSUME NEW eps \in Seq(Seq(Nat)), NEW s \in Seq(Nat), NEW now \in Nat,
         Ordered(eps, now), Pending(s, now, eps), s # <<>>
  PROVE  Ordered(Append(eps, s), now)
<1> DEFINE t == Append(eps, s)
<1>1. /\ Len(t) = Len(eps) + 1 /\ Len(eps) \in Nat
      /\ \A i \in 1..Len(eps) : t[i] = eps[i]
      /\ t[Len(eps) + 1] = s
  OBVIOUS
<1> HIDE DEF t
<1>2. ASSUME NEW i \in 1..Len(t)
      PROVE  t[i] # <<>> /\ \A j \in 1..Len(t[i]) : t[i][j] <= now
  <2>1. CASE i \in 1..Len(eps)
    BY <1>1, <2>1 DEF Ordered
  <2>2. CASE i = Len(eps) + 1
    BY <1>1, <2>2 DEF Pending
  <2>3. QED
    BY <1>1, <2>1, <2>2
<1>3. ASSUME NEW i \in 1..Len(t), NEW k \in 1..Len(t), i < k
      PROVE  Before(t[i], t[k])
  <2>1. i \in 1..Len(eps)
    BY <1>1, <1>3
  <2>2. CASE k \in 1..Len(eps)
    BY <1>1, <1>3, <2>1, <2>2 DEF Ordered
  <2>3. CASE k = Len(eps) + 1
    BY <1>1, <2>1, <2>3 DEF Pending
  <2>4. k \in 1..Len(eps) \/ k = Len(eps) + 1
    BY <1>1
  <2>5. QED
    BY <2>2, <2>3, <2>4
<1>4. QED
  BY <1>2, <1>3 DEF Ordered, t

(* The latest frames of the ring buffer.                                    *)
LEMMA SuffixPending ==
  ASSUME NEW eps, NEW s \in Seq(Nat), NEW now \in Nat, NEW m \in 0..Len(s),
         Pending(s, now, eps), Consecutive(s)
  PROVE  /\ SubSeq(s, m + 1, Len(s)) \in Seq(Nat)
         /\ Len(SubSeq(s, m + 1, Len(s))) = Len(s) - m
         /\ \A j \in 1..(Len(s) - m) : SubSeq(s, m + 1, Len(s))[j] = s[m + j]
         /\ Pending(SubSeq(s, m + 1, Len(s)), now, eps)
         /\ Consecutive(SubSeq(s, m + 1, Len(s)))
<1> DEFINE t == SubSeq(s, m + 1, Len(s))
<1>1. Len(s) \in Nat /\ m \in Nat /\ m <= Len(s)
  OBVIOUS
<1>2. t \in Seq(Nat) /\ Len(t) = Len(s) - m
  BY <1>1
<1>3. \A j \in 1..(Len(s) - m) : t[j] = s[m + j] /\ m + j \in 1..Len(s)
  BY <1>1
<1> HIDE DEF t
<1>4. Pending(t, now, eps)
  <2>1. ASSUME NEW j \in 1..Len(t)
        PROVE  t[j] \in 1..now /\ \A i \in 1..Len(eps) : \A k \in 1..Len(eps[i]) : eps[i][k] < t[j]
    BY <1>2, <1>3 DEF Pending, Before
  <2>2. QED
    BY <2>1 DEF Pending, Before
<1>5. Consecutive(t)
  <2>1. ASSUME NEW j \in 1..(Len(t) - 1)
        PROVE  t[j + 1] = t[j] + 1
    <3>1. /\ j \in 1..(Len(s) - m) /\ j + 1 \in 1..(Len(s) - m)
          /\ m + j \in 1..(Len(s) - 1) /\ m + (j + 1) = (m + j) + 1
      BY <1>1, <1>2
    <3>2. s[(m + j) + 1] = s[m + j] + 1
      BY <3>1 DEF Consecutive
    <3>3. QED
      BY <1>3, <3>1, <3>2
  <2>2. QED
    BY <2>1 DEF Consecutive
<1>6. QED
  BY <1>2, <1>3, <1>4, <1>5 DEF t

-----------------------------------------------------------------------------
(* Where nothing is collected. *)

LEMMA StepModesSound ==
  ASSUME WriterInv, RecordingTypes, LockIInv, ModesSound, [RecordingNext]_vars
  PROVE  ModesSound'
<1> USE DEF ModesSound
<1>1. CASE Operator
  <2>1. UNCHANGED <<main, strategy, live, ring, phase, episode_buffer>>
    BY <1>1, OperatorWriter DEF Operator, Shutdown, PressSave, PressPush, PressArrow, ringVars, writerVars
  <2>2. strategy # "highlight" => ~save_requested'
    BY <1>1 DEF Operator, Shutdown, PressSave, PressPush, PressArrow
  <2>3. QED
    BY <2>1, <2>2
<1>2. CASE Pusher \/ UNCHANGED vars
  <2>1. UNCHANGED <<main, strategy, live, ring, phase, episode_buffer, save_requested>>
    BY <1>2 DEF Pusher, StartPush, PushData, PushMetadata, PushFails, ClearNeedsPush, pusherOnly,
                ringVars, writerVars, vars, keyVars
  <2>2. QED
    BY <2>1
<1>3. CASE Tick \/ TickFails
  <2>1. /\ main = "loop" /\ main' \in {"final", NextStep}
        /\ strategy \in {"sentry", "continuous", "corrections", "episodic"}
        /\ strategy = "corrections" => phase = "correcting"
        /\ UNCHANGED <<strategy, live, ring, save_requested, phase>>
    BY <1>3 DEF Tick, TickFails, Goes, Records, Aside, ringVars, keyVars
  <2>2. strategy # "highlight" /\ ~live' /\ ~save_requested' /\ ring' = <<>>
    BY <2>1
  <2>3. /\ main' \in {"final", "loop", "rotate"}
        /\ main' = "rotate" => strategy \in {"sentry", "continuous"}
    BY <2>1 DEF NextStep, Rotates
  <2>4. strategy = "corrections" => phase' = "correcting"
    BY <2>1
  <2>5. strategy' = strategy
    BY <2>1
  <2>6. QED
    BY <2>2, <2>3, <2>4, <2>5
<1>4. CASE TickWithoutFrame \/ KeepEpisode \/ Rotate
  <2>1. /\ UNCHANGED <<strategy, live, ring, save_requested, phase, episode_buffer>>
        /\ main' \in {"rotate", "loop", "wait"}
        /\ strategy \in {"sentry", "continuous"} \/ main = "rotate"
    BY <1>4 DEF TickWithoutFrame, KeepEpisode, Rotate, Aside, Goto, ringVars, keyVars, writerVars,
                NextStep, Rotates
  <2>2. strategy \in {"sentry", "continuous"} /\ strategy' = strategy
    BY <2>1
  <2>3. ~live' /\ ~save_requested' /\ ring' = <<>>
    BY <2>1, <2>2
  <2>4. QED
    BY <2>1, <2>2, <2>3
<1>5. CASE ChangePhase
  <2>1. /\ main = "loop" /\ strategy \in {"continuous", "corrections"}
        /\ main' = (IF strategy = "corrections" /\ phase = "correcting" THEN "wait" ELSE "loop")
        /\ UNCHANGED <<strategy, live, ring, save_requested, episode_buffer>>
    BY <1>5 DEF ChangePhase, Goes, Dagger, ringVars, keyVars
  <2>2. QED
    BY <2>1
<1>6. CASE ServePush \/ CaptureToRing \/ CaptureLive
  <2>1. /\ main' = main
        /\ UNCHANGED <<strategy, live, phase, save_requested>>
        /\ UNCHANGED <<ring, episode_buffer>> \/ (strategy = "highlight" /\ main = "loop")
        /\ live => ring' = ring
        /\ live \/ episode_buffer' = episode_buffer
    BY <1>6 DEF ServePush, CaptureToRing, CaptureLive, Goes, ringVars, keyVars, writerVars
  <2>2. QED
    BY <2>1
<1>7. CASE StartEpisode
  <2>1. /\ strategy = "highlight" /\ main' = "loop"
        /\ UNCHANGED strategy /\ ring' = <<>> /\ live' = TRUE
    BY <1>7 DEF StartEpisode, Goes, Drain
  <2>2. QED
    BY <2>1
<1>8. CASE EndEpisode
  <2>1. /\ strategy = "highlight" /\ main' = "wait" /\ live
        /\ UNCHANGED <<strategy, ring, live>>
    BY <1>8 DEF EndEpisode, Goes, ringVars
  <2>2. QED
    BY <2>1
<1>9. CASE HighlightFails
  <2>1. /\ strategy = "highlight" /\ main' = "final"
        /\ UNCHANGED strategy /\ live' = live /\ (ring' = ring \/ ring' = <<>>)
    BY <1>9 DEF HighlightFails, Goes, Drain, ringVars
  <2>2. QED
    BY <2>1
<1>10. CASE EndPolicyLoop \/ EndResetLoop \/ Keep
  <2>1. /\ strategy = "episodic" /\ main' \in {"reset", "decide", "wait"}
        /\ UNCHANGED <<strategy, ring, live, save_requested>>
    BY <1>10 DEF EndPolicyLoop, EndResetLoop, Keep, Goto, Aside, ringVars, keyVars
  <2>2. QED
    BY <2>1
<1>11. CASE Rerecord
  <2>1. /\ main = "decide" /\ main' \in {"final", "loop"}
        /\ UNCHANGED <<strategy, ring, live, save_requested>>
    BY <1>11 DEF Rerecord, Goto, NextEpisode, ringVars
  <2>2. QED
    BY <2>1
<1>12. CASE LeaveLoop \/ SaveLast \/ AcquireToSave
  <2>1. /\ UNCHANGED <<strategy, ring, live, save_requested, episode_buffer>>
        /\ \/ main' \in {"final", "exit"}
           \/ main' = "wait" /\ (strategy = "highlight" => live)
           \/ main = "wait" /\ main' = "saving"
    BY <1>12 DEF LeaveLoop, SaveLast, AcquireToSave, Goto, Aside, KeepKeys, ringVars, keyVars, writerVars
  <2>2. QED
    BY <2>1
<1>13. CASE SaveStep \/ SaveFails
  <2>1. /\ main = "saving" /\ main' \in {"saving", "exit", "final"}
        /\ UNCHANGED <<strategy, ring, live, save_requested>>
    BY <1>13 DEF SaveStep, SaveFails, KeepKeys, ringVars, keyVars
  <2>2. QED
    BY <2>1
<1>14. CASE SaveSucceeds
  <2>1. /\ main = "saving" /\ main' = "saved" /\ episode_buffer'.frames = <<>>
        /\ UNCHANGED <<strategy, ring, live, save_requested>>
    BY <1>14 DEF SaveSucceeds, SaveMetadata, EmptyBuffer, Goto, KeepKeys, ringVars, keyVars
  <2>2. QED
    BY <2>1
<1>15. CASE AfterSave
  <2>1. /\ main = "saved" /\ main' \in {"exit", "final", "loop"}
        /\ UNCHANGED <<strategy, ring, save_requested, episode_buffer>>
        /\ live' = FALSE
    BY <1>15 DEF AfterSave, Goto, NextEpisode, keyVars, writerVars
  <2>2. QED
    BY <2>1
<1>16. CASE Exit \/ StopExecutor \/ FinalPush \/ ReadDataLast \/ PublishLast \/ PublishLastFails
  <2>1. /\ main' \in {"teardown", "push", "pushing", "uploading", "done"}
        /\ UNCHANGED <<strategy, ring, live, save_requested>>
    BY <1>16 DEF Exit, StopExecutor, FinalPush, ReadDataLast, PublishLast, PublishLastFails, Goto,
                 Aside, ringVars, keyVars
  <2>2. QED
    BY <2>1
<1>17. QED
  BY <1>1, <1>2, <1>3, <1>4, <1>5, <1>6, <1>7, <1>8, <1>9, <1>10, <1>11, <1>12, <1>13, <1>14,
     <1>15, <1>16 DEF RecordingNext, Capture, Ending

-----------------------------------------------------------------------------
(* Takes. *)

LEMMA StepClock ==
  ASSUME [RecordingNext]_vars
  PROVE  /\ clock' \in {clock, clock + 1}
         /\ ~SaveSucceeds => UNCHANGED log
<1>1. CASE Operator \/ Pusher \/ UNCHANGED vars
  BY <1>1, OperatorWriter, PusherWriter DEF vars, writerVars, history
<1>2. CASE Tick \/ TickFails \/ CaptureLive \/ EndEpisode \/ HighlightFails
  BY <1>2 DEF Tick, TickFails, CaptureLive, EndEpisode, HighlightFails, AddFrame, AddFrameFails,
              history
<1>3. CASE TickWithoutFrame \/ KeepEpisode \/ Rotate \/ ServePush \/ EndPolicyLoop \/ EndResetLoop
           \/ Keep
  BY <1>3 DEF TickWithoutFrame, KeepEpisode, Rotate, ServePush, EndPolicyLoop, EndResetLoop, Keep,
              writerVars, history
<1>4. CASE ChangePhase \/ CaptureToRing \/ StartEpisode \/ Rerecord
  BY <1>4 DEF ChangePhase, CaptureToRing, StartEpisode, Rerecord, NextTake, history
<1>5. CASE LeaveLoop \/ SaveLast \/ AcquireToSave \/ AfterSave \/ StopExecutor \/ FinalPush
           \/ ReadDataLast \/ PublishLast \/ PublishLastFails
  BY <1>5 DEF LeaveLoop, SaveLast, AcquireToSave, AfterSave, StopExecutor, FinalPush,
              ReadDataLast, PublishLast, PublishLastFails, writerVars, history
<1>6. CASE SaveStep \/ SaveFails \/ Exit
  BY <1>6 DEF SaveStep, SaveFails, Exit, SaveData, SaveVideos, SaveVideosFails, SaveRaises,
              Finalize, history
<1>7. CASE SaveSucceeds
  BY <1>7 DEF SaveSucceeds, SaveMetadata
<1>8. QED
  BY <1>1, <1>2, <1>3, <1>4, <1>5, <1>6, <1>7 DEF RecordingNext, Capture, Ending

LEMMA CapturedTypes ==
  ASSUME WriterInv
  PROVE  /\ clock \in Nat /\ log \in Seq(Seq(Nat))
         /\ episode_buffer \in [index : Nat, frames : Seq(Nat), keys : {"all", "uneven", "popped"}]
         /\ episode_buffer.frames \in Seq(Nat)
  BY DEF WriterInv, MetaInv, MetaTypes

LEMMA StepStrategy == [RecordingNext]_vars => UNCHANGED strategy
<1>1. Operator \/ Pusher \/ UNCHANGED vars => UNCHANGED strategy
  BY DEF Operator, Shutdown, PressSave, PressPush, PressArrow, Pusher, StartPush, PushData,
         PushMetadata, PushFails, ClearNeedsPush, pusherOnly, vars
<1>2. Capture => UNCHANGED strategy
  BY DEF Capture, Tick, TickWithoutFrame, TickFails, KeepEpisode, Rotate, ChangePhase,
         ServePush, CaptureToRing, CaptureLive, StartEpisode, EndEpisode, HighlightFails,
         EndPolicyLoop, EndResetLoop, Rerecord, Keep, Aside
<1>3. Ending => UNCHANGED strategy
  BY DEF Ending, LeaveLoop, SaveLast, AcquireToSave, SaveStep, SaveSucceeds, SaveFails,
         AfterSave, Exit, StopExecutor, FinalPush, ReadDataLast, PublishLast,
         PublishLastFails, Aside, KeepKeys
<1>4. QED
  BY <1>1, <1>2, <1>3 DEF RecordingNext

LEMMA StepEmpty ==
  ASSUME WriterInv, RecordingTypes, LockIInv, NeverEmpty, [RecordingNext]_vars
  PROVE  NeverEmpty'
<1>1. UNCHANGED writerVars \/ Collects => NeverEmpty'
  BY DEF NeverEmpty, writerVars, Collects
<1>2. SaveSteps => [Next]_writerVars
  BY DEF SaveSteps, Next
<1>3. QED
  BY <1>1, <1>2, StepWriter, StepNeverEmpty DEF WriterInv

LEMMA StepLogSound ==
  ASSUME WriterInv, RecordingTypes, NeverEmpty, LogSound, CollectedSound, [RecordingNext]_vars
  PROVE  LogSound'
<1>1. /\ clock \in Nat /\ log \in Seq(Seq(Nat)) /\ episode_buffer.frames \in Seq(Nat)
      /\ UNCHANGED strategy
  BY CapturedTypes, StepStrategy
<1>2. CASE SaveSucceeds
  <2>1. /\ clock' = clock /\ log' = Append(log, episode_buffer.frames)
        /\ episode_buffer.frames # <<>>
    BY <1>2 DEF SaveSucceeds, SaveMetadata, NeverEmpty
  <2>2. Ordered(log', clock)
    BY <1>1, <2>1, AppendOrdered DEF LogSound, CollectedSound
  <2>3. strategy # "continuous" => \A i \in 1..Len(log') : Consecutive(log'[i])
    <3>1. /\ Len(log') = Len(log) + 1 /\ Len(log) \in Nat
          /\ \A i \in 1..Len(log) : log'[i] = log[i]
          /\ log'[Len(log) + 1] = episode_buffer.frames
      BY <1>1, <2>1
    <3>2. ASSUME strategy # "continuous", NEW i \in 1..Len(log')
          PROVE  Consecutive(log'[i])
      <4>1. i \in 1..Len(log) \/ i = Len(log) + 1
        BY <3>1
      <4>2. QED
        BY <3>1, <3>2, <4>1 DEF LogSound, CollectedSound
    <3>3. QED
      BY <3>2
  <2>4. QED
    BY <1>1, <2>1, <2>2, <2>3 DEF LogSound
<1>3. CASE ~SaveSucceeds
  <2>1. clock' \in Nat /\ clock' >= clock /\ log' = log
    BY <1>1, <1>3, StepClock
  <2>2. Ordered(log, clock')
    BY <1>1, <2>1, LaterOrdered DEF LogSound
  <2>3. QED
    BY <1>1, <2>1, <2>2 DEF LogSound
<1>4. QED
  BY <1>2, <1>3

LEMMA StepCollectedSound ==
  ASSUME WriterInv, RecordingTypes, LogSound, CollectedSound, ModesSound, RingSound,
         [RecordingNext]_vars
  PROVE  CollectedSound'
<1> DEFINE frames == episode_buffer.frames
<1>1. /\ clock \in Nat /\ log \in Seq(Seq(Nat)) /\ frames \in Seq(Nat)
      /\ ring \in Seq(Nat)
      /\ UNCHANGED strategy
      /\ clock' \in {clock, clock + 1}
      /\ ~SaveSucceeds => UNCHANGED log
  BY CapturedTypes, StepStrategy, StepClock DEF RecordingTypes, OtherTypes
<1>2. ASSUME episode_buffer'.frames = frames, UNCHANGED log,
             strategy # "continuous" /\ main' \in {"loop", "rotate"} =>
               frames = <<>> \/ (clock' = clock /\ main \in {"loop", "rotate"})
      PROVE  CollectedSound'
  <2>1. Pending(frames, clock', log)
    BY <1>1, LaterPending DEF CollectedSound
  <2>2. QED
    BY <1>1, <1>2, <2>1 DEF CollectedSound
<1>3. ASSUME NEW s \in Seq(Nat), Pending(s, clock, log),
             strategy # "continuous" => Consecutive(s) /\ (s # <<>> => s[Len(s)] = clock),
             episode_buffer'.frames = Append(s, clock + 1), clock' = clock + 1, UNCHANGED log
      PROVE  CollectedSound'
  <2>1. Pending(Append(s, clock + 1), clock + 1, log)
    BY <1>1, <1>3, AppendPending DEF LogSound
  <2>2. strategy # "continuous" => Consecutive(Append(s, clock + 1))
    BY <1>1, <1>3, AppendConsecutive
  <2>3. Append(s, clock + 1)[Len(Append(s, clock + 1))] = clock + 1
    OBVIOUS
  <2>4. QED
    BY <1>1, <1>3, <2>1, <2>2, <2>3 DEF CollectedSound
<1>4. CASE Operator \/ Pusher \/ UNCHANGED vars
  <2>1. UNCHANGED <<episode_buffer, clock, log, main>>
    BY <1>4, OperatorWriter, PusherWriter
       DEF vars, writerVars, history, Operator, Shutdown, PressSave, PressPush, PressArrow, Pusher,
           StartPush, PushData, PushMetadata, PushFails, ClearNeedsPush, pusherOnly
  <2>2. QED
    BY <1>2, <2>1
<1>5. CASE Tick \/ CaptureLive \/ EndEpisode
  <2>1. AddFrame /\ main = "loop"
    BY <1>5 DEF Tick, CaptureLive, EndEpisode, Goes
  <2>2. /\ clock' = clock + 1 /\ UNCHANGED log
        /\ episode_buffer' = [episode_buffer EXCEPT !.frames = Append(frames, clock + 1)]
    BY <2>1 DEF AddFrame, history
  <2>3. episode_buffer'.frames = Append(frames, clock + 1)
    BY <2>2, CapturedTypes
  <2>4. QED
    BY <1>1, <1>3, <2>1, <2>2, <2>3 DEF CollectedSound
<1>6. CASE TickFails \/ HighlightFails
  <2>1. AddFrameFails /\ main' = "final"
    BY <1>6 DEF TickFails, HighlightFails
  <2>2. UNCHANGED log /\ episode_buffer' = [episode_buffer EXCEPT !.keys = "uneven"]
    BY <2>1 DEF AddFrameFails, history
  <2>3. episode_buffer'.frames = frames
    BY <2>2, CapturedTypes
  <2>4. QED
    BY <1>2, <2>1, <2>2, <2>3
<1>7. CASE TickWithoutFrame \/ KeepEpisode \/ Rotate \/ ServePush
  <2>1. UNCHANGED <<episode_buffer, clock, log>> /\ main \in {"loop", "rotate"}
    BY <1>7 DEF TickWithoutFrame, KeepEpisode, Rotate, ServePush, Goes, Goto, writerVars, history
  <2>2. QED
    BY <1>2, <2>1
<1>8. CASE ChangePhase
  <2>1. /\ UNCHANGED <<episode_buffer, log>> /\ main = "loop"
        /\ strategy \in {"continuous", "corrections"}
        /\ main' = IF strategy = "corrections" /\ phase = "correcting" THEN "wait" ELSE "loop"
    BY <1>8 DEF ChangePhase, Goes, Dagger, history
  <2>2. QED
    BY <1>2, <2>1 DEF ModesSound
<1>9. CASE CaptureToRing
  <2>1. /\ UNCHANGED <<episode_buffer, log>>
        /\ main = "loop" /\ strategy = "highlight" /\ ~live
    BY <1>9 DEF CaptureToRing, Goes, history
  <2>2. QED
    BY <1>2, <2>1 DEF ModesSound
<1>10. CASE StartEpisode
  <2>1. /\ main = "loop" /\ ~live /\ strategy = "highlight"
        /\ clock' = clock + 1 /\ UNCHANGED log
        /\ episode_buffer' = [episode_buffer EXCEPT !.frames = (frames \o ring) \o <<clock + 1>>]
    BY <1>10 DEF StartEpisode, Goes, history, ModesSound
  <2>2. frames = <<>>
    BY <2>1 DEF ModesSound
  <2>3. (frames \o ring) \o <<clock + 1>> = Append(ring, clock + 1)
    <3>1. <<>> \o ring = ring
      BY <1>1
    <3>2. QED
      BY <1>1, <2>2, <3>1
  <2>4. episode_buffer'.frames = Append(ring, clock + 1)
    <3>1. episode_buffer' = [episode_buffer EXCEPT !.frames = Append(ring, clock + 1)]
      BY <2>1, <2>3
    <3>2. QED
      BY <3>1, CapturedTypes
  <2>5. QED
    BY <1>1, <1>3, <2>1, <2>4 DEF RingSound
<1>11. CASE EndPolicyLoop \/ EndResetLoop \/ Keep
  <2>1. /\ UNCHANGED <<episode_buffer, clock, log>>
        /\ main' \in {"reset", "decide", "wait"}
    BY <1>11 DEF EndPolicyLoop, EndResetLoop, Keep, Goto, writerVars, history
  <2>2. QED
    BY <1>2, <2>1
<1>12. CASE Rerecord
  <2>1. UNCHANGED log /\ episode_buffer'.frames = <<>>
    BY <1>12 DEF Rerecord, EmptyBuffer, history
  <2>2. QED
    BY <1>1, <2>1, NothingPending DEF CollectedSound
<1>13. CASE LeaveLoop \/ SaveLast \/ AcquireToSave \/ StopExecutor \/ FinalPush
           \/ ReadDataLast \/ PublishLast \/ PublishLastFails \/ Exit
  <2>1. /\ UNCHANGED <<episode_buffer, clock, log>>
        /\ main' \notin {"loop", "rotate"}
    BY <1>13 DEF LeaveLoop, SaveLast, AcquireToSave, StopExecutor, FinalPush, ReadDataLast,
              PublishLast, PublishLastFails, Exit, Finalize, Goto, writerVars, history
  <2>2. QED
    BY <1>2, <2>1
<1>14. CASE AfterSave
  <2>1. UNCHANGED <<episode_buffer, clock, log>> /\ main = "saved"
    BY <1>14 DEF AfterSave, Goto, writerVars, history
  <2>2. frames = <<>>
    BY <2>1 DEF ModesSound
  <2>3. episode_buffer'.frames = <<>>
    BY <2>1, <2>2
  <2>4. QED
    BY <2>3, NothingPending DEF CollectedSound
<1>15. CASE SaveStep \/ SaveFails
  <2>1. /\ UNCHANGED log /\ main' \in {"saving", "exit", "final"}
        /\ \/ episode_buffer' = episode_buffer
           \/ episode_buffer' = [episode_buffer EXCEPT !.keys = "popped"]
    BY <1>15 DEF SaveStep, SaveFails, SaveData, SaveVideos, SaveVideosFails, SaveRaises, history
  <2>2. episode_buffer'.frames = frames
    BY <2>1, CapturedTypes
  <2>3. QED
    BY <1>2, <2>1, <2>2
<1>16. CASE SaveSucceeds
  <2>1. episode_buffer'.frames = <<>>
    BY <1>16 DEF SaveSucceeds, SaveMetadata, EmptyBuffer
  <2>2. QED
    BY <2>1, NothingPending DEF CollectedSound
<1>17. QED
  BY <1>4, <1>5, <1>6, <1>7, <1>8, <1>9, <1>10, <1>11, <1>12, <1>13, <1>14, <1>15, <1>16
     DEF RecordingNext, Capture, Ending

-----------------------------------------------------------------------------
(* The ring buffer. *)

LEMMA AppendsToRing ==
  ASSUME WriterInv, RecordingTypes, LogSound, RingSound, strategy = "highlight", main = "loop",
         ~live, RingAppend(clock + 1), clock' = clock + 1,
         UNCHANGED <<log, strategy, main, emptied, live>>
  PROVE  RingSound'
<1>1. /\ clock \in Nat /\ log \in Seq(Seq(Nat)) /\ ring \in Seq(Nat) /\ ring_bytes \in Nat
      /\ emptied \in Nat /\ RingBytes \in Nat \ {0} /\ RingFrames \in Nat \ {0}
      /\ Len(ring) \in Nat
  BY CapturedTypes, StrategyAssumption DEF StrategyAssumption, RecordingTypes, OtherTypes
<1>2. /\ Pending(ring, clock, log) /\ Consecutive(ring)
      /\ ring # <<>> => ring[Len(ring)] = clock
      /\ ring_bytes <= RingBytes /\ Len(ring) <= RingFrames
      /\ ring = <<>> => ring_bytes = 0
      /\ Len(ring) < RingFrames => ring_bytes = Len(ring)
      /\ ring # <<>> /\ Len(ring) < RingFrames /\ Len(ring) < RingBytes => ring[1] = emptied + 1
      /\ ring = <<>> => emptied = clock
  BY DEF RingSound
<1>3. /\ Evicted \in {0, 1} /\ Evicted <= Len(ring)
      /\ Evicted = 1 => ring_bytes = RingBytes
      /\ Evicted = 0 => ring_bytes < RingBytes
  <2>1. ring = <<>> <=> Len(ring) = 0
    BY <1>1
  <2>2. CASE ring_bytes + 1 > RingBytes
    <3>1. ring_bytes = RingBytes /\ ring_bytes + 1 - RingBytes = 1 /\ 1 <= Len(ring)
      BY <1>1, <1>2, <2>1, <2>2
    <3>2. Evicted = 1
      BY <2>2, <3>1, EvictedIs
    <3>3. QED
      BY <3>1, <3>2
  <2>3. CASE ~(ring_bytes + 1 > RingBytes)
    <3>1. Evicted = 0
      BY <2>3, EvictedIs
    <3>2. QED
      BY <1>1, <2>3, <3>1
  <2>4. QED
    BY <2>2, <2>3
<1> DEFINE kept == SubSeq(ring, Evicted + 1, Len(ring))
<1>4. /\ kept \in Seq(Nat) /\ Len(kept) = Len(ring) - Evicted
      /\ \A j \in 1..(Len(ring) - Evicted) : kept[j] = ring[Evicted + j]
      /\ Pending(kept, clock, log) /\ Consecutive(kept)
  <2>1. Evicted \in 0..Len(ring)
    BY <1>1, <1>3
  <2>2. \A m \in 0..Len(ring) :
          /\ SubSeq(ring, m + 1, Len(ring)) \in Seq(Nat)
          /\ Len(SubSeq(ring, m + 1, Len(ring))) = Len(ring) - m
          /\ \A j \in 1..(Len(ring) - m) : SubSeq(ring, m + 1, Len(ring))[j] = ring[m + j]
          /\ Pending(SubSeq(ring, m + 1, Len(ring)), clock, log)
          /\ Consecutive(SubSeq(ring, m + 1, Len(ring)))
    BY <1>1, <1>2, SuffixPending
  <2>3. QED
    BY <2>1, <2>2
<1>5. kept # <<>> => kept[Len(kept)] = clock
  <2>1. SUFFICES ASSUME kept # <<>>
                 PROVE  kept[Len(kept)] = clock
    OBVIOUS
  <2> HIDE DEF kept
  <2>2. Len(kept) # 0
    BY <1>4, <2>1
  <2>3. /\ Len(ring) - Evicted \in 1..(Len(ring) - Evicted)
        /\ Evicted + (Len(ring) - Evicted) = Len(ring) /\ ring # <<>>
    BY <1>1, <1>3, <1>4, <2>2
  <2>4. QED
    BY <1>2, <1>4, <2>3
<1> HIDE DEF kept
<1> DEFINE added == Append(kept, clock + 1)
<1>6. Pending(added, clock + 1, log)
  BY <1>1, <1>4, AppendPending DEF LogSound
<1>7. Consecutive(added)
  BY <1>1, <1>4, <1>5, AppendConsecutive
<1>8. /\ added \in Seq(Nat) /\ Len(added) = Len(kept) + 1
      /\ added[Len(kept) + 1] = clock + 1
      /\ \A j \in 1..Len(kept) : added[j] = kept[j]
      /\ Len(kept) \in Nat
  BY <1>1, <1>4
<1> HIDE DEF added
<1>9. ring' = Bounded(added) /\ ring_bytes' = ring_bytes + 1 - Evicted
  BY DEF RingAppend, added, kept
<1>10. /\ ring_bytes' \in Nat /\ ring_bytes' <= RingBytes
       /\ Len(added) = Len(ring) + 1 - Evicted /\ Len(added) <= RingFrames + 1
       /\ Len(added) \in Nat \ {0}
  <2>1. Len(added) = Len(ring) - Evicted + 1 /\ Len(added) \in Nat \ {0}
    BY <1>4, <1>8
  <2>2. CASE Evicted = 0
    BY <1>1, <1>2, <1>3, <1>9, <2>1, <2>2
  <2>3. CASE Evicted = 1
    BY <1>1, <1>2, <1>3, <1>9, <2>1, <2>3
  <2>4. QED
    BY <1>3, <2>2, <2>3
<1>11. CASE Len(added) > RingFrames
  <2>1. ring' = Tail(added) /\ Len(added) = RingFrames + 1
    BY <1>1, <1>9, <1>10, <1>11 DEF Bounded
  <2>2. Tail(added) = SubSeq(added, 2, Len(added))
    BY <1>8
  <2>3. /\ Len(ring') = RingFrames /\ Pending(ring', clock + 1, log) /\ Consecutive(ring')
        /\ \A j \in 1..RingFrames : ring'[j] = added[j + 1]
    <3>1. 1 \in 0..Len(added) /\ 1 + 1 = 2
      BY <1>10
    <3>2. /\ Len(SubSeq(added, 1 + 1, Len(added))) = Len(added) - 1
          /\ \A j \in 1..(Len(added) - 1) : SubSeq(added, 1 + 1, Len(added))[j] = added[1 + j]
          /\ Pending(SubSeq(added, 1 + 1, Len(added)), clock + 1, log)
          /\ Consecutive(SubSeq(added, 1 + 1, Len(added)))
      <4>1. clock + 1 \in Nat
        BY <1>1
      <4>2. QED
        BY <1>6, <1>7, <1>8, <3>1, <4>1, SuffixPending
    <3>3. ring' = SubSeq(added, 1 + 1, Len(added)) /\ Len(added) - 1 = RingFrames
      BY <1>1, <2>1, <2>2, <3>1
    <3>4. \A j \in 1..RingFrames : 1 + j = j + 1
      BY <1>1
    <3>5. QED
      BY <3>2, <3>3, <3>4
  <2>4. ring'[Len(ring')] = clock + 1
    <3>1. RingFrames \in 1..RingFrames /\ RingFrames + 1 = Len(kept) + 1
      BY <1>1, <1>8, <2>1
    <3>2. QED
      BY <1>8, <2>3, <3>1
  <2>5. ring' # <<>>
    BY <1>1, <2>3
  <2>6. QED
    BY <1>1, <1>10, <2>3, <2>4, <2>5 DEF RingSound
<1>12. CASE ~(Len(added) > RingFrames)
  <2>1. ring' = added /\ Len(added) <= RingFrames
    BY <1>1, <1>9, <1>10, <1>12 DEF Bounded
  <2>2. ring'[Len(ring')] = clock + 1 /\ ring' # <<>>
    BY <1>8, <1>10, <2>1
  <2>3. Len(ring') < RingFrames => ring_bytes' = Len(ring')
    BY <1>1, <1>2, <1>3, <1>9, <1>10, <2>1
  <2>4. ASSUME Len(ring') < RingFrames, Len(ring') < RingBytes
        PROVE  ring'[1] = emptied + 1
    <3>1. Len(ring) < RingFrames /\ ring_bytes = Len(ring)
      <4>1. Len(ring) <= Len(ring')
        BY <1>1, <1>3, <1>10, <2>1
      <4>2. Len(ring) < RingFrames
        BY <1>1, <1>10, <2>1, <2>4, <4>1
      <4>3. QED
        BY <1>2, <4>2
    <3>2. Evicted = 0 /\ Len(ring) < RingBytes
      BY <1>1, <1>3, <1>10, <2>1, <2>4, <3>1
    <3>3. CASE ring = <<>>
      <4>1. Len(kept) = 0
        BY <1>1, <1>4, <3>2, <3>3
      <4>2. added[1] = clock + 1
        BY <1>8, <4>1
      <4>3. QED
        BY <1>2, <2>1, <3>3, <4>2
    <3>4. CASE ring # <<>>
      <4>1. 1 \in 1..Len(kept) /\ 1 \in 1..(Len(ring) - Evicted) /\ Evicted + 1 = 1
        BY <1>1, <1>4, <3>2, <3>4
      <4>2. added[1] = ring[1]
        BY <1>4, <1>8, <4>1
      <4>3. QED
        BY <1>2, <2>1, <3>1, <3>2, <3>4, <4>2
    <3>5. QED
      BY <3>3, <3>4
  <2>5. Pending(ring', clock + 1, log) /\ Consecutive(ring')
    BY <1>6, <1>7, <2>1
  <2>6. QED
    BY <1>1, <1>10, <2>1, <2>2, <2>3, <2>4, <2>5 DEF RingSound
<1>13. QED
  BY <1>11, <1>12

LEMMA StepRingSound ==
  ASSUME WriterInv, RecordingTypes, LogSound, ModesSound, RingSound, [RecordingNext]_vars
  PROVE  RingSound'
<1>1. /\ clock \in Nat /\ log \in Seq(Seq(Nat)) /\ ring \in Seq(Nat) /\ ring_bytes \in Nat
      /\ RingBytes \in Nat \ {0} /\ RingFrames \in Nat \ {0} /\ Len(<<>>) = 0
      /\ clock' \in {clock, clock + 1}
      /\ UNCHANGED strategy
  BY CapturedTypes, StrategyAssumption, StepClock, StepStrategy
     DEF StrategyAssumption, RecordingTypes, OtherTypes
<1>2. ASSUME ring' = <<>>, ring_bytes' = 0,
             main' = "loop" /\ strategy = "highlight" /\ ~live' => emptied' = clock'
      PROVE  RingSound'
  <2>1. Pending(<<>>, clock', log') /\ Consecutive(<<>>)
    BY NothingPending
  <2>2. QED
    BY <1>1, <1>2, <2>1 DEF RingSound
<1>3. ASSUME UNCHANGED <<ring, ring_bytes>>, ring = <<>>,
             main' = "loop" /\ strategy = "highlight" /\ ~live' => emptied' = clock'
      PROVE  RingSound'
  BY <1>2, <1>3 DEF RingSound
<1>4. ASSUME UNCHANGED <<ring, ring_bytes, emptied, clock, log>>,
             main' = "loop" /\ ~live' => main = "loop" /\ ~live
      PROVE  RingSound'
  BY <1>1, <1>4 DEF RingSound
<1>5. CASE Operator \/ Pusher \/ UNCHANGED vars
  <2>1. UNCHANGED <<ring, ring_bytes, emptied, live, clock, log, main>>
    BY <1>5, OperatorWriter, PusherWriter
       DEF vars, writerVars, history, ringVars, Operator, Shutdown, PressSave, PressPush, PressArrow,
           Pusher, StartPush, PushData, PushMetadata, PushFails, ClearNeedsPush, pusherOnly
  <2>2. QED
    BY <1>4, <2>1
<1>6. CASE Tick \/ TickFails \/ ChangePhase
  <2>1. UNCHANGED <<ring, ring_bytes>> /\ strategy # "highlight"
    BY <1>6 DEF Tick, TickFails, ChangePhase, Records, Dagger, Aside, ringVars
  <2>2. QED
    BY <1>3, <2>1 DEF ModesSound
<1>7. CASE CaptureLive \/ EndEpisode
  <2>1. UNCHANGED <<ring, ring_bytes, live>> /\ live
    BY <1>7 DEF CaptureLive, EndEpisode, ringVars
  <2>2. ring = <<>> /\ live'
    BY <2>1 DEF ModesSound
  <2>3. QED
    BY <1>3, <2>1, <2>2
<1>8. CASE HighlightFails
  <2>1. main' = "final" /\ ((UNCHANGED <<ring, ring_bytes, live>> /\ live) \/ Drain)
    BY <1>8 DEF HighlightFails, ringVars
  <2>2. CASE live /\ UNCHANGED <<ring, ring_bytes, live>>
    BY <1>3, <2>1, <2>2 DEF ModesSound
  <2>3. CASE Drain
    BY <1>2, <2>1, <2>3 DEF Drain
  <2>4. QED
    BY <2>1, <2>2, <2>3
<1>9. CASE StartEpisode
  <2>1. Drain /\ live'
    BY <1>9 DEF StartEpisode
  <2>2. QED
    BY <1>2, <2>1 DEF Drain
<1>10. CASE CaptureToRing
  <2>1. /\ strategy = "highlight" /\ main = "loop" /\ ~live
        /\ RingAppend(clock + 1) /\ clock' = clock + 1
        /\ UNCHANGED <<log, strategy, main, emptied, live>>
    BY <1>10 DEF CaptureToRing, Goes, history
  <2>2. QED
    BY <2>1, AppendsToRing
<1>11. CASE TickWithoutFrame \/ KeepEpisode \/ Rotate
  <2>1. UNCHANGED <<ring, ring_bytes>> /\ strategy # "highlight"
    BY <1>11 DEF TickWithoutFrame, KeepEpisode, Rotate, Rotates, Goto, Aside, ringVars, ModesSound
  <2>2. QED
    BY <1>3, <2>1 DEF ModesSound
<1>12. CASE ServePush
  <2>1. UNCHANGED <<ring, ring_bytes, emptied, clock, log, main, live>>
    BY <1>12 DEF ServePush, ringVars, writerVars, history
  <2>2. QED
    BY <1>4, <2>1
<1>13. CASE EndPolicyLoop \/ EndResetLoop \/ Rerecord \/ Keep
  <2>1. UNCHANGED <<ring, ring_bytes>> /\ strategy # "highlight"
    BY <1>13 DEF EndPolicyLoop, EndResetLoop, Rerecord, Keep, Goto, Aside, ringVars, ModesSound
  <2>2. QED
    BY <1>3, <2>1 DEF ModesSound
<1>14. CASE LeaveLoop \/ SaveLast \/ AcquireToSave \/ StopExecutor \/ FinalPush
           \/ ReadDataLast \/ PublishLast \/ PublishLastFails \/ Exit
  <2>1. UNCHANGED <<ring, ring_bytes, emptied, clock, log>> /\ main' # "loop"
    BY <1>14 DEF LeaveLoop, SaveLast, AcquireToSave, StopExecutor, FinalPush, ReadDataLast,
              PublishLast, PublishLastFails, Exit, Finalize, Goto, Aside, ringVars, writerVars, history
  <2>2. QED
    BY <1>4, <2>1
<1>15. CASE SaveStep \/ SaveFails
  <2>1. UNCHANGED <<ring, ring_bytes, emptied, clock, log>> /\ main' # "loop"
    BY <1>15 DEF SaveStep, SaveFails, SaveData, SaveVideos, SaveVideosFails, SaveRaises, ringVars,
              history
  <2>2. QED
    BY <1>4, <2>1
<1>16. CASE SaveSucceeds
  <2>1. UNCHANGED <<ring, ring_bytes>> /\ main' = "saved" /\ main = "saving"
    BY <1>16 DEF SaveSucceeds, Goto, ringVars
  <2>2. QED
    BY <1>3, <2>1 DEF ModesSound
<1>17. CASE AfterSave
  <2>1. /\ UNCHANGED <<ring, ring_bytes, clock>> /\ main = "saved"
        /\ emptied' = clock
    BY <1>17 DEF AfterSave, Goto, writerVars
  <2>2. QED
    BY <1>3, <2>1 DEF ModesSound
<1>18. QED
  BY <1>5, <1>6, <1>7, <1>8, <1>9, <1>10, <1>11, <1>12, <1>13, <1>14, <1>15, <1>16, <1>17
     DEF RecordingNext, Capture, Ending

-----------------------------------------------------------------------------
LEMMA StepCaptured ==
  RecordingInv /\ CapturedInv /\ [RecordingNext]_vars => CapturedInv'
<1> SUFFICES ASSUME RecordingInv, CapturedInv, [RecordingNext]_vars
             PROVE  CapturedInv'
  OBVIOUS
<1>1. /\ WriterInv /\ RecordingTypes /\ LockIInv
      /\ NeverEmpty /\ LogSound /\ CollectedSound /\ ModesSound /\ RingSound
  BY DEF RecordingInv, FlagInv, CapturedInv
<1>2. NeverEmpty' /\ LogSound' /\ CollectedSound' /\ ModesSound' /\ RingSound'
  BY <1>1, StepEmpty, StepLogSound, StepCollectedSound, StepModesSound, StepRingSound
<1>3. QED
  BY <1>2 DEF CapturedInv

LEMMA InitCaptured == Init => CapturedInv
<1> SUFFICES ASSUME Init
             PROVE  CapturedInv
  OBVIOUS
<1>1. /\ saving = "idle" /\ log = <<>> /\ clock = 0 /\ episode_buffer = EmptyBuffer(0)
      /\ main = "loop" /\ live = FALSE /\ save_requested = FALSE /\ ring = <<>> /\ ring_bytes = 0
      /\ emptied = 0
  BY DEF Init, WriterInit
<1>2. episode_buffer.frames = <<>>
  BY <1>1 DEF EmptyBuffer
<1>3. RingBytes \in Nat \ {0} /\ RingFrames \in Nat \ {0} /\ Len(<<>>) = 0 /\ 1..0 = {}
  BY StrategyAssumption DEF StrategyAssumption
<1>4. Pending(<<>>, clock, log) /\ Consecutive(<<>>)
  BY NothingPending
<1>5. NeverEmpty /\ LogSound
  BY <1>1, <1>3 DEF NeverEmpty, LogSound, Ordered
<1>6. CollectedSound
  BY <1>2, <1>4 DEF CollectedSound
<1>7. ModesSound
  BY <1>1, <1>2 DEF ModesSound
<1>8. RingSound
  BY <1>1, <1>3, <1>4 DEF RingSound
<1>9. QED
  BY <1>5, <1>6, <1>7, <1>8 DEF CapturedInv

LEMMA CapturedTakes == WriterInv /\ RecordingTypes /\ CapturedInv => TakesSound
<1> SUFFICES ASSUME WriterInv, RecordingTypes, CapturedInv
             PROVE  TakesSound
  OBVIOUS
<1>1. /\ log \in Seq(Seq(Nat)) /\ ring \in Seq(Nat) /\ DOMAIN log = 1..Len(log)
      /\ LogSound /\ RingSound
  BY CapturedTypes DEF RecordingTypes, OtherTypes, CapturedInv
<1>2. ASSUME strategy # "continuous", NEW i \in DOMAIN log, NEW j \in 1..(Len(log[i]) - 1)
      PROVE  log[i][j + 1] = log[i][j] + 1
  BY <1>1, <1>2 DEF LogSound, Consecutive
<1>3. ASSUME NEW i \in DOMAIN log, NEW k \in DOMAIN log, i < k
      PROVE  Last(log[i]) < Head(log[k])
  <2>1. log[i] \in Seq(Nat) /\ log[i] # <<>> /\ log[k] \in Seq(Nat) /\ log[k] # <<>>
    BY <1>1 DEF LogSound, Ordered
  <2>2. Before(log[i], log[k])
    BY <1>1, <1>3 DEF LogSound, Ordered
  <2>3. Len(log[i]) \in 1..Len(log[i]) /\ 1 \in 1..Len(log[k])
    BY <2>1
  <2>4. log[i][Len(log[i])] < log[k][1]
    BY <2>2, <2>3 DEF Before
  <2>5. Last(log[i]) = log[i][Len(log[i])] /\ Head(log[k]) = log[k][1]
    BY <2>1 DEF Last
  <2>6. QED
    BY <2>4, <2>5
<1>4. OneTake
  BY <1>2, <1>3 DEF OneTake
<1>5. RingHoldsLatest
  <2>1. ring # <<>> => Last(ring) = ring[Len(ring)] /\ Head(ring) = ring[1]
    BY <1>1 DEF Last
  <2>2. QED
    BY <1>1, <2>1 DEF RingHoldsLatest, RingSound, Consecutive
<1>6. QED
  BY <1>4, <1>5 DEF TakesSound

(* Every strategy but DAgger's continuous mode saves episodes of            *)
(* consecutive frames, no frame is in two episodes, and the ring buffer     *)
(* holds the latest frames, as many as fit.                                 *)
THEOREM TakesAreSound == RecordingSpec => []TakesSound
<1>1. Init => RecordingInv /\ CapturedInv
  BY InitRecording, InitCaptured
<1>2. RecordingInv /\ CapturedInv /\ [RecordingNext]_vars => RecordingInv' /\ CapturedInv'
  BY StepRecording, StepCaptured
<1>3. RecordingInv /\ CapturedInv => TakesSound
  BY CapturedTakes DEF RecordingInv
<1>4. QED
  BY <1>1, <1>2, <1>3, PTL DEF RecordingSpec

-----------------------------------------------------------------------------
(* The strategies implement the log of episodes. *)

(* What is collected without the writer's add_frame is what the ring buffer *)
(* held, and the rest discards it or takes a number.                        *)
LEMMA StrategyLog ==
  ASSUME RecordingInv, CapturedInv, logNow' = logNow, [RecordingNext]_vars,
         ChangePhase \/ CaptureToRing \/ Rerecord \/ StartEpisode
  PROVE  [Log!Next]_<<logNow, currentNow, safe>>
<1>1. /\ clock \in Nat /\ ring \in Seq(Nat) /\ MaxFrames \in Nat
      /\ episode_buffer \in [index : Nat, frames : Seq(Nat), keys : {"all", "uneven", "popped"}]
  BY CapturedTypes, WriterAssumption
     DEF WriterAssumption, RecordingInv, FlagInv, RecordingTypes, OtherTypes
<1>2. CASE ChangePhase \/ CaptureToRing
  <2>1. UNCHANGED <<episode_buffer, saving, safe>>
    BY <1>2 DEF ChangePhase, CaptureToRing, history
  <2>2. QED
    BY <2>1 DEF currentNow
<1>3. CASE Rerecord
  <2>1. safe' = safe /\ episode_buffer'.frames = <<>>
    BY <1>3 DEF Rerecord, EmptyBuffer, history
  <2>2. currentNow' = <<>>
    BY <2>1 DEF currentNow
  <2>3. Log!Discard
    BY <2>1, <2>2 DEF Log!Discard, logNow, currentNow
  <2>4. QED
    BY <2>3 DEF Log!Next
<1>4. CASE StartEpisode
  <2> DEFINE new == ring \o <<clock + 1>>
             frames == (episode_buffer.frames \o ring) \o <<clock + 1>>
  <2>1. /\ clock < MaxFrames /\ UNCHANGED <<saving, safe>>
        /\ episode_buffer' = [episode_buffer EXCEPT !.frames = frames]
    BY <1>4 DEF StartEpisode, history
  <2>2. /\ new \in Seq(Nat) /\ new # <<>> /\ Len(new) = Len(ring) + 1 /\ Len(ring) \in Nat
        /\ \A i \in 1..Len(ring) : new[i] = ring[i]
        /\ new[Len(ring) + 1] = clock + 1
    BY <1>1
  <2>3. frames = episode_buffer.frames \o new
    BY <1>1
  <2> HIDE DEF new, frames
  <2>4. /\ episode_buffer'.frames = episode_buffer.frames \o new
        /\ episode_buffer'.keys = episode_buffer.keys
    BY <1>1, <2>1, <2>3
  <2>5. \A i \in 1..Len(new) : new[i] \in 1..MaxFrames
    <3>1. \A i \in 1..Len(ring) : ring[i] \in 1..clock
      BY DEF CapturedInv, RingSound, Pending
    <3>2. SUFFICES ASSUME NEW i \in 1..Len(new)
                   PROVE  new[i] \in 1..MaxFrames
      OBVIOUS
    <3>3. i \in 1..Len(ring) \/ i = Len(ring) + 1
      BY <2>2
    <3>4. CASE i \in 1..Len(ring)
      <4>1. new[i] = ring[i] /\ ring[i] \in 1..clock
        BY <2>2, <3>1, <3>4
      <4>2. QED
        BY <1>1, <2>1, <4>1
    <3>5. CASE i = Len(ring) + 1
      <4>1. new[i] = clock + 1
        BY <2>2, <3>5
      <4>2. QED
        BY <1>1, <2>1, <4>1
    <3>6. QED
      BY <3>3, <3>4, <3>5
  <2>6. CASE episode_buffer.keys = "popped" /\ saving = "idle"
    <3>1. currentNow' = currentNow
      BY <2>1, <2>4, <2>6 DEF currentNow
    <3>2. QED
      BY <2>1, <3>1
  <2>7. CASE ~(episode_buffer.keys = "popped" /\ saving = "idle")
    <3>1. currentNow \in Seq(Nat) /\ currentNow' = currentNow \o new
      BY <1>1, <2>1, <2>4, <2>7 DEF currentNow
    <3>2. Log!Record
      BY <2>1, <2>2, <2>5, <3>1, GrowthRecords
    <3>3. QED
      BY <3>2 DEF Log!Next
  <2>8. QED
    BY <2>6, <2>7
<1>5. QED
  BY <1>2, <1>3, <1>4

(* Every other step of a recording session is one of the writer, or none.   *)
LEMMA StepOfWriter ==
  ASSUME [RecordingNext]_vars
  PROVE  \/ [Next]_writerVars
         \/ ChangePhase \/ CaptureToRing \/ Rerecord \/ StartEpisode
<1>1. CASE Operator \/ Pusher \/ UNCHANGED vars
  BY <1>1, OperatorWriter, PusherWriter DEF vars
<1>2. CASE Tick \/ TickFails \/ CaptureLive \/ EndEpisode \/ HighlightFails
  BY <1>2 DEF Tick, TickFails, CaptureLive, EndEpisode, HighlightFails, Next
<1>3. CASE TickWithoutFrame \/ KeepEpisode \/ Rotate \/ ServePush \/ EndPolicyLoop \/ EndResetLoop
           \/ Keep
  BY <1>3 DEF TickWithoutFrame, KeepEpisode, Rotate, ServePush, EndPolicyLoop, EndResetLoop, Keep
<1>4. CASE Ending
  <2>1. UNCHANGED writerVars \/ SaveSteps
    BY <1>4, EndingWriter
  <2>2. QED
    BY <2>1 DEF SaveSteps, Next
<1>5. QED
  BY <1>1, <1>2, <1>3, <1>4 DEF RecordingNext, Capture

LEMMA StepRecordedLog ==
  ASSUME RecordingInv, CapturedInv, logNow = log, logNow' = log', [RecordingNext]_vars
  PROVE  [Log!Next]_<<logNow, currentNow, safe>>
<1>1. MetaInv /\ DiskInv /\ NeverEmpty
  BY DEF RecordingInv, FlagInv, CapturedInv, WriterInv
<1>2. CASE [Next]_writerVars
  BY <1>1, <1>2, StepLog
<1>3. CASE ChangePhase \/ CaptureToRing \/ Rerecord \/ StartEpisode
  <2>1. log' = log
    BY <1>3 DEF ChangePhase, CaptureToRing, Rerecord, StartEpisode, history
  <2>2. QED
    BY <1>3, <2>1, StrategyLog
<1>4. QED
  BY <1>2, <1>3, StepOfWriter

(* Every recording strategy implements the log of episodes: with takes that *)
(* are discarded, frames that the ring buffer held back, saves that fail    *)
(* and uploads meanwhile, an episode is appended as a whole or not at all,  *)
(* and none of a finished session is lost.                                  *)
THEOREM RecordingImplementsLog == RecordingSpec => ImplementsLog
<1>1. Init => RecordingInv /\ CapturedInv
  BY InitRecording, InitCaptured
<1>2. RecordingInv /\ CapturedInv /\ [RecordingNext]_vars => RecordingInv' /\ CapturedInv'
  BY StepRecording, StepCaptured
<1>3. Init => Log!Init
  <2>1. SUFFICES ASSUME Init
                 PROVE  Log!Init
    OBVIOUS
  <2>2. logNow = log
    BY <1>1, <2>1, StoredLog DEF RecordingInv, WriterInv
  <2>3. QED
    BY <2>1, <2>2 DEF Log!Init, logNow, currentNow, Init, WriterInit, EmptyBuffer
<1> DEFINE J == RecordingInv /\ CapturedInv /\ logNow = log
<1>4. J /\ J' /\ [RecordingNext]_vars => [Log!Next]_<<logNow, currentNow, safe>>
  BY StepRecordedLog
<1>5. RecordingInv /\ CapturedInv => J
  BY StoredLog DEF RecordingInv, WriterInv
<1>6. RecordingSpec => []J
  <2> HIDE DEF J
  <2>1. QED
    BY <1>1, <1>2, <1>5, PTL DEF RecordingSpec
<1>7. RecordingSpec => Log!Init /\ [][Log!Next]_<<logNow, currentNow, safe>>
  <2> HIDE DEF J
  <2>1. QED
    BY <1>3, <1>4, <1>6, PTL DEF RecordingSpec
<1>8. QED
  BY <1>7 DEF ImplementsLog, Log!Spec, logNow, currentNow

(* With every strategy, and with uploads in between, rows, metadata and     *)
(* info.json tell the same story at every step.                             *)
THEOREM RecordingTellsTheLog == RecordingSpec => [](DiskAgrees /\ Bookkeeping)
<1>1. RecordingInv => DiskAgrees /\ Bookkeeping
  BY DiskAgreesInductive DEF RecordingInv, FlagInv, WriterInv, MetaInv
<1>2. QED
  BY <1>1, InitRecording, StepRecording, PTL DEF RecordingSpec
=============================================================================
