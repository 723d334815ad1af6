---------------------------- MODULE FbShmProofs -----------------------------
(***************************************************************************)
(* The exported frame buffer, for every geometry, any number of colours,   *)
(* of pixels drawn and of restores: what is published is a whole blitted   *)
(* frame although only the changed region is copied, and a reader may      *)
(* trust the counter and the rectangle of the first start of the process.  *)
(*                                                                         *)
(* The inductive invariants follow the copy: a pixel is behind the place   *)
(* of the copy, outside the region, or still to be copied; and the counter *)
(* is even exactly while nothing is copied.                                *)
(***************************************************************************)
EXTENDS FbShm, NaturalsInduction, WellFoundedInduction, TLAPS

(* A set of numbers that is not empty has a smallest one. *)
LEMMA MinOK ==
  ASSUME NEW S \in SUBSET Nat, S # {}
  PROVE  Min(S) \in S /\ \A x \in S : Min(S) <= x
<1> DEFINE R == OpToRel(<, Nat)
<1>1. R = {ss \in Nat \X Nat : ss[1] < ss[2]}
  BY DEF OpToRel
<1>2. PICK m \in S : \A x \in S : ~(<<x, m>> \in R)
  BY NatLessThanWellFounded, WFMin
<1> HIDE DEF R
<1>3. ASSUME NEW x \in S PROVE m <= x
  <2>1. CASE x < m
    <3>1. <<x, m>> \in Nat \X Nat /\ <<x, m>>[1] < <<x, m>>[2]
      BY <2>1
    <3>2. <<x, m>> \in R
      BY <1>1, <3>1
    <3> QED
      BY <1>2, <3>2
  <2> QED
    BY <2>1
<1> QED
  BY <1>3 DEF Min

(* And one with a bound has a largest one. *)
LEMMA MaxOK ==
  ASSUME NEW n \in Nat, NEW S \in SUBSET (0 .. n), S # {}
  PROVE  Max(S) \in S /\ \A x \in S : x <= Max(S)
<1> DEFINE T == {n - x : x \in S}
<1>1. T \in SUBSET Nat
  OBVIOUS
<1>2. T # {}
  OBVIOUS
<1>3. Min(T) \in T /\ \A x \in T : Min(T) <= x
  BY <1>1, <1>2, MinOK
<1>4. PICK m \in S : Min(T) = n - m
  BY <1>3
<1>5. \A x \in S : x <= m
  BY <1>3, <1>4
<1> QED
  BY <1>5 DEF Max

-----------------------------------------------------------------------------
(* The publisher.                                                          *)

Writing == {"odd", "copy", "rect", "even"}

Rects ==
  {e \in Edges : 0 <= e.x0 /\ e.x0 <= e.x1 /\ e.x1 < W /\ 0 <= e.y0 /\ e.y0 <= e.y1 /\ e.y1 < H}

(* A process: its frames, and where it is; the current one or the copy. *)
ProcessOK(video, p, row, pix, rect, state, shadow, seq) ==
  /\ video \in Frame /\ pix \in Frame /\ shadow \in Frame
  /\ p \in {"blit", "diff"} \cup Writing /\ row \in Row /\ seq \in Nat
  /\ p \in Writing => rect \in Rects /\ state = 1
  /\ p = "copy" => row \in rect.y0 .. rect.y1
  /\ state = 0 => shadow = Blank

RunningOK ==
  ProcessOK(NEXTVideo, pc, y, pixels, region, fbshm_state, fbshm_shadow, fbshm_seq)

BakedOK ==
  ProcessOK(baked.NEXTVideo, baked.pc, baked.y, baked.pixels, baked.region, baked.fbshm_state,
            baked.fbshm_shadow, baked.fbshm_seq)

Inside(r, c) == r \in region.y0 .. region.y1 /\ c \in region.x0 .. region.x1

(* A pixel that is the same in the mapping and the private copy; one that  *)
(* is that of the blitted frame in both.                                   *)
Same(r, c) == fbshm_map[r][c] = fbshm_shadow[r][c]
Done(r, c) == fbshm_map[r][c] = pixels[r][c] /\ fbshm_shadow[r][c] = pixels[r][c]

Copied(r, c) ==
  /\ pc \in {"blit", "diff"} => Same(r, c)
  /\ pc = "odd" => Inside(r, c) \/ Done(r, c)
  /\ pc = "copy" => (Inside(r, c) /\ r >= y) \/ Done(r, c)
  /\ pc \in {"rect", "even"} => Done(r, c)

Published ==
  /\ RunningOK /\ BakedOK /\ fbshm_map \in Frame
  /\ ~stale => \A r \in Row, c \in Col : Copied(r, c)

LEMMA SizeOK == H \in Nat \ {0} /\ W \in Nat \ {0} /\ Blank \in Frame /\ 0 \in Row
  BY FbAssumption DEF Blank, Frame, Row, Col

(* Two frames are the same when all their pixels are. *)
LEMMA SameFrames ==
  ASSUME NEW f \in Frame, NEW g \in Frame, \A r \in Row, c \in Col : f[r][c] = g[r][c]
  PROVE  f = g
<1>1. ASSUME NEW r \in Row PROVE f[r] = g[r]
  BY DEF Frame
<1> QED
  BY <1>1 DEF Frame

(* The region of the pixels that differ is on the screen and holds them. *)
LEMMA ChangedOK ==
  ASSUME pixels \in Frame, fbshm_shadow \in Frame, DiffRows # {}
  PROVE  /\ Changed \in Rects
         /\ \A r \in Row, c \in Col :
              Differs(r, c) =>
                r \in Changed.y0 .. Changed.y1 /\ c \in Changed.x0 .. Changed.x1
<1>1. /\ DiffRows \in SUBSET (0 .. H - 1) /\ DiffCols \in SUBSET (0 .. W - 1)
      /\ H - 1 \in Nat /\ W - 1 \in Nat
  BY SizeOK DEF DiffRows, DiffCols, Row, Col
<1>2. DiffCols # {}
  BY DEF DiffRows, DiffCols
<1>3. DiffRows \in SUBSET Nat /\ DiffCols \in SUBSET Nat
  BY <1>1
<1>4. Min(DiffRows) \in DiffRows /\ \A r \in DiffRows : Min(DiffRows) <= r
  BY <1>3, MinOK
<1>5. Max(DiffRows) \in DiffRows /\ \A r \in DiffRows : r <= Max(DiffRows)
  BY <1>1, MaxOK
<1>6. Min(DiffCols) \in DiffCols /\ \A c \in DiffCols : Min(DiffCols) <= c
  BY <1>2, <1>3, MinOK
<1>7. Max(DiffCols) \in DiffCols /\ \A c \in DiffCols : c <= Max(DiffCols)
  BY <1>1, <1>2, MaxOK
<1> DEFINE a == Min(DiffRows)
           b == Max(DiffRows)
           l == Min(DiffCols)
           h == Max(DiffCols)
<1>8. Changed = [x0 |-> l, x1 |-> h, y0 |-> a, y1 |-> b]
  BY DEF Changed
<1>9. a <= b /\ l <= h /\ a \in 0 .. H - 1 /\ b \in 0 .. H - 1 /\ l \in 0 .. W - 1 /\ h \in 0 .. W - 1
  BY <1>1, <1>4, <1>5, <1>6, <1>7
<1>10. ASSUME NEW r \in Row, NEW c \in Col, Differs(r, c)
       PROVE  a <= r /\ r <= b /\ l <= c /\ c <= h
  <2>1. r \in DiffRows /\ c \in DiffCols
    BY <1>10 DEF DiffRows, DiffCols
  <2> QED
    BY <1>4, <1>5, <1>6, <1>7, <2>1
<1> HIDE DEF a, b, l, h
<1>11. Changed \in Rects
  <2>1. Changed \in Edges
    BY <1>8, <1>9 DEF Edges
  <2>2. Changed.x0 = l /\ Changed.x1 = h /\ Changed.y0 = a /\ Changed.y1 = b
    BY <1>8
  <2> QED
    BY SizeOK, <1>9, <2>1, <2>2 DEF Rects
<1>12. ASSUME NEW r \in Row, NEW c \in Col, Differs(r, c)
       PROVE  r \in Changed.y0 .. Changed.y1 /\ c \in Changed.x0 .. Changed.x1
  BY SizeOK, <1>8, <1>9, <1>10, <1>12 DEF Row, Col
<1> QED
  BY <1>11, <1>12

(* A row is copied to the mapping and to the private copy, in the columns  *)
(* of the region.                                                          *)
RowCopied(f) == [f EXCEPT ![y] = Patched(f)]

LEMMA PatchOK ==
  ASSUME pixels \in Frame, y \in Row, NEW f \in Frame
  PROVE  /\ RowCopied(f) \in Frame
         /\ \A r \in Row, c \in Col :
              RowCopied(f)[r][c]
                = IF r = y /\ c \in region.x0 .. region.x1 THEN pixels[r][c] ELSE f[r][c]
<1> DEFINE g == RowCopied(f)
<1>0. g = [f EXCEPT ![y] = Patched(f)]
  BY DEF RowCopied
<1> HIDE DEF g
<1>1. Patched(f) \in [Col -> Colors]
  BY DEF Patched, Frame
<1>2. g \in Frame
  BY <1>0, <1>1 DEF Frame
<1>3. ASSUME NEW r \in Row, NEW c \in Col
      PROVE  g[r][c] = IF r = y /\ c \in region.x0 .. region.x1 THEN pixels[r][c] ELSE f[r][c]
  <2>1. g[r] = IF r = y THEN Patched(f) ELSE f[r]
    BY <1>0 DEF Frame
  <2>2. Patched(f)[c] = IF c \in region.x0 .. region.x1 THEN pixels[y][c] ELSE f[y][c]
    BY DEF Patched
  <2> QED
    BY <2>1, <2>2
<1> QED
  BY <1>2, <1>3 DEF g

(* The step of the repaint thread keeps the frame whole. *)
LEMMA PublishOK ==
  ASSUME Published, Publish
  PROVE  Published'
<1>0. /\ NEXTVideo \in Frame /\ pixels \in Frame /\ fbshm_shadow \in Frame /\ fbshm_map \in Frame
      /\ y \in Row /\ fbshm_seq \in Nat /\ H \in Nat \ {0} /\ W \in Nat \ {0}
      /\ Blank \in Frame /\ 0 \in Row
      /\ (pc \in Writing => region \in Rects /\ fbshm_state = 1) /\ (pc = "copy" => y \in region.y0 .. region.y1)
      /\ (fbshm_state = 0 => fbshm_shadow = Blank) /\ BakedOK
  BY SizeOK DEF Published, RunningOK, ProcessOK
<1>00. ~stale => \A r \in Row, c \in Col : Copied(r, c)
  BY DEF Published
<1>b. UNCHANGED baked => BakedOK'
  BY <1>0 DEF BakedOK
<1> USE DEF Writing
<1>1. CASE BlitRow
  <2>1. /\ pc = "blit" /\ pixels' = [pixels EXCEPT ![y] = NEXTVideo[y]]
        /\ IF y + 1 < H THEN y' = y + 1 /\ pc' = pc ELSE y' = 0 /\ pc' = "diff"
        /\ UNCHANGED <<NEXTVideo, fbshm_state, fbshm_shadow, fbshm_seq, fbshm_map, baked, stale>>
    BY <1>1 DEF BlitRow, mapping, faults
  <2>2. pixels' \in Frame
    BY <1>0, <2>1 DEF Frame
  <2>3. y' \in Row
    BY <1>0, <2>1 DEF Row
  <2>4. pc' \in {"blit", "diff"}
    BY <2>1
  <2>5. RunningOK'
    BY <1>0, <2>1, <2>2, <2>3, <2>4 DEF RunningOK, ProcessOK
  <2>6. ~stale => \A r \in Row, c \in Col : Same(r, c)
    BY <1>00, <2>1 DEF Copied
  <2>7. ~stale' => \A r \in Row, c \in Col : Copied(r, c)'
    BY <2>1, <2>4, <2>6 DEF Copied, Same
  <2> QED
    BY <1>0, <1>b, <2>1, <2>5, <2>7 DEF Published
<1>2. CASE Open
  <2>1. /\ pc = "diff" /\ fbshm_state = 0
        /\ \/ fbshm_state' = 1 /\ fbshm_shadow' = Blank
           \/ fbshm_state' = -1 /\ UNCHANGED fbshm_shadow
        /\ UNCHANGED <<NEXTVideo, pc, y, pixels, region, fbshm_seq, fbshm_map, baked, stale>>
    BY <1>2 DEF Open, faults
  <2>2. fbshm_shadow' = fbshm_shadow
    BY <1>0, <2>1
  <2>3. ~stale' => \A r \in Row, c \in Col : Copied(r, c)'
    BY <1>00, <2>1, <2>2 DEF Copied, Same
  <2>4. RunningOK'
    BY <1>0, <2>1, <2>2 DEF RunningOK, ProcessOK
  <2> QED
    BY <1>0, <1>b, <2>1, <2>3, <2>4 DEF Published
<1>3. CASE Unchanged
  <2>1. /\ pc = "diff" /\ pc' = "blit" /\ pixels' = Blank
        /\ UNCHANGED <<NEXTVideo, y, fbshm_state, fbshm_shadow, fbshm_seq, fbshm_map, baked, stale>>
    BY <1>3 DEF Unchanged, Return, mapping, faults
  <2>2. ~stale' => \A r \in Row, c \in Col : Copied(r, c)'
    BY <1>00, <2>1 DEF Copied, Same
  <2>3. RunningOK'
    BY <1>0, <2>1 DEF RunningOK, ProcessOK
  <2> QED
    BY <1>0, <1>b, <2>1, <2>2, <2>3 DEF Published
<1>4. CASE Pass1Whole
  <2>1. /\ fbshm_state = 1 /\ pc' = "odd" /\ region' = Whole
        /\ UNCHANGED <<NEXTVideo, y, pixels, fbshm_state, fbshm_shadow, fbshm_seq, fbshm_map, baked>>
    BY <1>4 DEF Pass1Whole, mapping
  <2>2. Whole \in Rects
    BY <1>0 DEF Whole, Rects, Edges
  <2>3. ASSUME NEW r \in Row, NEW c \in Col PROVE Copied(r, c)'
    <3>1. Inside(r, c)'
      BY <1>0, <2>1 DEF Inside, Whole, Row, Col
    <3> QED
      BY <2>1, <3>1 DEF Copied
  <2>4. RunningOK'
    BY <1>0, <2>1, <2>2 DEF RunningOK, ProcessOK
  <2> QED
    BY <1>0, <1>b, <2>1, <2>3, <2>4 DEF Published
<1>5. CASE Pass1Changed
  <2>1. /\ fbshm_state = 1 /\ pc = "diff" /\ pc' = "odd" /\ region' = Changed /\ DiffRows # {}
        /\ UNCHANGED <<NEXTVideo, y, pixels, fbshm_state, fbshm_shadow, fbshm_seq, fbshm_map,
                       baked, stale>>
    BY <1>5 DEF Pass1Changed, mapping, faults
  <2>2. /\ Changed \in Rects
        /\ \A r \in Row, c \in Col :
             Differs(r, c) => r \in Changed.y0 .. Changed.y1 /\ c \in Changed.x0 .. Changed.x1
    BY <1>0, <2>1, ChangedOK
  <2>3. ASSUME ~stale', NEW r \in Row, NEW c \in Col PROVE Copied(r, c)'
    <3>1. Same(r, c)
      BY <1>00, <2>1, <2>3 DEF Copied
    <3>2. CASE Differs(r, c)
      <4>1. Inside(r, c)'
        BY <2>1, <2>2, <3>2 DEF Inside
      <4> QED
        BY <2>1, <4>1 DEF Copied
    <3>3. CASE ~Differs(r, c)
      <4>1. Done(r, c)'
        BY <2>1, <3>1, <3>3 DEF Done, Same, Differs
      <4> QED
        BY <2>1, <4>1 DEF Copied
    <3> QED
      BY <3>2, <3>3
  <2>4. RunningOK'
    BY <1>0, <2>1, <2>2 DEF RunningOK, ProcessOK
  <2> QED
    BY <1>0, <1>b, <2>1, <2>3, <2>4 DEF Published
<1>6. CASE OddStore
  <2>1. /\ pc = "odd" /\ pc' = "copy" /\ y' = region.y0 /\ fbshm_seq' = fbshm_seq + 1
        /\ UNCHANGED <<NEXTVideo, pixels, region, fbshm_state, fbshm_shadow, fbshm_map, baked, stale>>
    BY <1>6 DEF OddStore, faults
  <2>2. region \in Rects /\ y' \in region.y0 .. region.y1 /\ y' \in Row
    BY <1>0, <2>1 DEF Rects, Edges, Row
  <2>3. RunningOK'
    BY <1>0, <2>1, <2>2 DEF RunningOK, ProcessOK
  <2>4. ASSUME ~stale', NEW r \in Row, NEW c \in Col PROVE Copied(r, c)'
    <3>1. Inside(r, c) \/ Done(r, c)
      BY <1>00, <2>1, <2>4 DEF Copied
    <3>2. (Inside(r, c)' /\ r >= y') \/ Done(r, c)'
      BY <2>1, <2>2, <3>1 DEF Inside, Done, Rects, Edges
    <3> QED
      BY <2>1, <3>2 DEF Copied
  <2> QED
    BY <1>0, <1>b, <2>1, <2>3, <2>4 DEF Published
<1>7. CASE CopyRow
  <2>1. /\ pc = "copy" /\ fbshm_map' = RowCopied(fbshm_map)
        /\ fbshm_shadow' = RowCopied(fbshm_shadow)
        /\ IF y < region.y1 THEN y' = y + 1 /\ pc' = pc ELSE y' = 0 /\ pc' = "rect"
        /\ UNCHANGED <<NEXTVideo, pixels, region, fbshm_state, fbshm_seq, baked, stale>>
    BY <1>7 DEF CopyRow, RowCopied, faults
  <2>2. /\ fbshm_map' \in Frame
        /\ \A r \in Row, c \in Col :
             fbshm_map'[r][c] = IF r = y /\ c \in region.x0 .. region.x1 THEN pixels[r][c]
                                ELSE fbshm_map[r][c]
    BY <1>0, <2>1, PatchOK
  <2>3. /\ fbshm_shadow' \in Frame
        /\ \A r \in Row, c \in Col :
             fbshm_shadow'[r][c] = IF r = y /\ c \in region.x0 .. region.x1 THEN pixels[r][c]
                                   ELSE fbshm_shadow[r][c]
    BY <1>0, <2>1, PatchOK
  <2>4. /\ region \in Rects /\ y \in region.y0 .. region.y1 /\ y' \in Row
        /\ pc' = "copy" => y' \in region.y0 .. region.y1
    BY <1>0, <2>1 DEF Rects, Edges, Row
  <2>5. RunningOK'
    BY <1>0, <2>1, <2>2, <2>3, <2>4 DEF RunningOK, ProcessOK
  <2>6. ASSUME ~stale', NEW r \in Row, NEW c \in Col PROVE Copied(r, c)'
    <3>1. (Inside(r, c) /\ r >= y) \/ Done(r, c)
      BY <1>00, <2>1, <2>6 DEF Copied
    <3>2. CASE Done(r, c)
      <4>1. Done(r, c)'
        BY <2>1, <2>2, <2>3, <3>2 DEF Done
      <4> QED
        BY <2>1, <4>1 DEF Copied
    <3>3. CASE Inside(r, c) /\ r = y
      <4>1. Done(r, c)'
        BY <2>1, <2>2, <2>3, <3>3 DEF Done, Inside
      <4> QED
        BY <2>1, <4>1 DEF Copied
    <3>4. CASE Inside(r, c) /\ r > y
      <4>1. pc' = "copy" /\ r >= y' /\ Inside(r, c)'
        BY <1>0, <2>1, <2>4, <3>4 DEF Inside, Rects, Edges, Row
      <4> QED
        BY <4>1 DEF Copied
    <3> QED
      BY <1>0, <3>1, <3>2, <3>3, <3>4 DEF Row
  <2> QED
    BY <1>0, <1>b, <2>1, <2>2, <2>5, <2>6 DEF Published
<1>8. CASE WriteRect
  <2>1. /\ pc = "rect" /\ pc' = "even"
        /\ UNCHANGED <<NEXTVideo, y, pixels, region, fbshm_state, fbshm_shadow, fbshm_seq, fbshm_map,
                       baked, stale>>
    BY <1>8 DEF WriteRect, faults
  <2>2. ~stale' => \A r \in Row, c \in Col : Copied(r, c)'
    BY <1>00, <2>1 DEF Copied, Done
  <2>3. RunningOK'
    BY <1>0, <2>1 DEF RunningOK, ProcessOK
  <2> QED
    BY <1>0, <1>b, <2>1, <2>2, <2>3 DEF Published
<1>9. CASE EvenStore
  <2>1. /\ pc = "even" /\ pc' = "blit" /\ pixels' = Blank /\ fbshm_seq' = fbshm_seq + 1
        /\ UNCHANGED <<NEXTVideo, y, fbshm_state, fbshm_shadow, fbshm_map, baked, stale>>
    BY <1>9 DEF EvenStore, Return, faults
  <2>2. ~stale' => \A r \in Row, c \in Col : Copied(r, c)'
    BY <1>00, <2>1 DEF Copied, Done, Same
  <2>3. RunningOK'
    BY <1>0, <2>1 DEF RunningOK, ProcessOK
  <2> QED
    BY <1>0, <1>b, <2>1, <2>2, <2>3 DEF Published
<1> QED
  BY <1>1, <1>2, <1>3, <1>4, <1>5, <1>6, <1>7, <1>8, <1>9 DEF Publish

(* A restored process takes its frames from the copy, which was a process. *)
LEMMA ResumeOK ==
  ASSUME Published, NEW image, Resume(image),
         ProcessOK(image.NEXTVideo, image.pc, image.y, image.pixels, image.region,
                   image.fbshm_state, image.fbshm_shadow, image.fbshm_seq)
  PROVE  Published'
<1>1. /\ NEXTVideo' = image.NEXTVideo /\ pc' = image.pc /\ y' = image.y
      /\ pixels' = image.pixels /\ region' = image.region
      /\ fbshm_state' = image.fbshm_state /\ fbshm_shadow' = image.fbshm_shadow
      /\ fbshm_seq' = image.fbshm_seq /\ stale' = TRUE /\ UNCHANGED <<fbshm_map, baked>>
  BY DEF Resume, mapping
<1>2. RunningOK'
  BY <1>1 DEF RunningOK
<1>3. BakedOK' /\ fbshm_map' \in Frame
  BY <1>1 DEF Published, BakedOK
<1> QED
  BY <1>1, <1>2, <1>3 DEF Published

LEMMA FreshOK ==
  ProcessOK(Fresh.NEXTVideo, Fresh.pc, Fresh.y, Fresh.pixels, Fresh.region, Fresh.fbshm_state,
            Fresh.fbshm_shadow, Fresh.fbshm_seq)
  BY SizeOK DEF Fresh, ProcessOK, Writing

(* The frame stays whole, whoever takes a step. *)
LEMMA PublishedOK == Published /\ [Next]_vars => Published'
<1> SUFFICES ASSUME Published, [Next]_vars PROVE Published'
  OBVIOUS
<1>0. fbshm_map \in Frame /\ BakedOK /\ RunningOK
  BY DEF Published
<1>s. ASSUME UNCHANGED <<pc, y, pixels, region, fbshm_state, fbshm_shadow, fbshm_seq, fbshm_map, stale>>,
             NEXTVideo' \in Frame, BakedOK'
      PROVE  Published'
  <2>1. RunningOK'
    BY <1>0, <1>s DEF RunningOK, ProcessOK
  <2>2. ~stale' => \A r \in Row, c \in Col : Copied(r, c)'
    BY <1>s DEF Published, Copied, Same, Done, Inside
  <2> QED
    BY <1>0, <1>s, <2>1, <2>2 DEF Published
<1>1. CASE Draw
  <2>1. PICK p \in Drawn, k \in Colors :
          NEXTVideo' = [NEXTVideo EXCEPT ![p[1]][p[2]] = k]
    BY <1>1 DEF Draw
  <2>2. NEXTVideo \in Frame /\ p[1] \in Row /\ p[2] \in Col
    BY <1>0, FbAssumption DEF RunningOK, ProcessOK, Row, Col
  <2>3. NEXTVideo' \in Frame
    BY <2>1, <2>2 DEF Frame
  <2>4. BakedOK'
    BY <1>0, <1>1 DEF Draw, faults, BakedOK
  <2> QED
    BY <1>s, <1>1, <2>3, <2>4 DEF Draw, publisher, mapping, faults
<1>2. CASE Screen_ShmResync \/ Reader \/ UNCHANGED vars
  <2>1. UNCHANGED <<NEXTVideo, publisher, fbshm_map, baked, stale>>
    BY <1>2 DEF Screen_ShmResync, Reader, ReadSeq, ReadRow, Check, vars, process, mapping, faults
  <2>2. BakedOK'
    BY <1>0, <2>1 DEF BakedOK
  <2>3. NEXTVideo' \in Frame
    BY <1>0, <2>1 DEF RunningOK, ProcessOK
  <2> QED
    BY <1>s, <2>1, <2>2, <2>3 DEF publisher
<1>3. CASE Publish
  BY <1>3, PublishOK
<1>4. CASE Checkpoint
  <2>1. /\ UNCHANGED <<NEXTVideo, publisher, fbshm_map, stale>>
        /\ baked' = [NEXTVideo |-> NEXTVideo, pc |-> pc, y |-> y, pixels |-> pixels,
                     region |-> region, fbshm_state |-> fbshm_state,
                     fbshm_shadow |-> fbshm_shadow, fbshm_seq |-> fbshm_seq,
                     fbshm_pub |-> fbshm_pub, fbshm_resync |-> fbshm_resync]
    BY <1>4 DEF Checkpoint, process, mapping
  <2>2. BakedOK'
    BY <1>0, <2>1 DEF BakedOK, RunningOK
  <2>3. NEXTVideo' \in Frame
    BY <1>0, <2>1 DEF RunningOK, ProcessOK
  <2> QED
    BY <1>s, <2>1, <2>2, <2>3 DEF publisher
<1>5. CASE Restore
  BY <1>0, <1>5, ResumeOK DEF Restore, BakedOK
<1>6. CASE Restart
  BY <1>6, ResumeOK, FreshOK DEF Restart
<1> QED
  BY <1>1, <1>2, <1>3, <1>4, <1>5, <1>6 DEF Next

LEMMA PublishedInit == Init => Published
<1> SUFFICES ASSUME Init PROVE Published
  OBVIOUS
<1>1. RunningOK
  BY SizeOK DEF Init, RunningOK, ProcessOK, Writing
<1>2. BakedOK
  BY FreshOK DEF Init, BakedOK
<1>3. \A r \in Row, c \in Col : Copied(r, c)
  BY DEF Init, Copied, Same
<1> QED
  BY <1>1, <1>2, <1>3, SizeOK DEF Published, Init

(* What is published is the whole blitted frame, although only the changed *)
(* region is copied and the guest goes on drawing; and the private copy is *)
(* what the mapping holds.  After a restore this holds from the first      *)
(* whole frame on.                                                         *)
THEOREM FramesAreWhole == Spec => []WholeFrame
<1>1. Published => WholeFrame
  <2> SUFFICES ASSUME Published, ~stale
               PROVE  /\ pc \in {"rect", "even"} => fbshm_map = pixels
                      /\ pc \notin {"odd", "copy"} => fbshm_map = fbshm_shadow
    BY DEF WholeFrame
  <2>1. /\ fbshm_map \in Frame /\ pixels \in Frame /\ fbshm_shadow \in Frame
        /\ pc \in {"blit", "diff", "odd", "copy", "rect", "even"}
        /\ \A r \in Row, c \in Col : Copied(r, c)
    BY DEF Published, RunningOK, ProcessOK, Writing
  <2>2. CASE pc \in {"rect", "even"}
    <3>1. \A r \in Row, c \in Col :
            fbshm_map[r][c] = pixels[r][c] /\ fbshm_map[r][c] = fbshm_shadow[r][c]
      BY <2>1, <2>2 DEF Copied, Done
    <3> QED
      BY <2>1, <3>1, SameFrames
  <2>3. CASE pc \in {"blit", "diff"}
    <3>1. \A r \in Row, c \in Col : fbshm_map[r][c] = fbshm_shadow[r][c]
      BY <2>1, <2>3 DEF Copied, Same
    <3> QED
      BY <2>1, <2>3, <3>1, SameFrames
  <2> QED
    BY <2>1, <2>2, <2>3
<1> QED
  BY <1>1, PublishedInit, PublishedOK, PTL DEF Spec

-----------------------------------------------------------------------------
(* The other process.                                                      *)

Even(n) == n % 2 = 0
Idle == {"blit", "diff", "odd"}

(* The pixel is inside the rectangle of the mapping, as a reader takes it. *)
InRect(r, c) ==
  /\ map_dirty.y0 <= r /\ r < map_dirty.y1
  /\ map_dirty.x0 <= c /\ c < map_dirty.x1

ReaderOK ==
  /\ map_seq \in Nat /\ last \in Nat /\ picture \in Frame /\ lives \in Nat
  /\ reader \in [pc : {"poll", "copy", "check"}, y : Row, seq : Nat, copy : Frame]

(* The counter is the process' own, and even while nothing is written.     *)
Counted ==
  /\ map_seq = fbshm_seq
  /\ Even(map_seq) <=> pc \in Idle

(* What the reader took so far is what the mapping holds, if the counter   *)
(* is still the same.                                                      *)
Taken ==
  /\ last <= map_seq /\ Even(last)
  /\ reader.pc # "poll" => reader.seq <= map_seq /\ Even(reader.seq)
  /\ reader.pc = "copy" /\ reader.seq = map_seq =>
       \A r \in Row : r < reader.y => reader.copy[r] = fbshm_map[r]
  /\ reader.pc = "check" /\ reader.seq = map_seq => reader.copy = fbshm_map

(* The picture is the mapping; it differs inside the region that is being  *)
(* written; it differs inside the published rectangle.                     *)
Near ==
  last # 0 =>
    /\ map_seq = last => picture = fbshm_map
    /\ map_seq = last + 1 =>
         \A r \in Row, c \in Col : picture[r][c] # fbshm_map[r][c] => Inside(r, c)
    /\ map_seq = last + 1 /\ pc = "even" => \A r \in Row, c \in Col : InRect(r, c) <=> Inside(r, c)
    /\ map_seq = last + 2 =>
         \A r \in Row, c \in Col : picture[r][c] # fbshm_map[r][c] => InRect(r, c)

Followed == ReaderOK /\ (lives = 0 => Counted /\ Taken /\ Near)

(* What DirtyCovers says of one step. *)
DirtyCoversStep ==
  lives = 0 /\ last # 0 /\ last' = last + 2 =>
    \A r \in Row, c \in Col : picture'[r][c] # picture[r][c] => InRect(r, c)

LEMMA EvenOK == \A n \in Nat : Even(n + 1) <=> ~Even(n)
  BY DEF Even

(* Neither the counter nor the mapping changes. *)
LEMMA QuietFollowed ==
  ASSUME Followed, UNCHANGED <<lives, viewer, mapping, fbshm_seq>>,
         pc' \in Idle <=> pc \in Idle,
         pc \notin Idle => UNCHANGED region /\ (pc' = "even" => pc = "even")
  PROVE  Followed'
<1> USE DEF viewer, mapping
<1>1. ReaderOK'
  BY DEF Followed, ReaderOK
<1>2. CASE lives = 0
  <2>1. Counted' /\ Taken'
    BY <1>2 DEF Followed, Counted, Taken
  <2>2. Near'
    <3>1. CASE pc \in Idle
      <4>1. last \in Nat /\ map_seq \in Nat /\ Even(map_seq) /\ Even(last)
        BY <1>2, <3>1 DEF Followed, ReaderOK, Counted, Taken
      <4>2. map_seq # last + 1
        BY <4>1, EvenOK
      <4> QED
        BY <1>2, <4>2 DEF Followed, Near, InRect
    <3>2. CASE pc \notin Idle
      BY <1>2, <3>2 DEF Followed, Near, InRect, Inside
    <3> QED
      BY <3>1, <3>2
  <2> QED
    BY <1>1, <2>1, <2>2 DEF Followed
<1> QED
  BY <1>1, <1>2 DEF Followed

(* The process takes a step while the mapping is not written, or a row or  *)
(* the rectangle is written, or a store of the counter is made.            *)
LEMMA PublishFollowed == Published /\ Followed /\ Publish => Followed'
<1> SUFFICES ASSUME Published, Followed, Publish PROVE Followed'
  OBVIOUS
<1> USE DEF viewer, Idle
<1>0. /\ map_seq \in Nat /\ last \in Nat /\ fbshm_map \in Frame /\ pixels \in Frame /\ y \in Row
      /\ pc \in Writing => region \in Rects
      /\ pc = "copy" => y \in region.y0 .. region.y1
  BY DEF Published, RunningOK, ProcessOK, Followed, ReaderOK
<1>1. CASE BlitRow \/ Unchanged \/ Pass1Whole \/ Pass1Changed
  <2>1. pc \in Idle /\ pc' \in Idle
    BY <1>1 DEF BlitRow, Unchanged, Pass1Whole, Pass1Changed, Return
  <2>2. UNCHANGED <<lives, viewer, mapping, fbshm_seq>>
    BY <1>1 DEF BlitRow, Unchanged, Pass1Whole, Pass1Changed, faults
  <2> QED
    BY <2>1, <2>2, QuietFollowed
<1>2. CASE Open
  <2>1. /\ pc = "diff"
        /\ UNCHANGED <<lives, viewer, fbshm_map, map_seq, map_dirty, fbshm_seq, pc, region>>
    BY <1>2 DEF Open, faults
  <2> QED
    BY <2>1 DEF Followed, ReaderOK, Counted, Taken, Near, InRect, Inside
<1>3. CASE OddStore
  <2>1. /\ pc = "odd" /\ pc' = "copy" /\ fbshm_seq' = fbshm_seq + 1 /\ map_seq' = fbshm_seq + 1
        /\ UNCHANGED <<lives, viewer, fbshm_map, map_dirty, region>>
    BY <1>3 DEF OddStore, faults
  <2>2. lives = 0 => map_seq' = map_seq + 1 /\ Even(map_seq)
    BY <2>1 DEF Followed, Counted
  <2>3. ReaderOK'
    <3>1. fbshm_seq \in Nat
      BY DEF Published, RunningOK, ProcessOK
    <3> QED
      BY <2>1, <3>1 DEF Followed, ReaderOK
  <2>4. ASSUME lives = 0 PROVE Counted' /\ Taken' /\ Near'
    <3>1. Counted'
      BY <1>0, <2>1, <2>2, <2>4, EvenOK DEF Followed, Counted
    <3>2. Taken'
      <4>1. reader.seq \in Nat
        BY DEF Followed, ReaderOK
      <4> QED
        BY <1>0, <2>1, <2>2, <2>4, <4>1 DEF Followed, Taken
    <3>3. Near'
      <4>1. last <= map_seq /\ Even(last) /\ last' = last /\ map_seq' = map_seq + 1
        BY <2>1, <2>2, <2>4 DEF Followed, Taken
      <4>2. map_seq' # last
        BY <1>0, <4>1
      <4>3. map_seq' # last + 2
        BY <1>0, <2>2, <2>4, <4>1, EvenOK
      <4>4. map_seq' = last + 1 /\ last # 0 => picture = fbshm_map
        BY <1>0, <2>4, <4>1 DEF Followed, Near
      <4> QED
        BY <2>1, <4>1, <4>2, <4>3, <4>4 DEF Near
    <3> QED
      BY <3>1, <3>2, <3>3
  <2> QED
    BY <2>1, <2>3, <2>4 DEF Followed
<1>4. CASE CopyRow
  <2>1. /\ pc = "copy" /\ pc' \in {"copy", "rect"} /\ fbshm_map' = RowCopied(fbshm_map)
        /\ UNCHANGED <<lives, viewer, map_seq, fbshm_seq, map_dirty, region>>
    BY <1>4 DEF CopyRow, RowCopied, faults
  <2>2. /\ fbshm_map' \in Frame
        /\ \A r \in Row, c \in Col :
             fbshm_map'[r][c] = IF r = y /\ c \in region.x0 .. region.x1 THEN pixels[r][c]
                                ELSE fbshm_map[r][c]
    BY <1>0, <2>1, PatchOK
  <2>3. ReaderOK'
    BY <2>1 DEF Followed, ReaderOK
  <2>4. ASSUME lives = 0 PROVE Counted' /\ Taken' /\ Near'
    <3>0. ~Even(map_seq) /\ Even(last)
      BY <2>1, <2>4 DEF Followed, Counted, Taken
    <3>1. Counted'
      BY <2>1, <2>4, <3>0 DEF Followed, Counted
    <3>2. Taken'
      <4>1. reader.pc # "poll" => reader.seq # map_seq
        BY <2>4, <3>0 DEF Followed, Taken
      <4> QED
        BY <2>1, <2>4, <4>1 DEF Followed, Taken
    <3>3. Near'
      <4>1. map_seq # last /\ map_seq # last + 2
        BY <1>0, <3>0, EvenOK
      <4>2. ASSUME last # 0, map_seq = last + 1, NEW r \in Row, NEW c \in Col,
                   picture[r][c] # fbshm_map'[r][c]
            PROVE  Inside(r, c)
        <5>1. CASE r = y /\ c \in region.x0 .. region.x1
          BY <1>0, <2>1, <5>1 DEF Inside
        <5>2. CASE ~(r = y /\ c \in region.x0 .. region.x1)
          BY <2>2, <2>4, <4>2, <5>2 DEF Followed, Near
        <5> QED
          BY <5>1, <5>2
      <4> QED
        BY <2>1, <4>1, <4>2 DEF Near, Inside
    <3> QED
      BY <3>1, <3>2, <3>3
  <2> QED
    BY <2>1, <2>3, <2>4 DEF Followed
<1>5. CASE WriteRect
  <2>1. /\ pc = "rect" /\ pc' = "even"
        /\ map_dirty' = [region EXCEPT !.x1 = @ + 1, !.y1 = @ + 1]
        /\ UNCHANGED <<lives, viewer, fbshm_map, map_seq, fbshm_seq, region>>
    BY <1>5 DEF WriteRect, faults
  <2>2. region \in Rects
    BY <1>0, <2>1 DEF Writing
  <2>3. /\ map_dirty'.x0 = region.x0 /\ map_dirty'.x1 = region.x1 + 1
        /\ map_dirty'.y0 = region.y0 /\ map_dirty'.y1 = region.y1 + 1
    BY <2>1, <2>2 DEF Rects, Edges
  <2>4. ASSUME NEW r \in Row, NEW c \in Col PROVE InRect(r, c)' <=> Inside(r, c)'
    BY SizeOK, <2>1, <2>2, <2>3 DEF InRect, Inside, Row, Col, Rects, Edges
  <2>5. ReaderOK'
    BY <2>1 DEF Followed, ReaderOK
  <2>6. ASSUME lives = 0 PROVE Counted' /\ Taken' /\ Near'
    <3>1. ~Even(map_seq) /\ Even(last)
      BY <2>1, <2>6 DEF Followed, Counted, Taken
    <3>2. Counted'
      BY <2>1, <2>6, <3>1 DEF Followed, Counted
    <3>3. Taken'
      BY <2>1, <2>6 DEF Followed, Taken
    <3>4. map_seq # last + 2
      BY <1>0, <3>1, EvenOK
    <3>5. Near'
      BY <2>1, <2>4, <2>6, <3>4 DEF Followed, Near, Inside
    <3> QED
      BY <3>2, <3>3, <3>5
  <2> QED
    BY <2>1, <2>5, <2>6 DEF Followed
<1>6. CASE EvenStore
  <2>1. /\ pc = "even" /\ pc' = "blit" /\ fbshm_seq' = fbshm_seq + 1 /\ map_seq' = fbshm_seq + 1
        /\ UNCHANGED <<lives, viewer, fbshm_map, map_dirty>>
    BY <1>6 DEF EvenStore, Return, faults
  <2>2. lives = 0 => map_seq' = map_seq + 1 /\ ~Even(map_seq)
    BY <2>1 DEF Followed, Counted
  <2>3. ReaderOK'
    <3>1. fbshm_seq \in Nat
      BY DEF Published, RunningOK, ProcessOK
    <3> QED
      BY <2>1, <3>1 DEF Followed, ReaderOK
  <2>4. ASSUME lives = 0 PROVE Counted' /\ Taken' /\ Near'
    <3>1. Counted'
      BY <1>0, <2>1, <2>2, <2>4, EvenOK DEF Followed, Counted
    <3>2. Taken'
      <4>1. reader.seq \in Nat
        BY DEF Followed, ReaderOK
      <4> QED
        BY <1>0, <2>1, <2>2, <2>4, <4>1 DEF Followed, Taken
    <3>3. Near'
      <4>1. last <= map_seq /\ Even(last) /\ last' = last /\ map_seq' = map_seq + 1
        BY <2>1, <2>2, <2>4 DEF Followed, Taken
      <4>2. map_seq' # last
        BY <1>0, <4>1
      <4>3. map_seq' # last + 1
        BY <1>0, <2>2, <2>4, <4>1, EvenOK
      <4>4. ASSUME map_seq' = last + 2, last # 0, NEW r \in Row, NEW c \in Col,
                   picture[r][c] # fbshm_map[r][c]
            PROVE  InRect(r, c)
        <5>1. map_seq = last + 1
          BY <1>0, <4>1, <4>4
        <5> QED
          BY <2>1, <2>4, <4>4, <5>1 DEF Followed, Near
      <4> QED
        BY <2>1, <4>1, <4>2, <4>3, <4>4 DEF Near, InRect
    <3> QED
      BY <3>1, <3>2, <3>3
  <2> QED
    BY <2>1, <2>3, <2>4 DEF Followed
<1> QED
  BY <1>1, <1>2, <1>3, <1>4, <1>5, <1>6 DEF Publish

(* The reader copies a row, and keeps a copy whose counter is unchanged. *)
LEMMA ReaderFollowed == Published /\ Followed /\ Reader => Followed' /\ DirtyCoversStep
<1> SUFFICES ASSUME Published, Followed, Reader PROVE Followed' /\ DirtyCoversStep
  OBVIOUS
<1>0. /\ ReaderOK /\ fbshm_map \in Frame
      /\ reader.y \in Row /\ reader.seq \in Nat /\ reader.copy \in Frame /\ last \in Nat
      /\ H \in Nat \ {0}
  BY SizeOK DEF Followed, ReaderOK, Published
<1>1. CASE ReadSeq
  <2>1. /\ Even(map_seq)
        /\ reader' = [reader EXCEPT !.pc = "copy", !.y = 0, !.seq = map_seq]
        /\ UNCHANGED <<process, mapping, picture, last, lives>>
    BY <1>1 DEF ReadSeq, faults, Even
  <2>2. reader' = [pc |-> "copy", y |-> 0, seq |-> map_seq, copy |-> reader.copy]
    BY <1>0, <2>1 DEF ReaderOK
  <2>3. ReaderOK'
    BY <1>0, SizeOK, <2>1, <2>2 DEF ReaderOK, mapping
  <2>4. lives = 0 => Counted' /\ Near'
    BY <2>1 DEF Followed, Counted, Near, process, publisher, mapping, Inside, InRect
  <2>5. lives = 0 => Taken'
    <3>1. map_seq <= map_seq /\ \A r \in Row : ~(r < 0)
      BY <1>0 DEF Row, ReaderOK
    <3> QED
      BY <2>1, <2>2, <3>1 DEF Followed, Taken, mapping
  <2>6. last' # last + 2
    BY <1>0, <2>1
  <2> QED
    BY <2>1, <2>3, <2>4, <2>5, <2>6 DEF Followed, DirtyCoversStep
<1>2. CASE ReadRow
  <2>1. /\ reader.pc = "copy"
        /\ reader' = [reader EXCEPT !.copy[reader.y] = fbshm_map[reader.y],
                                    !.y = IF @ + 1 < H THEN @ + 1 ELSE 0,
                                    !.pc = IF reader.y + 1 < H THEN @ ELSE "check"]
        /\ UNCHANGED <<process, mapping, picture, last, lives>>
    BY <1>2 DEF ReadRow, faults
  <2> DEFINE new == [reader.copy EXCEPT ![reader.y] = fbshm_map[reader.y]]
  <2>2. /\ reader'.copy = new /\ reader'.seq = reader.seq
        /\ reader'.y = IF reader.y + 1 < H THEN reader.y + 1 ELSE 0
        /\ reader'.pc = IF reader.y + 1 < H THEN "copy" ELSE "check"
    BY <1>0, <2>1 DEF ReaderOK
  <2>3. new \in Frame
    BY <1>0 DEF Frame
  <2>4. \A r \in Row : new[r] = IF r = reader.y THEN fbshm_map[r] ELSE reader.copy[r]
    BY <1>0 DEF Frame
  <2>5. reader' \in [pc : {"poll", "copy", "check"}, y : Row, seq : Nat, copy : Frame]
    <3>1. reader' = [pc |-> reader'.pc, y |-> reader'.y, seq |-> reader'.seq, copy |-> reader'.copy]
      BY <1>0, <2>1 DEF ReaderOK
    <3> HIDE DEF new
    <3>2. reader'.y \in Row
      BY <1>0, <2>2 DEF Row
    <3> QED
      BY <1>0, <2>2, <2>3, <3>1, <3>2
  <2> HIDE DEF new
  <2>6. ReaderOK'
    BY <1>0, <2>1, <2>5 DEF ReaderOK, mapping
  <2>7. lives = 0 => Counted' /\ Near'
    BY <2>1 DEF Followed, Counted, Near, process, publisher, mapping, Inside, InRect
  <2>8. ASSUME lives = 0 PROVE Taken'
    <3>1. ASSUME reader.seq = map_seq, NEW r \in Row, r <= reader.y PROVE new[r] = fbshm_map[r]
      BY <1>0, <2>1, <2>4, <2>8, <3>1 DEF Followed, Taken, Row
    <3>2. ASSUME reader.seq = map_seq, reader.y + 1 >= H PROVE new = fbshm_map
      <4>1. \A r \in Row : new[r] = fbshm_map[r]
        BY <1>0, <3>1, <3>2 DEF Row
      <4> QED
        BY <1>0, <2>3, <4>1 DEF Frame
    <3>3. CASE reader.y + 1 < H
      <4>1. reader'.pc = "copy" /\ reader'.y = reader.y + 1
        BY <2>2, <3>3
      <4>2. ASSUME reader.seq = map_seq, NEW r \in Row, r < reader.y + 1 PROVE new[r] = fbshm_map[r]
        BY <1>0, <3>1, <4>2 DEF Row
      <4> QED
        BY <2>1, <2>2, <2>8, <4>1, <4>2 DEF Followed, Taken, mapping
    <3>4. CASE ~(reader.y + 1 < H)
      <4>1. reader'.pc = "check" /\ (reader.seq = map_seq => new = fbshm_map)
        BY <1>0, <2>2, <3>2, <3>4 DEF Row
      <4> QED
        BY <2>1, <2>2, <2>8, <4>1 DEF Followed, Taken, mapping
    <3> QED
      BY <3>3, <3>4
  <2>9. last' # last + 2
    BY <1>0, <2>1
  <2> QED
    BY <2>1, <2>6, <2>7, <2>8, <2>9 DEF Followed, DirtyCoversStep
<1>3. CASE Check
  <2>1. /\ reader.pc = "check"
        /\ reader' = [pc |-> "poll", y |-> 0, seq |-> 0, copy |-> Blank]
        /\ IF map_seq = reader.seq
           THEN picture' = reader.copy /\ last' = reader.seq
           ELSE UNCHANGED <<picture, last>>
        /\ UNCHANGED <<process, mapping, lives>>
    BY <1>3 DEF Check, faults
  <2>2. ReaderOK'
    BY <1>0, SizeOK, <2>1 DEF ReaderOK, mapping
  <2>3. ASSUME lives = 0 PROVE Counted' /\ Taken'
    BY <2>1, <2>3 DEF Followed, Counted, Taken, process, publisher, mapping
  <2>4. CASE map_seq # reader.seq
    <3>1. lives = 0 => Near'
      BY <2>1, <2>4 DEF Followed, Near, process, publisher, mapping, Inside, InRect
    <3>2. last' # last + 2
      BY <1>0, <2>1, <2>4
    <3> QED
      BY <2>1, <2>2, <2>3, <3>1, <3>2 DEF Followed, DirtyCoversStep
  <2>5. CASE map_seq = reader.seq
    <3>1. lives = 0 => picture' = fbshm_map /\ last' = map_seq
      BY <2>1, <2>5 DEF Followed, Taken
    <3>2. lives = 0 => Near'
      BY <1>0, <2>1, <3>1 DEF Near, mapping, ReaderOK
    <3>3. DirtyCoversStep
      <4> SUFFICES ASSUME lives = 0, last # 0, last' = last + 2, NEW r \in Row, NEW c \in Col,
                          picture'[r][c] # picture[r][c]
                   PROVE  InRect(r, c)
        BY DEF DirtyCoversStep
      <4> QED
        BY <3>1 DEF Followed, Near
    <3> QED
      BY <2>1, <2>2, <2>3, <3>2, <3>3 DEF Followed
  <2> QED
    BY <2>4, <2>5
<1> QED
  BY <1>1, <1>2, <1>3 DEF Reader

(* The rest of the steps end the first life, or leave all of it alone. *)
LEMMA NextFollowed == Published /\ Followed /\ [Next]_vars => Followed' /\ DirtyCoversStep
<1> SUFFICES ASSUME Published, Followed, [Next]_vars PROVE Followed' /\ DirtyCoversStep
  OBVIOUS
<1>0. lives \in Nat /\ last \in Nat
  BY DEF Followed, ReaderOK
<1>1. CASE Reader
  BY <1>1, ReaderFollowed
<1>2. last' # last => Reader
  BY DEF Next, vars, viewer, Draw, Screen_ShmResync, Publish, BlitRow, Open, Unchanged, Pass1Whole,
         Pass1Changed, OddStore, CopyRow, WriteRect, EvenStore, Checkpoint, Restore, Restart, Resume
<1>3. ~Reader => DirtyCoversStep
  BY <1>0, <1>2 DEF DirtyCoversStep
<1>4. ASSUME Publish PROVE Followed'
  BY <1>4, PublishFollowed
<1>5. ASSUME Draw \/ Screen_ShmResync \/ Checkpoint \/ UNCHANGED vars PROVE Followed'
  <2>1. UNCHANGED <<lives, viewer, mapping, publisher>>
    BY <1>5 DEF Draw, Screen_ShmResync, Checkpoint, vars, faults, process
  <2> QED
    BY <2>1, QuietFollowed DEF publisher
<1>6. ASSUME Restore \/ Restart PROVE Followed'
  <2>1. lives' = lives + 1 /\ UNCHANGED <<mapping, viewer>>
    BY <1>6 DEF Restore, Restart, Resume
  <2>2. lives' # 0
    BY <1>0, <2>1
  <2> QED
    BY <1>0, <2>1, <2>2 DEF Followed, ReaderOK, mapping, viewer
<1> QED
  BY <1>1, <1>3, <1>4, <1>5, <1>6 DEF Next

LEMMA FollowedInit == Init => Followed
<1> SUFFICES ASSUME Init PROVE Followed
  OBVIOUS
<1>1. ReaderOK
  BY SizeOK DEF Init, ReaderOK
<1>2. Even(0)
  BY DEF Even
<1>3. Counted /\ Taken /\ Near
  BY <1>2 DEF Init, Counted, Taken, Near, Idle
<1> QED
  BY <1>1, <1>3 DEF Followed

(* A reader that finds the counter of the frame it shows is right to skip: *)
(* the frame it accepted was whole, and it is still the one published, as  *)
(* long as the process was not restored.                                   *)
THEOREM SkippingIsSound == Spec => []SkipIsSound
<1>1. Followed => SkipIsSound
  BY DEF Followed, Near, SkipIsSound
<1>2. Published /\ Followed /\ [Next]_vars => Published' /\ Followed'
  BY PublishedOK, NextFollowed
<1> QED
  BY <1>1, <1>2, PublishedInit, FollowedInit, PTL DEF Spec

(* From one frame to the next, a reader's picture changes inside the       *)
(* published rectangle only.                                               *)
THEOREM RectangleCovers == Spec => DirtyCovers
<1>1. Published /\ Followed /\ [Next]_vars => Published' /\ Followed' /\ [DirtyCoversStep]_vars
  BY PublishedOK, NextFollowed
<1> QED
  BY <1>1, PublishedInit, FollowedInit, PTL DEF Spec, DirtyCovers, DirtyCoversStep, InRect
=============================================================================
