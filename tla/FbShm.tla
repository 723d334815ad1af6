------------------------------- MODULE FbShm --------------------------------
(***************************************************************************)
(* The exported frame buffer of src/src/gui-sdl/sdlscreen.c: the repaint   *)
(* thread blits the guest's video memory and publishes what changed into a *)
(* shared mapping, under a sequence counter that is odd while it writes.   *)
(* Another process reads the mapping without a lock.                       *)
(*                                                                         *)
(* The mapping outlives the process.  A checkpoint holds the process and   *)
(* not the mapping, so a restored process meets what was published after   *)
(* the checkpoint was taken, and so does one that is started again.        *)
(*                                                                         *)
(* Abstractions: the guest draws a pixel at a time, and a row is blitted,  *)
(* copied or read in one step; stores reach the other process in program   *)
(* order; PREVIOUS_SHM_FULL and the statistics are left out.               *)
(***************************************************************************)
EXTENDS Integers, FiniteSetsExt

CONSTANTS
  H, W,             \* the geometry
  Colors,           \* of a pixel; 0 is what a new file holds
  Drawn,            \* bound: the pixels the guest changes, <<row, column>>
  MaxEvents,        \* bound: pixels drawn, and FBSYNC verbs nobody owed
  MaxLives          \* bound: starts and restores after the first start

ASSUME FbAssumption ==
  /\ H \in Nat \ {0} /\ W \in Nat \ {0}
  /\ Colors \subseteq Nat /\ 0 \in Colors
  /\ Drawn \subseteq (0 .. H - 1) \X (0 .. W - 1)
  /\ MaxEvents \in Nat /\ MaxLives \in Nat

VARIABLES
  NEXTVideo,        \* the guest's video memory
  pc, y, pixels,    \* the repaint thread: its place, its row, the blitted frame
  region,           \* x0, x1, y0, y1
  fbshm_state, fbshm_shadow, fbshm_seq,
  fbshm_pub,        \* is it above zero?
  fbshm_resync,
  fbshm_map, map_seq, map_dirty,   \* the mapping: pixels, counter, rectangle
  header,           \* is the header written?
  reader,           \* the other process: place, row, counter seen, copy
  picture, last,    \* what it shows, and the counter of that frame
  baked,            \* the checkpoint
  owed,             \* the restored process was not sent FBSYNC yet
  stale,            \* no whole frame was published since the start or restore
  events, lives

publisher == <<pc, y, pixels, region, fbshm_state, fbshm_shadow, fbshm_seq, fbshm_pub>>
mapping   == <<fbshm_map, map_seq, map_dirty, header>>
viewer    == <<reader, picture, last>>
process   == <<NEXTVideo, publisher, fbshm_resync>>
faults    == <<baked, owed, stale, lives>>
vars      == <<process, mapping, viewer, faults, events>>

Row == 0 .. H - 1
Col == 0 .. W - 1
Frame == [Row -> [Col -> Colors]]
Blank == [r \in Row |-> [c \in Col |-> 0]]

None  == [x0 |-> W, x1 |-> -1, y0 |-> H, y1 |-> -1]
Whole == [x0 |-> 0, x1 |-> W - 1, y0 |-> 0, y1 |-> H - 1]

(* In the mapping the far edges are exclusive, and a new file holds zeros. *)
NoRect == [x0 |-> 0, x1 |-> 0, y0 |-> 0, y1 |-> 0]

(* A process that has just been started. *)
Fresh ==
  [NEXTVideo |-> Blank, pc |-> "blit", y |-> 0, pixels |-> Blank, region |-> None,
   fbshm_state |-> 0, fbshm_shadow |-> Blank, fbshm_seq |-> 0, fbshm_pub |-> FALSE,
   fbshm_resync |-> FALSE]

Init ==
  /\ NEXTVideo = Blank /\ pc = "blit" /\ y = 0 /\ pixels = Blank /\ region = None
  /\ fbshm_state = 0 /\ fbshm_shadow = Blank /\ fbshm_seq = 0
  /\ fbshm_pub = FALSE /\ fbshm_resync = FALSE
  /\ fbshm_map = Blank /\ map_seq = 0 /\ map_dirty = NoRect /\ header = FALSE
  /\ reader = [pc |-> "poll", y |-> 0, seq |-> 0, copy |-> Blank]
  /\ picture = Blank /\ last = 0
  /\ baked = Fresh /\ owed = FALSE /\ stale = FALSE
  /\ events = 0 /\ lives = 0

-----------------------------------------------------------------------------
(* The guest, and the emulation thread, which applies FBSYNC.              *)

Draw ==
  /\ events < MaxEvents
  /\ \E p \in Drawn : \E k \in Colors \ {NEXTVideo[p[1]][p[2]]} :
       NEXTVideo' = [NEXTVideo EXCEPT ![p[1]][p[2]] = k]
  /\ events' = events + 1
  /\ UNCHANGED <<publisher, fbshm_resync, mapping, viewer, faults>>

Screen_ShmResync ==
  /\ owed \/ events < MaxEvents
  /\ fbshm_resync' = TRUE
  /\ owed' = FALSE
  /\ events' = IF owed THEN events ELSE events + 1
  /\ UNCHANGED <<NEXTVideo, publisher, mapping, viewer, baked, stale, lives>>

-----------------------------------------------------------------------------
(* The repaint thread: blitBW or blitColor, and fbshm_publish.             *)

BlitRow ==
  /\ pc = "blit"
  /\ pixels' = [pixels EXCEPT ![y] = NEXTVideo[y]]
  /\ IF y + 1 < H THEN y' = y + 1 /\ pc' = pc ELSE y' = 0 /\ pc' = "diff"
  /\ UNCHANGED <<NEXTVideo, region, fbshm_state, fbshm_shadow, fbshm_seq, fbshm_pub,
                 fbshm_resync, mapping, viewer, faults, events>>

(* fbshm_open, once: what fails leaves the export off for good.            *)
Open ==
  /\ pc = "diff" /\ fbshm_state = 0
  /\ \/ fbshm_state' = 1 /\ fbshm_shadow' = Blank /\ header' = TRUE
     \/ fbshm_state' = -1 /\ UNCHANGED <<fbshm_shadow, header>>
  /\ UNCHANGED <<NEXTVideo, pc, y, pixels, region, fbshm_seq, fbshm_pub, fbshm_resync,
                 fbshm_map, map_seq, map_dirty, viewer, faults, events>>

Differs(r, c) == pixels[r][c] # fbshm_shadow[r][c]

DiffRows == {r \in Row : \E c \in Col : Differs(r, c)}
DiffCols == {c \in Col : \E r \in Row : Differs(r, c)}

(* Mutant: the columns of the first row that differs, only. *)
ChangedFirstRow ==
  [x0 |-> Min({c \in Col : Differs(Min(DiffRows), c)}),
   x1 |-> Max({c \in Col : Differs(Min(DiffRows), c)}),
   y0 |-> Min(DiffRows), y1 |-> Max(DiffRows)]

Changed ==
  [x0 |-> Min(DiffCols), x1 |-> Max(DiffCols), y0 |-> Min(DiffRows), y1 |-> Max(DiffRows)]

WantsWhole == ~fbshm_pub \/ fbshm_resync

(* The texture is unlocked and the locals of the call are gone.            *)
Return == pc' = "blit" /\ pixels' = Blank /\ region' = None

Unchanged ==
  /\ pc = "diff"
  /\ fbshm_state = -1 \/ (fbshm_state = 1 /\ ~WantsWhole /\ DiffRows = {})
  /\ Return
  /\ UNCHANGED <<NEXTVideo, y, fbshm_state, fbshm_shadow, fbshm_seq,
                 fbshm_pub, fbshm_resync, mapping, viewer, faults, events>>

Pass1Whole ==
  /\ pc = "diff" /\ fbshm_state = 1 /\ WantsWhole
  /\ region' = Whole
  /\ fbshm_resync' = FALSE /\ stale' = FALSE
  /\ pc' = "odd"
  /\ UNCHANGED <<NEXTVideo, y, pixels, fbshm_state, fbshm_shadow, fbshm_seq, fbshm_pub,
                 mapping, viewer, baked, owed, lives, events>>

Pass1Changed ==
  /\ pc = "diff" /\ fbshm_state = 1 /\ ~WantsWhole /\ DiffRows # {}
  /\ region' = Changed
  /\ pc' = "odd"
  /\ UNCHANGED <<NEXTVideo, y, pixels, fbshm_state, fbshm_shadow, fbshm_seq, fbshm_pub,
                 fbshm_resync, mapping, viewer, faults, events>>

(* Mutant: the counter is not made odd. *)
OddStoreMissing ==
  /\ pc = "odd"
  /\ fbshm_seq' = fbshm_seq + 1
  /\ pc' = "copy" /\ y' = region.y0
  /\ UNCHANGED <<NEXTVideo, pixels, region, fbshm_state, fbshm_shadow, fbshm_pub,
                 fbshm_resync, mapping, viewer, faults, events>>

OddStore ==
  /\ pc = "odd"
  /\ fbshm_seq' = fbshm_seq + 1 /\ map_seq' = fbshm_seq'
  /\ pc' = "copy" /\ y' = region.y0
  /\ UNCHANGED <<NEXTVideo, pixels, region, fbshm_state, fbshm_shadow, fbshm_pub,
                 fbshm_resync, fbshm_map, map_dirty, header, viewer, faults, events>>

(* The row of the new frame: the region's columns from the blitted frame.  *)
Patched(old) ==
  [c \in Col |-> IF c \in region.x0 .. region.x1 THEN pixels[y][c] ELSE old[y][c]]

(* Mutant: the private copy takes what the guest's memory holds by now. *)
CopyRowSource ==
  /\ pc = "copy"
  /\ fbshm_map' = [fbshm_map EXCEPT ![y] = Patched(fbshm_map)]
  /\ fbshm_shadow' = [fbshm_shadow EXCEPT ![y] = NEXTVideo[y]]
  /\ IF y < region.y1 THEN y' = y + 1 /\ pc' = pc ELSE y' = 0 /\ pc' = "rect"
  /\ UNCHANGED <<NEXTVideo, pixels, region, fbshm_state, fbshm_seq, fbshm_pub,
                 fbshm_resync, map_seq, map_dirty, header, viewer, faults, events>>

CopyRow ==
  /\ pc = "copy"
  /\ fbshm_map' = [fbshm_map EXCEPT ![y] = Patched(fbshm_map)]
  /\ fbshm_shadow' = [fbshm_shadow EXCEPT ![y] = Patched(fbshm_shadow)]
  /\ IF y < region.y1 THEN y' = y + 1 /\ pc' = pc ELSE y' = 0 /\ pc' = "rect"
  /\ UNCHANGED <<NEXTVideo, pixels, region, fbshm_state, fbshm_seq, fbshm_pub,
                 fbshm_resync, map_seq, map_dirty, header, viewer, faults, events>>

(* Mutant: the far edges are written as they are in the region. *)
WriteRectInclusive ==
  /\ pc = "rect"
  /\ map_dirty' = region
  /\ pc' = "even"
  /\ UNCHANGED <<NEXTVideo, y, pixels, region, fbshm_state, fbshm_shadow, fbshm_seq,
                 fbshm_pub, fbshm_resync, fbshm_map, map_seq, header, viewer, faults, events>>

WriteRect ==
  /\ pc = "rect"
  /\ map_dirty' = [region EXCEPT !.x1 = @ + 1, !.y1 = @ + 1]
  /\ pc' = "even"
  /\ UNCHANGED <<NEXTVideo, y, pixels, region, fbshm_state, fbshm_shadow, fbshm_seq,
                 fbshm_pub, fbshm_resync, fbshm_map, map_seq, header, viewer, faults, events>>

(* Mutant: the process does not keep the value of the even store. *)
EvenStoreForgotten ==
  /\ pc = "even"
  /\ map_seq' = fbshm_seq + 1
  /\ fbshm_pub' = TRUE
  /\ Return
  /\ UNCHANGED <<NEXTVideo, y, fbshm_state, fbshm_shadow, fbshm_seq, fbshm_resync,
                 fbshm_map, map_dirty, header, viewer, faults, events>>

EvenStore ==
  /\ pc = "even"
  /\ fbshm_seq' = fbshm_seq + 1 /\ map_seq' = fbshm_seq'
  /\ fbshm_pub' = TRUE
  /\ Return
  /\ UNCHANGED <<NEXTVideo, y, fbshm_state, fbshm_shadow, fbshm_resync,
                 fbshm_map, map_dirty, header, viewer, faults, events>>

Publish ==
  \/ BlitRow \/ Open \/ Unchanged \/ Pass1Whole \/ Pass1Changed
  \/ OddStore \/ CopyRow \/ WriteRect \/ EvenStore

-----------------------------------------------------------------------------
(* The other process.  It skips a counter it has already taken, an odd one *)
(* and an empty rectangle; it copies, and keeps the copy if the counter is *)
(* still the one it saw.                                                   *)

ReadSeq ==
  /\ reader.pc = "poll" /\ header
  /\ map_seq % 2 = 0 /\ map_seq # last /\ map_dirty.x1 > map_dirty.x0
  /\ reader' = [reader EXCEPT !.pc = "copy", !.y = 0, !.seq = map_seq]
  /\ UNCHANGED <<process, mapping, picture, last, faults, events>>

ReadRow ==
  /\ reader.pc = "copy"
  /\ reader' = [reader EXCEPT !.copy[reader.y] = fbshm_map[reader.y],
                              !.y = IF @ + 1 < H THEN @ + 1 ELSE 0,
                              !.pc = IF reader.y + 1 < H THEN @ ELSE "check"]
  /\ UNCHANGED <<process, mapping, picture, last, faults, events>>

Check ==
  /\ reader.pc = "check"
  /\ reader' = [pc |-> "poll", y |-> 0, seq |-> 0, copy |-> Blank]
  /\ IF map_seq = reader.seq
     THEN picture' = reader.copy /\ last' = reader.seq
     ELSE UNCHANGED <<picture, last>>
  /\ UNCHANGED <<process, mapping, faults, events>>

Reader == ReadSeq \/ ReadRow \/ Check

-----------------------------------------------------------------------------
(* The process is frozen and copied at any moment; it is killed at any     *)
(* moment, and restored from the copy or started from nothing.             *)

Checkpoint ==
  /\ baked = Fresh /\ fbshm_state = 1 /\ lives < MaxLives
  /\ baked' = [NEXTVideo |-> NEXTVideo, pc |-> pc, y |-> y, pixels |-> pixels,
               region |-> region, fbshm_state |-> fbshm_state,
               fbshm_shadow |-> fbshm_shadow, fbshm_seq |-> fbshm_seq,
               fbshm_pub |-> fbshm_pub, fbshm_resync |-> fbshm_resync]
  /\ UNCHANGED <<process, mapping, viewer, owed, stale, lives, events>>

Resume(image) ==
  /\ lives < MaxLives
  /\ lives' = lives + 1
  /\ NEXTVideo' = image.NEXTVideo
  /\ pc' = image.pc /\ y' = image.y /\ pixels' = image.pixels /\ region' = image.region
  /\ fbshm_state' = image.fbshm_state /\ fbshm_shadow' = image.fbshm_shadow
  /\ fbshm_seq' = image.fbshm_seq /\ fbshm_pub' = image.fbshm_pub
  /\ fbshm_resync' = image.fbshm_resync
  /\ stale' = TRUE
  /\ UNCHANGED <<mapping, viewer, baked, events>>

(* After a restore the checkpoint tooling says FBSYNC; after a start nobody does. *)
Restore == baked # Fresh /\ Resume(baked) /\ owed' = TRUE
Restart == Resume(Fresh) /\ owed' = FALSE

Next ==
  \/ Draw \/ Screen_ShmResync \/ Publish \/ Reader
  \/ Checkpoint \/ Restore \/ Restart

Spec == Init /\ [][Next]_vars

(* Repaints go on, the reader goes on, and a restored process is sent its  *)
(* FBSYNC.                                                                 *)
FairSpec ==
  /\ Spec
  /\ WF_vars(Publish) /\ WF_vars(Reader)
  /\ WF_vars(owed /\ Screen_ShmResync)

-----------------------------------------------------------------------------
(* Every variable has its type. *)
Edges == [x0 : Int, x1 : Int, y0 : Int, y1 : Int]

TypeOK ==
  /\ {NEXTVideo, pixels, fbshm_shadow, fbshm_map, picture, reader.copy} \subseteq Frame
  /\ pc \in {"blit", "diff", "odd", "copy", "rect", "even"} /\ y \in Row
  /\ region \in Edges /\ map_dirty \in Edges
  /\ fbshm_state \in {-1, 0, 1} /\ {fbshm_seq, map_seq, last} \subseteq Nat
  /\ {fbshm_pub, fbshm_resync, header, owed, stale} \subseteq BOOLEAN
  /\ reader.pc \in {"poll", "copy", "check"} /\ reader.y \in Row /\ reader.seq \in Nat

(* Only the changed region is copied, yet what is published is the whole   *)
(* blitted frame, whatever the guest draws meanwhile; and the private copy *)
(* the next frame is compared with is what the mapping holds.              *)
WholeFrame ==
  ~stale => /\ pc \in {"rect", "even"} => fbshm_map = pixels
            /\ pc \notin {"odd", "copy"} => fbshm_map = fbshm_shadow

(* A reader that finds the counter of the frame it shows is right to skip: *)
(* the frame it accepted was whole, and it is still the one published.     *)
SkipIsSound == lives = 0 /\ last # 0 /\ map_seq = last => picture = fbshm_map

(* From one frame to the next, a reader's picture changes inside the       *)
(* published rectangle only.                                               *)
DirtyCovers ==
  [][lives = 0 /\ last # 0 /\ last' = last + 2 =>
       \A r \in Row, c \in Col : picture'[r][c] # picture[r][c] =>
         /\ map_dirty.y0 <= r /\ r < map_dirty.y1
         /\ map_dirty.x0 <= c /\ c < map_dirty.x1]_vars

(* The guest draws nothing more, and the process lives on. *)
ScreenSettles == <>[][FALSE]_<<NEXTVideo, lives>>

(* When the guest stops drawing, the mapping shows its last screen, after  *)
(* restores and restarts as well.                                          *)
MapCatchesUp ==
  ScreenSettles => <>[](fbshm_state = 1 => fbshm_map = NEXTVideo)

(* And so does the reader, as long as it is the first start of the process.*)
ReaderCatchesUp ==
  ScreenSettles => <>[](fbshm_state = 1 /\ lives = 0 => picture = NEXTVideo)
=============================================================================
