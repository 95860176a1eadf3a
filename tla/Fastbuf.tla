------------------------------ MODULE Fastbuf -------------------------------
(***************************************************************************)
(* Buffered streams: the front-end of ucw/fastbuf.c and ucw/fastbuf.h over *)
(* the back-ends fb-file.c ("file"), fb-mmap.c ("mmap"), fb-grow.c         *)
(* ("grow"), fb-buffer.c ("buf", reading) and fb-limfd.c ("limfd").  They  *)
(* are to behave as the file of module PlainFile.                          *)
(*                                                                         *)
(* Pointers are offsets from the start of the buffer, of which mem is the  *)
(* part that holds something.  One turn of the loops of bread_slow and     *)
(* bwrite_slow is one action, which covers every operation built from such *)
(* turns.  Exceptions are not modelled: after one, a fastbuf can be only   *)
(* closed.                                                                 *)
(***************************************************************************)
EXTENDS Integers, Sequences, FiniteSets, FiniteSetsExt

CONSTANTS
  Backends,    \* the back-ends to choose from
  Cap,         \* the size of the buffer, except of mmap and buf
  Page,        \* CPU_PAGE_SIZE
  Window,      \* mmap_window_size
  Extend,      \* mmap_extend_size
  FileLen,     \* the length of a file opened by fb-file for reading only
  Targets,     \* the positions to seek to in such a file
  StreamLen,   \* the length of the others
  Limit,       \* of fb-limfd
  MaxBlock,    \* the longest block read or written
  MaxWrites,   \* bound on the blocks written
  Careful      \* the user avoids what the back-ends get wrong

VARIABLES
  f,        \* struct fastbuf with the back-end's fields and the file below it
  mode,     \* as in PlainFile
  out,      \* what the last operation has returned
  writes

fbVars == <<f, mode, out, writes>>

Garbage == -1

Zeros(n) == [i \in 1 .. n |-> 0]

Seekable == f.be # "limfd"

Writable == f.be \in {"file", "mmap", "grow"} /\ ~f.rdonly

\* btell
Tell(g) == g.pos + (g.bptr - g.bstop)

\* s with d at offset p
Overwritten(s, p, d) ==
  [i \in 1 .. Max({Len(s), IF d = << >> THEN 0 ELSE p + Len(d)}) |->
     CASE i - p \in DOMAIN d -> d[i - p]
       [] i - p \notin DOMAIN d /\ i \in DOMAIN s -> s[i]
       [] OTHER -> 0]

\* The byte at an offset of the buffer
Mem(g, a) ==
  LET s == IF g.be = "mmap" THEN g.disk ELSE g.mem
      i == (IF g.be = "mmap" THEN g.winpos ELSE 0) + a + 1
  IN IF i \in DOMAIN s THEN s[i] ELSE Garbage

\* The bytes of the stream as its user sees them
View ==
  CASE f.be = "mmap" -> IF mode = "closed" THEN f.disk
                        ELSE SubSeq(f.disk, 1, Max({f.fsize, Tell(f)}))
    [] f.be = "file" -> Overwritten(f.disk, f.pos, SubSeq(f.mem, f.bstop + 1, f.bptr))
    [] f.be = "grow" -> SubSeq(f.mem, 1, Min({Len(f.mem), Max({f.end, f.bptr})}))
    [] f.be = "buf" -> f.mem
    [] f.be = "limfd" -> SubSeq(f.disk, 1, Min({Limit, Len(f.disk)}))

-----------------------------------------------------------------------------

(* bfdopen_internal, bfmmopen_internal, fbgrow_create_mp, fbbuf_init_read, *)
(* bopen_limited_fd                                                        *)

Opened(be, data) ==
  [be |-> be, disk |-> IF be \in {"grow", "buf"} THEN << >> ELSE data,
   mem |-> IF be = "buf" THEN data ELSE << >>,
   bptr |-> 0,
   bstop |-> IF be = "buf" THEN Len(data) ELSE 0,
   bufend |-> CASE be = "buf" -> Len(data) [] be = "mmap" -> 0 [] OTHER -> Cap,
   pos |-> IF be = "buf" THEN Len(data) ELSE 0,
   off |-> 0, wpos |-> 0, wlen |-> 0, keep |-> FALSE,
   rdonly |-> Len(data) = FileLen, fsize |-> Len(data), fext |-> Len(data), winpos |-> 0, end |-> 0]

Init ==
  /\ \E be \in Backends : \E n \in {0, StreamLen, FileLen} :
       /\ be = "grow" => n = 0
       /\ n = FileLen => be = "file"
       /\ f = Opened(be, [i \in 1 .. n |-> i])
       /\ mode = IF be = "buf" THEN "reading" ELSE "flushed"
  /\ out = << >>
  /\ writes = 0

-----------------------------------------------------------------------------

(* The refill callbacks: the set of <<resulting fastbuf, return value>>    *)

\* End of bfd_refill behind the end of the file
FileEof(g) ==
  <<[g EXCEPT !.mem = << >>, !.bptr = 0, !.bstop = 0, !.wlen = 0], FALSE>>

\* The loop of bfd_refill: read() until there is something behind bptr; kept
\* bytes are in the buffer already, each read() may be incomplete
FileFill(g, kept) ==
  LET avail == Len(g.disk) - g.off
      need == g.bptr - kept
      Got(n) == [g EXCEPT !.mem = SubSeq(@, 1, kept) \o SubSeq(g.disk, g.off + 1, g.off + n),
                          !.off = @ + n, !.wpos = @ + n,
                          !.bstop = kept + n, !.wlen = kept + n,
                          !.pos = @ + (kept + n - g.bptr)]
  IN IF avail < need
     THEN {FileEof([g EXCEPT !.off = @ + Max({avail, 0}), !.wpos = @ + Max({avail, 0})])}
     ELSE IF avail = need THEN {<<Got(avail), FALSE>>}
     ELSE {<<Got(n), TRUE>> : n \in need + 1 .. Min({avail, Cap - kept})}

\* lseek() to back bytes before the position
FileSeekBack(g, back) ==
  [g EXCEPT !.bptr = back, !.wpos = g.pos - back, !.off = g.pos - back]

\* Mutant: the window is reused although the position is before its start
FileRefillStale(g) ==
  LET diff == g.pos - g.wpos IN
  IF g.wlen > 0 /\ diff < 0 /\ -diff <= Cap
  THEN {<<[g EXCEPT !.bstop = g.wlen, !.bptr = Max({g.wlen + diff, 0}), !.pos = g.wpos], TRUE>>}
  ELSE FileFill(FileSeekBack(g, 0), 0)

FileRefill(g) ==
  LET back == IF g.keep THEN Cap \div 4 ELSE 0
      diff == g.pos - g.wpos
      avail == Max({Len(g.disk) - g.off, 0})
      kept == Min({back - diff, g.wlen})
  IN CASE diff > 4 * Cap -> FileFill(FileSeekBack(g, back), 0)
       [] diff >= back /\ diff <= 4 * Cap ->
            LET skip == diff - back IN
            IF avail < skip
            THEN {FileEof([g EXCEPT !.off = @ + avail, !.wpos = @ + avail])}
            ELSE FileFill([g EXCEPT !.off = @ + skip, !.wpos = @ + skip, !.bptr = back], 0)
       [] 0 <= diff /\ diff < back ->
            FileFill([g EXCEPT !.mem = SubSeq(@, g.wlen - kept + 1, g.wlen),
                               !.bptr = diff + kept], kept)
       [] diff < -(2 * Cap) -> FileFill(FileSeekBack(g, Min({back, g.pos})), 0)
       [] diff < 0 /\ diff >= -(2 * Cap) /\ -diff <= g.wlen ->
            {<<[g EXCEPT !.bstop = g.wlen, !.bptr = g.wlen + diff, !.pos = g.wpos], TRUE>>}
       [] OTHER -> FileFill(FileSeekBack(g, Min({3 * back, g.pos})), 0)

\* bfmm_map_window
MapWindow(g) ==
  LET pos0 == g.pos - (g.pos % Page)
  IN [g EXCEPT !.winpos = pos0, !.bufend = Min({Window, g.fext - pos0}), !.bptr = g.pos - pos0]

MmapRefill(g) ==
  IF g.pos >= g.fsize THEN {<<g, FALSE>>}
  ELSE LET h == IF g.bstop >= g.bufend THEN MapWindow(g) ELSE g
           stop == Min({h.bufend, h.fsize - h.winpos})
       IN {<<[h EXCEPT !.bstop = stop, !.pos = h.winpos + stop], TRUE>>}

\* bfl_refill
LimfdRefill(g) ==
  LET most == Min({Limit - g.pos, g.bufend, Len(g.disk) - g.off})
  IN {<<[g EXCEPT !.mem = SubSeq(g.disk, g.off + 1, g.off + n),
                  !.bptr = 0, !.bstop = n, !.pos = @ + n, !.off = @ + n], n > 0>> :
        n \in IF most = 0 THEN {0} ELSE 1 .. most}

Refill(g) ==
  CASE g.be = "file" -> FileRefill(g)
    [] g.be = "mmap" -> MmapRefill(g)
    [] g.be = "grow" -> {<<[g EXCEPT !.bstop = g.end, !.pos = g.end], g.end > g.bptr>>}
    [] g.be = "buf" -> {<<[g EXCEPT !.bstop = g.bufend, !.pos = g.bufend], g.bptr < g.bufend>>}
    [] g.be = "limfd" -> LimfdRefill(g)

-----------------------------------------------------------------------------

(* The spout callbacks *)

\* bfd_spout: a delayed lseek(), then the buffer from its start up to bptr
FileSpout(g) ==
  LET base == IF g.wpos # g.pos THEN g.pos ELSE g.off
      end == base + g.bptr
  IN [g EXCEPT !.disk = Overwritten(@, base, SubSeq(g.mem, 1, g.bptr)),
               !.off = end, !.pos = end, !.wpos = end, !.wlen = 0, !.bptr = 0, !.bstop = 0,
               !.mem = << >>]

MmapSpout(g) ==
  LET end == Tell(g)
      h == [g EXCEPT !.fsize = Max({@, end})]
      ext == h.fext + Extend + ((-(h.fext + Extend)) % Page)
  IN IF h.bptr < h.bufend THEN h
     ELSE LET k == MapWindow(IF end < h.fext THEN [h EXCEPT !.pos = end]
                             ELSE [h EXCEPT !.pos = end, !.fext = ext,
                                            !.disk = @ \o Zeros(ext - Len(@))])
          IN [k EXCEPT !.bstop = k.bptr]

GrowSpout(g) ==
  LET h == IF g.bptr = g.bufend
           THEN [g EXCEPT !.bufend = 2 * @, !.end = g.bptr]
           ELSE [g EXCEPT !.end = Max({@, g.bptr})]
  IN [h EXCEPT !.bstop = 0, !.pos = 0]

Spout(g) ==
  CASE g.be = "file" -> FileSpout(g)
    [] g.be = "mmap" -> MmapSpout(g)
    [] g.be = "grow" -> GrowSpout(g)

\* bspout
SpoutForWrite(g) == LET h == Spout(g) IN IF h.bstop = h.bufend THEN Spout(h) ELSE h

\* bflush
Flushed(g) == IF g.bptr > g.bstop THEN Spout(g) ELSE [g EXCEPT !.bptr = g.bstop]

-----------------------------------------------------------------------------

(* The seek callbacks, SEEK_SET and SEEK_END, after bflush *)

Length(g) ==
  CASE g.be = "file" -> Len(g.disk)
    [] g.be = "mmap" -> g.fsize
    [] g.be = "grow" -> g.end
    [] g.be = "buf" -> g.bufend

SeekTo(g, p) ==
  CASE g.be = "file" -> [g EXCEPT !.pos = p]
    [] g.be = "mmap" -> [g EXCEPT !.pos = p, !.bptr = 0, !.bstop = 0, !.bufend = 0]
    [] g.be = "grow" -> [g EXCEPT !.bptr = p, !.bstop = 0, !.pos = 0]
    [] g.be = "buf" -> [g EXCEPT !.bptr = p, !.bstop = p, !.pos = p]

SeekEnd(g) ==
  IF g.be = "file"
  THEN [g EXCEPT !.off = Len(g.disk), !.wpos = Len(g.disk), !.pos = Len(g.disk), !.wlen = 0]
  ELSE SeekTo(g, Length(g))

\* bsetpos: within the buffer when reading, otherwise do_seek
SetPos(g, p) ==
  IF g.bptr < g.bstop /\ p <= g.pos /\ p >= g.pos - g.bstop
  THEN [g EXCEPT !.bptr = g.bstop + (p - g.pos)]
  ELSE IF p # Tell(g) THEN SeekTo(Flushed(g), p) ELSE g

-----------------------------------------------------------------------------

(* Front-ends *)

\* What the careful user avoids: reading at the end of the file just after
\* flushing what was written there through mmap
MayRead == Careful /\ f.be = "mmap" /\ f.bptr > f.bstop => Tell(f) < f.fsize

\* Taking n bytes at bptr
Taken(g, n, ok) ==
  IF ok THEN <<[g EXCEPT !.bptr = @ + n], [i \in 1 .. n |-> Mem(g, g.bptr + i - 1)]>>
  ELSE <<g, << >> >>

\* bgetc, bgetc_slow (and bpeekc, beof followed by it)
Getc ==
  /\ mode \in {"flushed", "reading"}
  /\ MayRead
  /\ \E r \in IF f.bptr < f.bstop THEN {Taken(f, 1, TRUE)}
              ELSE {Taken(x[1], 1, x[2]) : x \in Refill(f)} :
       f' = r[1] /\ out' = r[2]
  /\ mode' = "reading"
  /\ UNCHANGED writes

\* A turn of bread_slow, bskip_slow or a direct read: bavailr() is unsigned, so
\* it is huge when bptr > bstop, as fb-grow leaves it by a seek or a flush not
\* at its start; the careful user reads a character first
Bread(n) ==
  /\ mode \in {"flushed", "reading"}
  /\ MayRead
  /\ Careful => f.bptr <= f.bstop
  /\ LET Some(g) == IF g.bptr > g.bstop THEN n ELSE Min({n, g.bstop - g.bptr})
     IN \E r \in IF f.bptr # f.bstop THEN {Taken(f, Some(f), TRUE)}
                 ELSE {Taken(x[1], Some(x[1]), Some(x[1]) > 0) : x \in Refill(f)} :
          f' = r[1] /\ out' = r[2]
  /\ mode' = "reading"
  /\ UNCHANGED writes

\* bungetc, right after a character was read
Ungetc ==
  /\ mode = "reading"
  /\ out # << >>
  /\ f' = [f EXCEPT !.bptr = @ - 1]
  /\ out' = << >>
  /\ UNCHANGED <<mode, writes>>

\* A turn of bwrite_slow, or bputc; the careful user of fb-file never writes
\* when the buffer holds what was read
Bwrite(n) ==
  /\ mode \in {"flushed", "writing"}
  /\ Writable
  /\ writes < MaxWrites
  /\ Careful /\ f.be = "file" => f.bstop = 0
  /\ LET g == IF f.bptr = f.bufend THEN SpoutForWrite(f) ELSE f
         k == Min({n, g.bufend - g.bptr})
         data == [i \in 1 .. k |-> 100 + writes]
     IN f' = [g EXCEPT !.bptr = @ + k,
                       !.mem = IF g.be = "mmap" THEN @ ELSE Overwritten(@, g.bptr, data),
                       !.disk = IF g.be = "mmap"
                                THEN Overwritten(@, g.winpos + g.bptr, data) ELSE @]
  /\ mode' = "writing"
  /\ out' = << >>
  /\ writes' = writes + 1

Bflush ==
  /\ mode \in {"flushed", "reading", "writing"}
  /\ f' = Flushed(f)
  /\ mode' = IF mode = "reading" THEN "lost" ELSE "flushed"
  /\ out' = << >>
  /\ UNCHANGED writes

\* bsetpos and bseek with SEEK_SET and SEEK_CUR; only fb-file can seek behind
\* the end, which bflush has moved behind the data still in the buffer
Bsetpos(p) ==
  /\ mode # "closed"
  /\ Seekable
  /\ f.be # "file" => p <= Length(Flushed(f))
  /\ f' = SetPos(f, p)
  /\ mode' = IF mode = "lost" THEN "flushed" ELSE mode
  /\ out' = << >>
  /\ UNCHANGED writes

\* bseek with SEEK_END
BseekEnd ==
  /\ mode # "closed"
  /\ Seekable
  /\ f' = SeekEnd(Flushed(f))
  /\ mode' = IF mode = "lost" THEN "flushed" ELSE mode
  /\ out' = << >>
  /\ UNCHANGED writes

Bfilesize ==
  /\ mode \notin {"lost", "closed"}
  /\ Seekable
  /\ LET g == SeekEnd(Flushed(f)) IN
       /\ out' = <<Tell(g)>>
       /\ f' = SetPos(g, Tell(f))
  /\ mode' = "flushed"
  /\ UNCHANGED writes

\* bconfig(BCONFIG_KEEP_BACK_BUF), of use when reading
KeepBackBuf ==
  /\ f.be = "file"
  /\ f.rdonly
  /\ mode # "closed"
  /\ f' = [f EXCEPT !.keep = ~@]
  /\ UNCHANGED <<mode, out, writes>>

\* bclose; fb-mmap cuts what it has extended the file by
Bclose ==
  /\ mode # "closed"
  /\ LET g == Flushed(f) IN
     f' = IF g.be = "mmap" THEN [g EXCEPT !.disk = SubSeq(@, 1, g.fsize)] ELSE g
  /\ mode' = "closed"
  /\ out' = << >>
  /\ UNCHANGED writes

\* Positions to seek to, besides the end of the file
Positions == IF f.rdonly THEN Targets ELSE {0, 1, Len(View) + 1}

Next ==
  \/ Getc
  \/ \E n \in 2 .. MaxBlock : Bread(n)
  \/ Ungetc
  \/ \E n \in 1 .. MaxBlock : Bwrite(n)
  \/ Bflush
  \/ \E p \in Positions : Bsetpos(p)
  \/ BseekEnd
  \/ Bfilesize
  \/ KeepBackBuf
  \/ Bclose

Spec == Init /\ [][Next]_fbVars

-----------------------------------------------------------------------------

P == INSTANCE PlainFile WITH content <- View, cursor <- Tell(f)

\* Whatever is buffered, kept in the window, sought lazily or mapped, every
\* operation of every back-end does what the operation of the same name does
\* to a plain file with a cursor, and a closed file holds exactly what was
\* written (fastbuf.c over each back-end)
FastbufIsFile ==
  [][ /\ Getc => P!Read(1)
      /\ \A n \in 2 .. MaxBlock : Bread(n) => P!Read(n)
      /\ Ungetc => P!Unget
      /\ \A n \in 1 .. MaxBlock : Bwrite(n) =>
           \E k \in 1 .. n : P!Write([i \in 1 .. k |-> 100 + writes])
      /\ Bflush => P!Flush
      /\ \A p \in Positions : Bsetpos(p) => P!Seek(p)
      /\ BseekEnd => P!Seek(Len(View))
      /\ Bfilesize => P!Filesize
      /\ KeepBackBuf => UNCHANGED <<View, Tell(f), mode>>
      /\ Bclose => P!Close ]_fbVars

=============================================================================
