----------------------------- MODULE PlainFile ------------------------------
(***************************************************************************)
(* What a fastbuf promises to its user (ucw/fastbuf.h, "Internal           *)
(* structure"): a file with one cursor, read and written in blocks, where  *)
(* a flush has to separate reading from writing.  A flush that ends        *)
(* reading loses the cursor and the user has to seek.                      *)
(***************************************************************************)
EXTENDS Integers, Sequences

VARIABLES
  content,  \* the bytes of the file
  cursor,   \* btell()
  mode,     \* "flushed", "reading", "writing", "lost" or "closed"
  out       \* the bytes the last operation has returned

\* s with d at offset p; a gap is filled by zeros
Overwrite(s, p, d) ==
  IF d = << >> THEN s
  ELSE LET end == p + Len(d) IN
       [i \in 1 .. IF end > Len(s) THEN end ELSE Len(s) |->
          CASE p < i /\ i <= end -> d[i - p]
            [] ~(p < i /\ i <= end) /\ i <= Len(s) -> s[i]
            [] OTHER -> 0]

\* One turn of reading at most n bytes; nothing is returned only at the end
Read(n) ==
  /\ mode \in {"flushed", "reading"}
  /\ mode' = "reading"
  /\ UNCHANGED content
  /\ \/ /\ cursor >= Len(content)
        /\ out' = << >>
        /\ UNCHANGED cursor
     \/ \E k \in 1 .. n :
          /\ cursor + k <= Len(content)
          /\ out' = SubSeq(content, cursor + 1, cursor + k)
          /\ cursor' = cursor + k

\* One turn of writing
Write(data) ==
  /\ mode \in {"flushed", "writing"}
  /\ mode' = "writing"
  /\ content' = Overwrite(content, cursor, data)
  /\ cursor' = cursor + Len(data)
  /\ out' = << >>

Unget ==
  /\ mode = "reading"
  /\ cursor' = cursor - 1
  /\ out' = << >>
  /\ UNCHANGED <<content, mode>>

Flush ==
  /\ \/ mode \in {"flushed", "writing"} /\ mode' = "flushed" /\ UNCHANGED cursor
     \/ mode = "reading" /\ mode' = "lost" /\ cursor' >= cursor
  /\ out' = << >>
  /\ UNCHANGED content

Seek(p) ==
  /\ mode # "closed"
  /\ cursor' = p
  /\ mode' = IF mode = "lost" THEN "flushed" ELSE mode
  /\ out' = << >>
  /\ UNCHANGED content

Filesize ==
  /\ mode \notin {"lost", "closed"}
  /\ mode' = "flushed"
  /\ out' = <<Len(content)>>
  /\ UNCHANGED <<content, cursor>>

Close ==
  /\ mode # "closed"
  /\ mode' = "closed"
  /\ out' = << >>
  /\ UNCHANGED content

=============================================================================
