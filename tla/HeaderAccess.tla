---------------------------- MODULE HeaderAccess ----------------------------
(***************************************************************************)
(* The methods of LhaHeader in src/header.rs on a header that HeaderParser *)
(* accepted: path names, comment and date.  Each of them walks iter_extra; *)
(* they have nothing else in common, so the model lets them walk together. *)
(* The contents of an extra header, which the parser passed over, are      *)
(* chosen when the walk comes to it.                                       *)
(*                                                                         *)
(* Text is a sequence of characters, one for each class that the code      *)
(* tells apart; "%00" and "%ff" stand for the escapes written for them.    *)
(***************************************************************************)
EXTENDS HeaderParser, SequencesExt

CONSTANTS
  Texts,          \* names, paths and comments
  UnixTimes,      \* seconds since 1970
  Filetimes,      \* ticks since 1601
  MsdosTimes,     \* <<date, time>>, the two 16-bit words
  EpochTicks,     \* the FILETIME of 1970
  TicksPerSec, NanosPerTick,
  I64Modulus      \* 2^63

NanosPerSec == TicksPerSec * NanosPerTick

Words == 0..65535

Chars == {"a", ".", "/", "\\", "ff", "nil"}

ASSUME TextsAssumption == Texts \subseteq Seq(Chars)
ASSUME TimesAssumption == UnixTimes \subseteq Nat /\ Filetimes \subseteq Nat
ASSUME MsdosAssumption == MsdosTimes \subseteq Words \X Words
(* As 2^32 >= 3 * 10^9. *)
ASSUME ScaleAssumption ==
  /\ TicksPerSec \in Nat \ {0} /\ NanosPerTick \in Nat \ {0}
  /\ EpochTicks \in Nat /\ I64Modulus \in Nat
  /\ U32 >= 3 * NanosPerSec

VARIABLES
  walk,   \* ExtraHeaderIter: [at, length], and k, lost: see IterNext
  acc     \* what the methods have found

allVars == <<vars, walk, acc>>

-----------------------------------------------------------------------------
(* Text. *)

Separators == {"/", "\\", "ff"}

(* std::path::is_separator on Unix. *)
IsSeparator(c) == c = "/"

(* A separator begins a new part, any other character goes to the last. *)
AddChar(parts, c, seps) ==
  IF c \in seps
  THEN Append(parts, <<>>)
  ELSE [parts EXCEPT ![Len(parts)] = Append(@, c)]

Split(data, seps) ==
  LET parts[n \in 0..Len(data)] ==
        IF n = 0 THEN << <<>> >> ELSE AddChar(parts[n - 1], data[n], seps)
  IN parts[Len(data)]

(* split_data_at_nil_or_end, without the nil. *)
SplitDataAtNilOrEnd(data) ==
  LET nils == {i \in DOMAIN data : data[i] = "nil"}
  IN IF nils = {}
     THEN [head |-> data, tail |-> <<>>, nil |-> FALSE]
     ELSE [head |-> SubSeq(data, 1, Min(nils) - 1),
           tail |-> SubSeq(data, Min(nils) + 1, Len(data)), nil |-> TRUE]

Shown(c, ignore_sep) ==
  CASE c = "nil" -> "%00"
    [] c = "ff" -> "%ff"
    [] IsSeparator(c) /\ ~ignore_sep -> "_"
    [] OTHER -> c

ParseStrNilterm(data, nilterm, ignore_sep) ==
  LET text == IF nilterm THEN SplitDataAtNilOrEnd(data).head ELSE data
  IN [i \in DOMAIN text |-> Shown(text[i], ignore_sep)]

(* Only the empty parts and "." of a path are left out. *)
IsNameOrParent(part) == part \notin {<<>>, <<".">>}

IsName(part) == part \notin {<<>>, <<".">>, <<".", ".">>}

(* One turn of the loop of parse_pathname: a PathBuf is the sequence of    *)
(* its components. *)
AddPart(path, part) ==
  IF IsName(part) THEN Append(path, ParseStrNilterm(part, FALSE, FALSE)) ELSE path

AddParts(parts, path) ==
  LET buf[n \in 0..Len(parts)] ==
        IF n = 0 THEN path ELSE AddPart(buf[n - 1], parts[n])
  IN buf[Len(parts)]

ParsePathname(data, path) == AddParts(Split(data, Separators), path)

(* A name appended as it is. *)
PushNameOnly(path, name) == path \o name

(* A name appended to a path that is not empty, after a separator. *)
PushName(path, name) == (IF path = <<>> THEN <<>> ELSE Append(path, "/")) \o name

(* One turn of the loop of parse_pathname_to_str. *)
AddPartToStr(path, part) ==
  IF IsName(part) THEN PushName(path, ParseStrNilterm(part, FALSE, FALSE)) ELSE path

AddPartsToStr(parts, path) ==
  LET str[n \in 0..Len(parts)] ==
        IF n = 0 THEN path ELSE AddPartToStr(str[n - 1], parts[n])
  IN str[Len(parts)]

ParsePathnameToStr(data, path) == AddPartsToStr(Split(data, Separators), path)

-----------------------------------------------------------------------------
(* Dates. *)

NoTime == [kind |-> "none", secs |-> 0, nanos |-> 0]

(* chrono's timestamp_opt: nanoseconds of up to two seconds. *)
TimestampOpt(secs, nanos) ==
  IF nanos < 2 * NanosPerSec
  THEN [kind |-> "utc", secs |-> secs, nanos |-> nanos]
  ELSE NoTime

(* Division of signed integers rounds towards zero. *)
TruncDiv(a, b) == IF a >= 0 THEN a \div b ELSE -((-a) \div b)

(* The absolute value of the remainder. *)
NanosUnsigned(rest) == (IF rest < 0 THEN -rest ELSE rest) * NanosPerTick

(* The remainder, which can be negative, cut to u32 and multiplied. *)
Nanos(rest) == (rest * NanosPerTick) % U32

ParseWinFiletime(filetime) ==
  LET ft   == filetime - EpochTicks
      secs == TruncDiv(ft, TicksPerSec)
  IN IF filetime >= I64Modulus
     THEN NoTime
     ELSE TimestampOpt(secs, Nanos(ft - secs * TicksPerSec))

LeapYear(y) == y % 4 = 0 /\ (y % 100 # 0 \/ y % 400 = 0)
DaysIn(y, m) == IF m = 2 THEN (IF LeapYear(y) THEN 29 ELSE 28)
                ELSE IF m \in {4, 6, 9, 11} THEN 30 ELSE 31

(* parse_msdos_datetime, the two words of the field apart. *)
MsdosFields(date, time) ==
  [year |-> 1980 + date \div 512, mon |-> (date \div 32) % 16, day |-> date % 32,
   hour |-> time \div 2048, min |-> (time \div 32) % 64, sec |-> 2 * (time % 32)]

(* chrono's from_ymd_opt and and_hms_opt. *)
IsDate(f) ==
  /\ f.mon \in 1..12 /\ f.day \in 1..DaysIn(f.year, f.mon)
  /\ f.hour < 24 /\ f.min < 60 /\ f.sec < 60

ParseMsdosDatetime(date, time) ==
  IF IsDate(MsdosFields(date, time))
  THEN [kind |-> "naive", fields |-> MsdosFields(date, time)]
  ELSE NoTime

-----------------------------------------------------------------------------
(* The walk over the extra headers. *)

NoDate == [source |-> "none", raw |-> 0, time |-> NoTime]
Date(source, raw, time) == [source |-> source, raw |-> raw, time |-> time]

AccessInit ==
  /\ Init
  /\ walk = [at |-> 0, length |-> 0, k |-> 0, lost |-> FALSE]
  /\ acc = [buf |-> <<>>, str |-> <<>>, filename |-> <<>>, raw |-> <<>>, renamed |-> FALSE,
            comment |-> <<>>, date |-> NoDate]

(* Until read has returned a header there is nothing to walk. *)
Parse ==
  /\ ParserNext
  /\ walk' = [walk EXCEPT !.length = IF pc' = "some" THEN head.first ELSE 0]
  /\ UNCHANGED acc

Nilterm == head.os = "amiga"

CounterSize == IF head.level = 3 THEN 4 ELSE 2

TextsOf(n) == {text \in Texts : Len(text) = n}

(* The contents of an extra header with n bytes after its identifier. *)
Contents(id, n) ==
  CASE id \in {"filename", "path", "comment"} -> TextsOf(n)
    [] id = "unix_time" -> UnixTimes
    [] id = "msdos_time" -> Filetimes
    [] OTHER -> {0}

(* A search that goes on to the last comment. *)
LastComment(old, new) == new

(* parse_comment returns the first comment that is not empty. *)
FirstComment(old, new) == IF old # <<>> THEN old ELSE new

(* What the methods do with one extra header. *)
Visit(id, n, data) ==
  CASE id = "filename" ->
         [acc EXCEPT !.filename = ParseStrNilterm(data, Nilterm, FALSE),
                     !.raw = data, !.renamed = TRUE]
    [] id = "path" ->
         [acc EXCEPT !.buf = ParsePathname(data, @), !.str = ParsePathnameToStr(data, @)]
    [] id = "comment" ->
         [acc EXCEPT !.comment = FirstComment(@, ParseStrNilterm(data, FALSE, TRUE))]
    [] id = "unix_time" /\ n >= 4 /\ acc.date = NoDate ->
         [acc EXCEPT !.date = Date("unix", data, TimestampOpt(data, 0))]
    [] id = "msdos_time" /\ n = 24 /\ acc.date = NoDate ->
         [acc EXCEPT !.date = Date("filetime", data, ParseWinFiletime(data))]
    [] OTHER -> acc

(* ExtraHeaderIter::next: the header is split off the data by its length,  *)
(* and its last bytes are the length of the next one.  k counts the        *)
(* headers; the walk is lost if it is not at the beginning of the next     *)
(* header that the parser read, or has another length.                     *)
IterNext ==
  /\ pc = "some" /\ walk.length # 0 /\ ~walk.lost
  /\ LET k == walk.k + 1
         n == walk.length - CounterSize - 1
     IN IF /\ k \in DOMAIN extras
           /\ walk.at = extras[k].at - extras[1].at
           /\ walk.length = extras[k].len
        THEN /\ \E data \in Contents(extras[k].id, n) : acc' = Visit(extras[k].id, n, data)
             /\ walk' = [walk EXCEPT !.at = @ + walk.length, !.length = extras[k].next,
                                     !.k = k]
        ELSE walk' = [walk EXCEPT !.lost = TRUE] /\ UNCHANGED acc
  /\ UNCHANGED vars

(* The ends of parse_pathname and parse_pathname_to_str, with the name     *)
(* field of the header. *)
PathBuf(field) ==
  IF acc.filename # <<>>
  THEN Append(acc.buf, acc.filename)
  ELSE ParsePathname(IF Nilterm THEN SplitDataAtNilOrEnd(field).head ELSE field, acc.buf)

PathStr(field) ==
  IF acc.filename # <<>>
  THEN PushName(acc.str, acc.filename)
  ELSE ParsePathnameToStr(IF Nilterm THEN SplitDataAtNilOrEnd(field).head ELSE field, acc.str)

(* parse_comment: Amiga archives may have it behind the name.  No comment  *)
(* and an empty one are not told apart.                                    *)
Comment(field) ==
  IF acc.comment # <<>> \/ ~Nilterm
  THEN acc.comment
  ELSE ParseStrNilterm(SplitDataAtNilOrEnd(IF acc.renamed THEN acc.raw ELSE field).tail,
                       FALSE, TRUE)

(* parse_last_modified without a date in the extra headers. *)
LastModified ==
  IF acc.date # NoDate
  THEN {acc.date}
  ELSE IF head.level >= 2
  THEN {Date("field", ts, TimestampOpt(ts, 0)) : ts \in UnixTimes}
  ELSE IF head.os \in {"unix", "osk"} /\ head.extended >= 5
  THEN {Date("area", ts, TimestampOpt(ts, 0)) : ts \in UnixTimes}
  ELSE {Date("msdos", ts, ParseMsdosDatetime(ts[1], ts[2])) : ts \in MsdosTimes}

(* The walk is over: the methods return. *)
Answer ==
  /\ pc = "some" /\ walk.length = 0
  /\ pc' = "answered"
  /\ \E field \in TextsOf(head.filename), date \in LastModified :
       acc' = [acc EXCEPT !.buf = PathBuf(field), !.str = PathStr(field),
                          !.comment = Comment(field), !.date = date]
  /\ UNCHANGED <<pos, eof, usize, parser, cleared, head, extras, extra, header_crc, walk>>

Ended == pc \in {"none", "err", "answered"} /\ UNCHANGED allVars

AccessNext == Parse \/ IterNext \/ Answer \/ Ended

AccessSpec == AccessInit /\ [][AccessNext]_allVars

-----------------------------------------------------------------------------
(* iter_extra yields the headers that read went through, all of them and   *)
(* nothing else: the lengths it finds in the stored data, where a CRC-16   *)
(* has been cleared, are those that read followed, so that split_at and    *)
(* the subtraction in next() cannot fail.                                  *)
IterFollowsParser ==
  /\ ~walk.lost
  /\ pc = "answered" => walk.k = Len(extras)

(* parse_pathname and parse_pathname_to_str give the same path, whatever   *)
(* the order and number of path and name headers.                          *)
PathsAgree ==
  pc = "answered" =>
    IF acc.buf = <<>> THEN acc.str = <<>> ELSE Split(acc.str, {"/"}) = acc.buf

(* Each component of a path is one printable name: not empty, without a    *)
(* separator, and neither "." nor ".." if it comes from a path header or   *)
(* the name field.  A filename header's name does not pass through         *)
(* parse_pathname and is not held to that: see ParentsAreStripped.         *)
ComponentsAreNames ==
  pc = "answered" =>
    \A i \in DOMAIN acc.buf :
      /\ acc.buf[i] # <<>>
      /\ \A j \in DOMAIN acc.buf[i] : acc.buf[i][j] \notin {"/", "ff", "nil"}
      /\ i < Len(acc.buf) \/ acc.filename = <<>> =>
           acc.buf[i] \notin {<<".">>, <<".", ".">>}

(* A promise of the comment of parse_pathname that the code does not keep  *)
(* for the name in a filename header: a component ".." is stripped.        *)
ParentsAreStripped ==
  pc = "answered" => \A i \in DOMAIN acc.buf : acc.buf[i] # <<".", ".">>

TextLen(x) == x.len - CounterSize - 1

(* The comment is the whole text of the first comment header that is not   *)
(* empty, wherever it comes.  Without one it is, in an Amiga archive, what *)
(* follows a nul in the name, and the last filename header's name counts,  *)
(* not the field's.  It is shown without nuls and control characters.      *)
CommentIsFirst ==
  pc = "answered" =>
    LET comments == {i \in DOMAIN extras : extras[i].id = "comment" /\ TextLen(extras[i]) > 0}
        names    == {i \in DOMAIN extras : extras[i].id = "filename"}
        name     == IF names = {} THEN head.filename ELSE TextLen(extras[Max(names)])
    IN /\ IF comments # {}
          THEN Len(acc.comment) = TextLen(extras[Min(comments)])
          ELSE acc.comment # <<>> => Nilterm /\ Len(acc.comment) < name
       /\ \A j \in DOMAIN acc.comment : acc.comment[j] \notin {"ff", "nil"}

(* The two words of an MS-DOS date, put together from its fields. *)
MsdosWords(f) == <<512 * (f.year - 1980) + 32 * f.mon + f.day,
                   2048 * f.hour + 32 * f.min + f.sec \div 2>>

(* The words of all the days and of all the times of day there are. *)
DateWords == {512 * (d[1] - 1980) + 32 * d[2] + d[3] :
                d \in {e \in (1980..2107) \X (1..12) \X (1..31) : e[3] <= DaysIn(e[1], e[2])}}
TimeWords == {2048 * t[1] + 32 * t[2] + t[3] : t \in (0..23) \X (0..59) \X (0..29)}

(* The date answered is the instant that was stored.  Seconds since 1970   *)
(* are always answered.  An MS-DOS date is refused only if its words are   *)
(* no date, and can be written back otherwise.  A FILETIME is answered to  *)
(* the tick, and is only refused if it is out of range or a fraction of a  *)
(* second before 1970, where the remainder is negative.                    *)
DateIsExact ==
  pc = "answered" =>
    LET t   == acc.date.time
        raw == acc.date.raw
        ft  == raw - EpochTicks
    IN CASE acc.date.source = "filetime" ->
              IF t = NoTime
              THEN raw >= I64Modulus \/ (ft < 0 /\ ft % TicksPerSec # 0)
              ELSE t.secs * NanosPerSec + t.nanos = ft * NanosPerTick
         [] acc.date.source = "msdos" ->
              IF t = NoTime
              THEN raw \notin DateWords \X TimeWords
              ELSE raw = MsdosWords(t.fields) /\ IsDate(t.fields)
         [] OTHER -> t # NoTime /\ t.secs = raw /\ t.nanos = 0
=============================================================================
