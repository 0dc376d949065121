------------------------------ MODULE FileUtils ------------------------------
(***************************************************************************)
(* libnpmtoolkit/fileutils.c: processes write, append to and load one      *)
(* file.                                                                   *)
(*                                                                         *)
(* fopen("w") empties the file at once.  The bytes reach it later, in      *)
(* pieces, each where the last one of the process ended; fopen("a") puts   *)
(* its piece at the end of the file.  The results of fwrite(), fread() and *)
(* fclose() are not looked at: what fails is lost in silence.              *)
(*                                                                         *)
(* A byte is represented by where it comes from: <<"data", n, i>> is byte  *)
(* i of the memory given to call n of write_data_to_file, <<"text", n, i>> *)
(* the byte at content + i - 1 in call n of append_to_file, which may lie  *)
(* behind the string.                                                      *)
(***************************************************************************)
EXTENDS Integers, Sequences

CONSTANTS
  Processes,   (* that share the file                                        *)
  PtrSize,     (* sizeof(content), the size of a pointer                     *)
  DataLens,    (* the values of len                                          *)
  MaxFileCalls (* bound on the calls                                         *)

ASSUME FileAssumption ==
  /\ PtrSize \in Nat \ {0} /\ DataLens \subseteq Nat /\ MaxFileCalls \in Nat

VARIABLES
  file,      (* the bytes of the file                                        *)
  fileExists,
  fileOp,    (* what each process does: "idle", one of the calls, "dead",    *)
             (* or "loadFailed", a load after a read() that failed           *)
  unwritten, (* the bytes that are still in its FILE                         *)
  offset,    (* where it reads or writes next                                *)
  data,      (* the memory that it loads into                                *)
  fileRet,   (* what the last call to return returned                        *)
  calls,     (* history: the number of calls                                 *)
  base,      (* history: call and len of the last write_data_to_file         *)
  mixed,     (* history: have others written while that one did?             *)
  cut,       (* history: were bytes lost since it began?                     *)
  quiet      (* history: the processes that load with no write meanwhile     *)

fileVars == <<file, fileExists, fileOp, unwritten, offset, data, fileRet,
              calls, base, mixed, cut, quiet>>

OK == 0
INVALID_ARGUMENT == 1
CANNOT_OPEN_FILE == 2

Hole == <<"hole", 0, 0>>
Memory(i) == <<"memory", 0, i>>
Data(n, len) == [i \in 1 .. len |-> <<"data", n, i>>]
Text(n) == [i \in 1 .. PtrSize |-> <<"text", n, i>>]

Shorter(m, n) == IF m <= n THEN m ELSE n

(* The bytes of `piece` written behind the first `at` bytes of a sequence. *)
Overlaid(bytes, at, piece) ==
  LET end == at + Len(piece)
  IN  [i \in 1 .. (IF end < Len(bytes) THEN Len(bytes) ELSE end) |->
         IF i > at /\ i <= end THEN piece[i - at]
         ELSE IF i <= Len(bytes) THEN bytes[i] ELSE Hole]

Writers == {p \in Processes : fileOp[p] \in {"write", "append"}}

FileInit ==
  /\ file = <<>> /\ fileExists = FALSE
  /\ fileOp = [p \in Processes |-> "idle"]
  /\ unwritten = [p \in Processes |-> <<>>]
  /\ offset = [p \in Processes |-> 0]
  /\ data = [p \in Processes |-> <<>>]
  /\ fileRet = OK
  /\ calls = 0 /\ base = <<0, 0>>
  /\ mixed = FALSE /\ cut = FALSE /\ quiet = {}

-----------------------------------------------------------------------------
(* A call that does not get as far as the file: an argument is NULL or len *)
(* is 0, or fopen() fails.  append_to_file has a code of its own.          *)
FileRefuse(p) ==
  /\ fileOp[p] = "idle"
  /\ fileRet' \in {-1, INVALID_ARGUMENT, CANNOT_OPEN_FILE}
  /\ UNCHANGED <<file, fileExists, fileOp, unwritten, offset, data, calls,
                 base, mixed, cut, quiet>>

(* The call has its FILE.                                                  *)
Begin(p, op, bytes) ==
  /\ fileOp[p] = "idle" /\ calls < MaxFileCalls
  /\ calls' = calls + 1
  /\ fileOp' = [fileOp EXCEPT ![p] = op]
  /\ unwritten' = [unwritten EXCEPT ![p] = bytes]
  /\ offset' = [offset EXCEPT ![p] = 0]
  /\ UNCHANGED fileRet

(* A mutant: the file is not emptied.                                      *)
OpenToWriteKeeps(p, len) ==
  /\ len > 0
  /\ Begin(p, "write", Data(calls + 1, len))
  /\ fileExists' = TRUE
  /\ base' = <<calls + 1, len>>
  /\ mixed' = (Writers # {}) /\ cut' = FALSE
  /\ quiet' = {}
  /\ UNCHANGED <<file, data>>

(* write_data_to_file: fopen("w") and fwrite().                            *)
OpenToWrite(p, len) ==
  /\ len > 0
  /\ Begin(p, "write", Data(calls + 1, len))
  /\ file' = <<>> /\ fileExists' = TRUE
  /\ base' = <<calls + 1, len>>
  /\ mixed' = (Writers # {}) /\ cut' = FALSE
  /\ quiet' = {}
  /\ UNCHANGED data

(* append_to_file: fopen("a") and fwrite().                                *)
OpenToAppend(p) ==
  /\ Begin(p, "append", Text(calls + 1))
  /\ fileExists' = TRUE
  /\ mixed' = (mixed \/ \E q \in Writers : fileOp[q] = "write")
  /\ UNCHANGED <<file, data, base, cut, quiet>>

(* load_data_from_file: fopen("r").                                        *)
OpenToLoad(p, len) ==
  /\ fileExists
  /\ Begin(p, "load", <<>>)
  /\ data' = [data EXCEPT ![p] = [i \in 1 .. len |-> Memory(i)]]
  /\ quiet' = IF Writers = {} THEN quiet \cup {p} ELSE quiet \ {p}
  /\ UNCHANGED <<file, fileExists, base, mixed, cut>>

-----------------------------------------------------------------------------
(* A mutant: every piece is put at the end of the file.                    *)
PutOutAtEnd(p, n) ==
  /\ file' = file \o SubSeq(unwritten[p], 1, n)
  /\ offset' = [offset EXCEPT ![p] = @ + n]
  /\ quiet' = {}

(* The first n bytes that are not written reach the file.                  *)
PutOut(p, n) ==
  LET piece == SubSeq(unwritten[p], 1, n)
      at    == IF fileOp[p] = "append" THEN Len(file) ELSE offset[p]
  IN  /\ file' = IF n = 0 THEN file ELSE Overlaid(file, at, piece)
      /\ offset' = [offset EXCEPT ![p] = at + n]
      /\ quiet' = {}

(* write(), when a buffer is full or in fclose(); the few bytes of an      *)
(* append are written at once.                                             *)
WriteOut(p) ==
  /\ p \in Writers /\ unwritten[p] # <<>>
  /\ \E n \in 1 .. Len(unwritten[p]) :
       /\ fileOp[p] = "append" => n = PtrSize
       /\ PutOut(p, n)
       /\ unwritten' = [unwritten EXCEPT ![p] = SubSeq(@, n + 1, Len(@))]
  /\ UNCHANGED <<fileExists, fileOp, data, fileRet, calls, base, mixed, cut>>

(* The disk is full, or worse: a part is written and the rest is lost.     *)
WriteFails(p) ==
  /\ p \in Writers /\ unwritten[p] # <<>>
  /\ \E n \in 0 .. Len(unwritten[p]) - 1 : PutOut(p, n)
  /\ unwritten' = [unwritten EXCEPT ![p] = <<>>]
  /\ cut' = TRUE
  /\ UNCHANGED <<fileExists, fileOp, data, fileRet, calls, base, mixed>>

(* fclose() is done.  append_to_file returns what fwrite() has taken.      *)
WriteReturns(p) ==
  /\ p \in Writers /\ unwritten[p] = <<>>
  /\ fileRet' = IF fileOp[p] = "write" THEN OK ELSE PtrSize
  /\ fileOp' = [fileOp EXCEPT ![p] = "idle"]
  /\ UNCHANGED <<file, fileExists, unwritten, offset, data, calls, base, mixed,
                 cut, quiet>>

Upcoming(p, n) == SubSeq(file, offset[p] + 1, offset[p] + n)

(* A mutant: every piece is put at the beginning of the memory.            *)
ReadInAtStart(p) ==
  /\ fileOp[p] = "load"
  /\ \E n \in 1 .. Shorter(Len(data[p]), Len(file)) - offset[p] :
       /\ data' = [data EXCEPT ![p] = Overlaid(@, 0, Upcoming(p, n))]
       /\ offset' = [offset EXCEPT ![p] = @ + n]
  /\ UNCHANGED <<file, fileExists, fileOp, unwritten, fileRet, calls, base,
                 mixed, cut, quiet>>

(* A mutant: the whole file is read.                                       *)
ReadInWhole(p) ==
  /\ fileOp[p] = "load"
  /\ \E n \in 1 .. Len(file) - offset[p] :
       /\ data' = [data EXCEPT ![p] = Overlaid(@, offset[p], Upcoming(p, n))]
       /\ offset' = [offset EXCEPT ![p] = @ + n]
  /\ UNCHANGED <<file, fileExists, fileOp, unwritten, fileRet, calls, base,
                 mixed, cut, quiet>>

(* fread(): a read() gives a piece of the file as it is now.               *)
ReadIn(p) ==
  /\ fileOp[p] = "load"
  /\ \E n \in 1 .. Shorter(Len(data[p]), Len(file)) - offset[p] :
       /\ data' = [data EXCEPT ![p] = Overlaid(@, offset[p], Upcoming(p, n))]
       /\ offset' = [offset EXCEPT ![p] = @ + n]
  /\ UNCHANGED <<file, fileExists, fileOp, unwritten, fileRet, calls, base,
                 mixed, cut, quiet>>

(* A read() fails, on the first bytes (of a directory, say) or later, and  *)
(* fread() with it: what was read stays in the memory, no more is read.    *)
ReadFails(p) ==
  /\ fileOp[p] = "load" /\ offset[p] < Len(data[p])
  /\ fileOp' = [fileOp EXCEPT ![p] = "loadFailed"]
  /\ UNCHANGED <<file, fileExists, unwritten, offset, data, fileRet, calls, base,
                 mixed, cut, quiet>>

(* OK, also for a file that is shorter than len and after a read() that    *)
(* failed.                                                                 *)
LoadReturns(p) ==
  /\ \/ fileOp[p] = "load" /\ offset[p] >= Shorter(Len(data[p]), Len(file))
     \/ fileOp[p] = "loadFailed"
  /\ fileRet' = OK
  /\ fileOp' = [fileOp EXCEPT ![p] = "idle"]
  /\ quiet' = quiet \ {p}
  /\ UNCHANGED <<file, fileExists, unwritten, offset, data, calls, base, mixed,
                 cut>>

(* The process ends in the middle of a call, with the bytes in its FILE.   *)
Die(p) ==
  /\ fileOp[p] # "idle" /\ fileOp[p] # "dead"
  /\ fileOp' = [fileOp EXCEPT ![p] = "dead"]
  /\ cut' = (cut \/ unwritten[p] # <<>>)
  /\ quiet' = quiet \ {p}
  /\ UNCHANGED <<file, fileExists, unwritten, offset, data, fileRet, calls,
                 base, mixed>>

FileNext ==
  \E p \in Processes :
    \/ FileRefuse(p)
    \/ \E len \in DataLens : OpenToWrite(p, len) \/ OpenToLoad(p, len)
    \/ OpenToAppend(p)
    \/ WriteOut(p) \/ WriteFails(p) \/ WriteReturns(p)
    \/ ReadIn(p) \/ ReadFails(p) \/ LoadReturns(p)
    \/ Die(p)

FileSpec == FileInit /\ [][FileNext]_fileVars

-----------------------------------------------------------------------------
FileBytes == ({"data", "text", "memory", "hole"} \X Nat \X Nat)

(* Every variable has its type, and no load writes behind its memory.      *)
FileTypeOK ==
  /\ file \in Seq(FileBytes) /\ fileExists \in BOOLEAN
  /\ fileOp \in [Processes ->
                   {"idle", "write", "append", "load", "loadFailed", "dead"}]
  /\ unwritten \in [Processes -> Seq(FileBytes)]
  /\ offset \in [Processes -> Nat]
  /\ \A p \in Processes : /\ data[p] \in Seq(FileBytes)
                          /\ Len(data[p]) \in DataLens \cup {0}
  /\ fileRet \in {-1, OK, INVALID_ARGUMENT, CANNOT_OPEN_FILE, PtrSize}
  /\ calls \in 0 .. MaxFileCalls
  /\ base \in (0 .. MaxFileCalls) \X Nat
  /\ mixed \in BOOLEAN /\ cut \in BOOLEAN /\ quiet \subseteq Processes

(* The file is k bytes of the last write_data_to_file and appends behind   *)
(* them, whole ones if `whole`.                                            *)
Consists(k, whole) ==
  /\ SubSeq(file, 1, k) = Data(base[1], k)
  /\ \A i \in k + 1 .. Len(file) : file[i][1] = "text"
  /\ whole =>
       /\ (Len(file) - k) % PtrSize = 0
       /\ \A i \in k + 1 .. Len(file) :
            LET r == (i - k - 1) % PtrSize
            IN  file[i][3] = r + 1 /\ file[i][2] = file[i - r][2]

(* A crash or a failed write at any step leaves the new data, cut short,   *)
(* and never a mixture with what the file held before; without one the     *)
(* data is whole once it was written, and appends of several processes at  *)
(* once stay whole, one behind the other.                                  *)
FileIsAccounted ==
  ~mixed =>
    /\ \E k \in 0 .. Shorter(base[2], Len(file)) : Consists(k, FALSE)
    /\ ~cut /\ (\A p \in Writers : fileOp[p] # "write") =>
         base[2] <= Len(file) /\ Consists(base[2], TRUE)

(* However several processes write at once: every byte of a write is where *)
(* it was in memory, and the file has holes only if one process emptied it *)
(* while another one wrote.                                                *)
DataKeepsItsPlace ==
  \A i \in DOMAIN file :
    /\ file[i][1] = "data" => file[i][3] = i
    /\ file[i] = Hole => mixed

(* A load during which nobody writes returns OK with the first bytes of    *)
(* the file, and with all of them up to len unless a read() failed; behind *)
(* them the memory is as it was.                                           *)
LoadGivesTheFile ==
  [][\A p \in quiet :
       fileOp[p] \in {"load", "loadFailed"} /\ fileOp'[p] = "idle" =>
         /\ fileRet' = OK
         /\ \E k \in 0 .. Shorter(Len(data[p]), Len(file)) :
              /\ \A i \in 1 .. Len(data[p]) :
                   data[p][i] = IF i <= k THEN file[i] ELSE Memory(i)
              /\ fileOp[p] = "load" => k = Shorter(Len(data[p]), Len(file))]_fileVars
=============================================================================
