-------------------------------- MODULE MiSTerFS --------------------------------
(***************************************************************************)
(* The shared-folder driver of DOS (src/sw/MiSTerFS): a program that hooks *)
(* INT 2Fh, takes the redirector calls for its drive, and passes each as a *)
(* query through the shared window at CE000h to the host, which runs       *)
(* beside it and watches a mark there.  DOS makes one call at a time; the  *)
(* host acts at any moment, and other resident programs come and go.       *)
(***************************************************************************)
EXTENDS Integers, Sequences

CONSTANTS
    Marks,          \* values of the low byte of request_flg: 256
    CHUNKLEN,       \* bytes of a file in one query: 1024
    MaxSize,        \* bytes the host has room for
    Tokens,         \* values of glob_ff_token: 65536
    Drive,          \* the drives DOS has a CDS for
    Tasks           \* one is run: what DOS is asked and what the host has

ASSUME MiSTerFSAssumption ==
    /\ Marks \in Nat /\ Marks > 1 /\ Tokens \in Nat /\ Tokens > 1
    /\ CHUNKLEN \in Nat \ {0} /\ MaxSize \in Nat

\* A program moves in a file to places the host has room for, and searches no
\* directory while the driver may be unloaded: installed again it would give
\* the tokens of searches that go on.
ASSUME TaskAssumption ==
    /\ "none" \notin Drive
    /\ \A t \in Tasks :
          /\ t.drive \in Drive \cup {"none"} /\ t.file \in Seq(Nat)
          /\ t.seeks \subseteq 0 .. MaxSize - 1
          /\ "none" \notin DOMAIN t.entries
          /\ \A tmpl \in DOMAIN t.entries : t.entries[tmpl] \in Seq(STRING)
          /\ \A c \in t.calls :
                /\ c.op = "READFIL" => c.cx \in Nat
                /\ c.op = "WRITEFIL" => c.data \in Seq(Nat) /\ c.cx = Len(c.data)
                /\ c.op = "LOCKFIL" => c.cx \in Nat
                /\ c.op \in {"FINDFIRST", "FINDNEXT"} => c.search \in {"outer", "inner"}
                /\ c.op = "FINDFIRST" => ~t.programs

VARIABLES
    task,
    flag, reply,        \* request_flg[0] and [1]
    frame,              \* the rest of the window: a query or its answer
    driver,             \* process2f: its place, the call and the registers
    sft,                \* the entry of DOS's file table in use
    dta,                \* the directory search each program is at
    ff_token,           \* glob_ff_token
    buffer,             \* what the call has read to the caller's address
    host,               \* the last mark it saw, what it does, file and lists
    vector, prev,       \* the INT 2Fh chain: its top, whom each handler calls
    memory,             \* handlers whose memory is allocated
    cds,                \* per drive: free, local or net
    before,             \* history: file, position and bytes asked at the call
    listed              \* history: what each search was given, how many began since

window == <<flag, reply, frame>>
dos == <<sft, dta, buffer>>
chain == <<vector, prev, memory, cds>>
vars == <<task, window, driver, dos, ff_token, host, chain, before, listed>>

\* Words that are no marks: A345h, which enables the window, and A55Ah.
Enable == Marks
Special == Marks + 1
Search == {"outer", "inner"}
NoSearch == [drive |-> "none", par_clstr |-> 0, dir_entry |-> 0]
Idle == [pc |-> 0, call |-> [op |-> "none"], done |-> 0, ax |-> 0, cf |-> FALSE, cx |-> 0]

-----------------------------------------------------------------------------
\* The calls.
OnHandle == {"CLSFIL", "CMMTFIL", "READFIL", "WRITEFIL", "LOCKFIL", "UNLOCKFIL", "SKFMEND", "UNKNOWN_2D"}
OnPath == {"RMDIR", "MKDIR", "CHDIR", "SETATTR", "GETATTR", "RENAME", "DELETE", "OPEN", "CREATE", "SPOPNFIL"}
Opens == {"OPEN", "CREATE", "SPOPNFIL"}
Finds == {"FINDFIRST", "FINDNEXT"}
supportedfunctions == OnHandle \cup OnPath \cup Finds \cup {"DISKSPACE"}

\* glob_reqdrv: from the file table, the search, or the path or CDS given.
ReqDrive(c) == IF c.op \in OnHandle THEN sft.drive
               ELSE IF c.op = "FINDNEXT" THEN dta[c.search].drive
               ELSE c.drive

\* The error of a call refused before the host is asked, or 0; a path is short
\* when it has no more than a drive letter.
RefusedDir(c) == IF c.op = "RMDIR" /\ c.path = "current" THEN 16
                 ELSE IF c.path = "short" THEN 3 ELSE 0
RefusedTransfer(c) == IF IF c.op = "READFIL" THEN sft.mode % 2 = 1 ELSE sft.mode % 4 = 0 THEN 5 ELSE 0
RefusedName(c) == IF c.path = "short" THEN 2 ELSE 0
RefusedRename(c) == IF c.drive # c.drive2 \/ c.path = "short" THEN 2
                    ELSE IF c.path2 \in {"short", "wild"} THEN 3 ELSE 0
RefusedOpen(c) == IF c.path \in {"short", "wild"} THEN 3 ELSE 0

Refusal(c) ==
    CASE c.op \in {"RMDIR", "MKDIR", "CHDIR"}      -> RefusedDir(c)
      [] c.op \in {"READFIL", "WRITEFIL"}          -> RefusedTransfer(c)
      [] c.op \in {"SETATTR", "GETATTR", "DELETE"} -> RefusedName(c)
      [] c.op = "RENAME"                           -> RefusedRename(c)
      [] c.op \in Opens                            -> RefusedOpen(c)
      [] c.op = "UNLOCKFIL"                        -> 2
      [] OTHER                                     -> 0

\* sendquery returns at once, as if the host had answered 0 bytes, when the
\* query is longer than the frame: only a list of locks can be.
FRAMESIZE == 1090
TooLong(c) == c.op = "LOCKFIL" /\ (8 * c.cx + 4) % 65536 > FRAMESIZE

AsksNothing(c) == \/ c.op \in {"CMMTFIL", "UNKNOWN_2D"}
                  \/ c.op \in {"READFIL", "WRITEFIL"} /\ c.cx = 0
                  \/ TooLong(c)

\* AX of a call that asks the host nothing, and whether it failed.
AtOnce(c) == IF Refusal(c) # 0 THEN [ax |-> Refusal(c), cf |-> TRUE]
             ELSE IF c.op = "UNKNOWN_2D" THEN [ax |-> 2, cf |-> FALSE]
             ELSE IF TooLong(c) /\ c.bl > 1 THEN [ax |-> 2, cf |-> TRUE]
             ELSE [ax |-> 0, cf |-> FALSE]

Least(a, b) == IF a < b THEN a ELSE b

\* A bug: each chunk is read from where the file was when the call came.
ReadOffset_Start(done) == sft.pos

ReadOffset(done) == sft.pos + done
ChunkLength(c, done) == Least(c.cx - done, CHUNKLEN)

Query(c, done) ==
    CASE c.op = "READFIL"   -> [op |-> c.op, at |-> ReadOffset(done), len |-> ChunkLength(c, done)]
      [] c.op = "WRITEFIL"  -> [op |-> c.op, at |-> sft.pos,
                                data |-> SubSeq(c.data, done + 1, done + ChunkLength(c, done))]
      [] c.op \in Opens     -> [op |-> c.op, mode |-> c.mode]
      [] c.op = "FINDFIRST" -> [op |-> c.op, token |-> ff_token, tmpl |-> c.tmpl]
      [] c.op = "FINDNEXT"  -> [op |-> c.op, token |-> dta[c.search].par_clstr,
                                entry |-> dta[c.search].dir_entry]
      [] c.op = "LOCKFIL" /\ c.bl > 1 -> [op |-> "DISKSPACE"]     \* AL_LOCKFIL + BL
      [] OTHER              -> [op |-> c.op]

\* A bug: every search has the same token.
NextToken_Same(c) == ff_token

NextToken(c) == IF c.op = "FINDFIRST" THEN (ff_token + 1) % Tokens ELSE ff_token

-----------------------------------------------------------------------------
\* inthandler: a call for the driver starts, the others go down the chain.
Ours(c) == /\ c.op \in supportedfunctions
           /\ ReqDrive(c) \in {d \in Drive : cds[d] = "net"}

Down == [dos |-> "dos", us |-> prev["us"], other |-> prev["other"]]
Reached == {vector, Down[vector], Down[Down[vector]]}

\* What DOS can ask: files are opened before they are used and closed once,
\* a search goes on after it began, and none outlives Tokens - 1 others.
Possible(c) ==
    /\ c.op \in OnHandle => sft.count > 0
    /\ c.op \in Opens => sft.count = 0
    /\ c.op = "FINDNEXT" => ~listed[c.search].done
    /\ c.op = "FINDFIRST" => \A s \in Search \ {c.search} :
                                 ~listed[s].done => listed[s].younger < Tokens - 1

\* The host has seen the driver's program start (external: it polls).
HostAwake == flag = Enable => host.seen = Enable

Called(c) == [Idle EXCEPT !.call = c, !.cx = IF c.op \in {"READFIL", "WRITEFIL"} THEN c.cx ELSE 0]

\* sft->handle_count, which DOS raises at an open and the driver lowers.
Closed(c) == IF c.op = "CLSFIL" THEN [sft EXCEPT !.count = @ - 1] ELSE sft

Call(c) ==
    /\ driver.pc = 0 /\ Possible(c) /\ HostAwake
    /\ before' = [file |-> host.file, pos |-> sft.pos, cx |-> Called(c).cx]
    /\ buffer' = <<>>
    /\ IF "us" \notin Reached \/ ~Ours(c)
       THEN driver' = [Idle EXCEPT !.call = c] /\ UNCHANGED <<sft, dta, ff_token>>
       ELSE IF Refusal(c) # 0 \/ AsksNothing(c)
       THEN /\ driver' = [Called(c) EXCEPT !.ax = AtOnce(c).ax, !.cf = AtOnce(c).cf]
            /\ UNCHANGED <<sft, dta, ff_token>>
       ELSE /\ driver' = [Called(c) EXCEPT !.pc = 1]
            /\ sft' = Closed(c)
            /\ UNCHANGED <<dta, ff_token>>
    /\ UNCHANGED <<task, window, host, chain, listed>>

\* The length of a good answer.
GoodLength(op) ==
    CASE op = "DISKSPACE" -> 6
      [] op = "GETATTR"   -> 10
      [] op = "SKFMEND"   -> 4
      [] op = "WRITEFIL"  -> 2
      [] op \in Opens     -> 25
      [] op \in Finds -> 24
      [] OTHER            -> 0

-----------------------------------------------------------------------------
\* sendquery: the frame, the special value, the mark, and the wait.
NextMark(f) == IF f = Enable THEN 0 ELSE (f + 1) % Marks

\* A bug: the answer's place is prepared after the host has been told.
Protocol_ArmLate == <<"fill", "post", "arm">>

Protocol == <<"fill", "arm", "post">>
Waiting == Len(Protocol) + 1
At(step) == driver.pc \in DOMAIN Protocol /\ Protocol[driver.pc] = step
Advance == driver' = [driver EXCEPT !.pc = @ + 1]

FillFrame == /\ At("fill") /\ Advance
             /\ frame' = Query(driver.call, driver.done)
             /\ ff_token' = NextToken(driver.call)
             /\ UNCHANGED <<task, flag, reply, dos, host, chain, before, listed>>

Arm == /\ At("arm") /\ Advance
       /\ reply' = Special
       /\ UNCHANGED <<task, flag, frame, dos, ff_token, host, chain, before, listed>>

Post == /\ At("post") /\ Advance
        /\ flag' = NextMark(flag)
        /\ UNCHANGED <<task, reply, frame, dos, ff_token, host, chain, before, listed>>

-----------------------------------------------------------------------------
\* The host (external).  It notices a new mark, carries out the query, writes
\* the answer into the frame and then the mark back.
Bytes(file, at, n) == [i \in 1 .. n |-> IF i + at <= Len(file) THEN file[i + at] ELSE 0]
Overwritten(file, at, data) ==
    IF data = <<>> THEN file
    ELSE Bytes(file, 0, at) \o data \o SubSeq(file, at + Len(data) + 1, Len(file))
Beyond(file, at) == IF at < Len(file) THEN Len(file) - at ELSE 0
Room(at) == IF at < MaxSize THEN MaxSize - at ELSE 0
Failures == {[len |-> 0, ax |-> 5], [len |-> 65535, ax |-> 0]}
Entries(tmpl) == IF tmpl \in DOMAIN task.entries THEN task.entries[tmpl] ELSE <<>>
NoMore == [len |-> 0, ax |-> 18]

\* What it may answer, with the file and the lists afterwards.
Found(q, list, n) == IF n > Len(list) THEN NoMore
                     ELSE [len |-> 24, ax |-> 0, par_clstr |-> q.token, dir_entry |-> n, name |-> list[n]]
Outcomes(q) ==
    LET same(answers) == {[answer |-> a, file |-> host.file, lists |-> host.lists] : a \in answers}
    IN  CASE q.op = "READFIL" ->
                LET n == Least(q.len, Beyond(host.file, q.at))
                IN  same({[len |-> n, ax |-> 0, data |-> Bytes(host.file, q.at, n)]} \cup Failures)
          [] q.op = "WRITEFIL" ->
                LET n == Least(Len(q.data), Room(q.at))
                IN  {[answer |-> [len |-> 2, ax |-> 0, n |-> n], lists |-> host.lists,
                      file |-> Overwritten(host.file, q.at, SubSeq(q.data, 1, n))]} \cup same(Failures)
          [] q.op \in Opens ->
                {[answer |-> [len |-> 25, ax |-> 0, size |-> Len(f), mode |-> q.mode], lists |-> host.lists, file |-> f] :
                    f \in {host.file} \cup (IF q.op = "OPEN" THEN {} ELSE {<<>>})} \cup same(Failures)
          [] q.op = "FINDFIRST" ->
                {[answer |-> Found(q, Entries(q.tmpl), 1), file |-> host.file,
                  lists |-> [host.lists EXCEPT ![q.token] = Entries(q.tmpl)]]} \cup same(Failures)
          [] q.op = "FINDNEXT" -> same({Found(q, host.lists[q.token], q.entry + 1)} \cup Failures)
          [] OTHER -> same({[len |-> GoodLength(q.op), ax |-> 0]} \cup Failures)

HostSees ==
    /\ host.pc = "watch" /\ flag # host.seen
    /\ host' = [host EXCEPT !.seen = flag, !.pc = IF flag = Enable THEN "watch" ELSE "work"]
    /\ UNCHANGED <<task, window, driver, dos, ff_token, chain, before, listed>>

HostWorks ==
    /\ host.pc = "work"
    /\ \E o \in Outcomes(frame) :
           /\ frame' = o.answer
           /\ host' = [host EXCEPT !.pc = "mark", !.file = o.file, !.lists = o.lists]
    /\ UNCHANGED <<task, flag, reply, driver, dos, ff_token, chain, before, listed>>

HostMarks ==
    /\ host.pc = "mark"
    /\ reply' = host.seen
    /\ host' = [host EXCEPT !.pc = "watch"]
    /\ UNCHANGED <<task, flag, frame, driver, dos, ff_token, chain, before, listed>>

-----------------------------------------------------------------------------
\* The answer, by what sendquery returned and *ax.
SUCCESSFLAG == [ax |-> 0, cf |-> FALSE]
FAILFLAG(e) == [ax |-> e, cf |-> TRUE]

DirResult(c, a) == IF a.len # 0 THEN FAILFLAG(IF c.op = "CHDIR" THEN 3 ELSE 2)
                   ELSE [ax |-> a.ax, cf |-> a.ax # 0]
CloseResult(a) == IF a.len = 0 /\ a.ax # 0 THEN FAILFLAG(a.ax) ELSE SUCCESSFLAG
LockResult(c, a) == IF a.len # 0 \/ c.bl > 1 THEN FAILFLAG(2) ELSE SUCCESSFLAG
SpaceResult(a) == IF a.len # 6 THEN FAILFLAG(2) ELSE [ax |-> a.ax, cf |-> FALSE]
ChangeResult(a) == IF a.len # 0 THEN FAILFLAG(2) ELSE IF a.ax # 0 THEN FAILFLAG(a.ax) ELSE SUCCESSFLAG
ReadResult(a) == IF a.len = 65535 THEN FAILFLAG(2) ELSE IF a.ax # 0 THEN FAILFLAG(a.ax) ELSE SUCCESSFLAG
FindResult(c, a) == IF a.len = 65535 THEN FAILFLAG(IF c.op = "FINDFIRST" THEN 2 ELSE 18)
                    ELSE IF a.ax # 0 \/ a.len # 24 THEN FAILFLAG(a.ax) ELSE SUCCESSFLAG
WholeResult(c, a) == IF a.len = 65535 THEN FAILFLAG(2)
                     ELSE IF a.ax # 0 \/ a.len # GoodLength(c.op) THEN FAILFLAG(a.ax) ELSE SUCCESSFLAG

Result(c, a) ==
    CASE c.op \in {"RMDIR", "MKDIR", "CHDIR"} -> DirResult(c, a)
      [] c.op = "CLSFIL"                      -> CloseResult(a)
      [] c.op = "LOCKFIL"                     -> LockResult(c, a)
      [] c.op = "DISKSPACE"                   -> SpaceResult(a)
      [] c.op \in {"SETATTR", "RENAME"}       -> ChangeResult(a)
      [] c.op = "READFIL"                     -> ReadResult(a)
      [] c.op \in Finds                       -> FindResult(c, a)
      [] OTHER                                -> WholeResult(c, a)

\* Whether another chunk follows one of n bytes, which made it done.
MoreToDo(c, n, done) == done < c.cx /\ n = ChunkLength(c, done - n)

Take(c, a) == driver' = [driver EXCEPT !.pc = 0, !.ax = Result(c, a).ax, !.cf = Result(c, a).cf]

TakeRead(c, a) ==
    LET done == driver.done + a.len
        more == MoreToDo(c, a.len, done)
    IN  IF Result(c, a).cf THEN Take(c, a) /\ UNCHANGED <<sft, buffer>>
        ELSE /\ buffer' = SubSeq(buffer, 1, driver.done) \o a.data
             /\ sft' = IF more THEN sft ELSE [sft EXCEPT !.pos = @ + done]
             /\ driver' = [driver EXCEPT !.done = done, !.pc = IF more THEN 1 ELSE 0,
                                         !.cx = IF more THEN @ ELSE done]

TakeWrite(c, a) ==
    LET done == driver.done + a.n
    IN  IF Result(c, a).cf THEN Take(c, a) /\ UNCHANGED <<sft, buffer>>
        ELSE /\ sft' = [sft EXCEPT !.pos = @ + a.n,
                                   !.size = IF sft.pos + a.n > @ THEN sft.pos + a.n ELSE @]
             /\ driver' = [driver EXCEPT !.done = done, !.cx = done,
                                         !.pc = IF MoreToDo(c, a.n, done) THEN 1 ELSE 0]
             /\ UNCHANGED buffer

\* The file table's entry is filled in; DOS counts the handle itself.
TakeOpen(c, a) ==
    /\ Take(c, a)
    /\ sft' = IF Result(c, a).cf THEN sft
              ELSE [count |-> 1, mode |-> a.mode, drive |-> ReqDrive(c), size |-> a.size, pos |-> 0]
    /\ UNCHANGED buffer

NothingListed(tmpl) == [tmpl |-> tmpl, names |-> <<>>, done |-> FALSE, failed |-> FALSE, younger |-> 0]
Begun(c) == [s \in Search |-> IF s = c.search THEN NothingListed(c.tmpl)
                              ELSE IF listed[s].done THEN listed[s]
                              ELSE [listed[s] EXCEPT !.younger = @ + 1]]

\* A program goes on with FINDNEXT until it is told 18, no more files: that
\* is what the host answers after the last entry, and what the driver makes of
\* a FINDNEXT the host could not carry out.
Ends(c, a) == Result(c, a).cf /\ (c.op = "FINDFIRST" \/ Result(c, a).ax = 18)

\* The place a search goes on from is kept in its own DTA.
TakeFind(c, a) ==
    /\ Take(c, a)
    /\ dta' = [dta EXCEPT ![c.search] =
                  IF Result(c, a).cf THEN @
                  ELSE [drive |-> ReqDrive(c), par_clstr |-> a.par_clstr, dir_entry |-> a.dir_entry]]
    /\ LET began == IF c.op = "FINDFIRST" THEN Begun(c) ELSE listed
           l == began[c.search]
       IN  listed' = [began EXCEPT ![c.search] =
                         IF Ends(c, a) THEN [l EXCEPT !.done = TRUE, !.younger = 0, !.failed = a \in Failures]
                         ELSE IF Result(c, a).cf THEN l
                         ELSE [l EXCEPT !.names = Append(@, a.name)]]

TakeAnswer ==
    LET c == driver.call
    IN  /\ driver.pc = Waiting /\ reply = flag
        /\ CASE c.op = "READFIL"  -> TakeRead(c, frame) /\ UNCHANGED <<dta, listed>>
             [] c.op = "WRITEFIL" -> TakeWrite(c, frame) /\ UNCHANGED <<dta, listed>>
             [] c.op \in Opens    -> TakeOpen(c, frame) /\ UNCHANGED <<dta, listed>>
             [] c.op \in Finds -> TakeFind(c, frame) /\ UNCHANGED <<sft, buffer>>
             [] OTHER             -> Take(c, frame) /\ UNCHANGED <<dos, listed>>
        /\ UNCHANGED <<task, window, ff_token, host, chain, before>>

\* while(n != *p){};
Spin == driver.pc = Waiting /\ reply # flag /\ UNCHANGED vars

-----------------------------------------------------------------------------
\* main: the program is run to install the driver, or to unload it (/u).
Resident == "us" \in Reached

\* A bug: the driver leaves though another program stands above it.
AtTop_Anywhere(handler) == handler \in Reached

AtTop(handler) == vector = handler

Runs == driver.pc = 0 /\ task.programs /\ flag' = Enable

\* It gives up: bad arguments, old DOS, installed already, drive in use, no memory.
MainFails == /\ Runs
             /\ UNCHANGED <<task, reply, frame, driver, dos, ff_token, host, chain, before, listed>>

MainInstalls ==
    /\ Runs /\ ~Resident
    /\ \E d \in Drive : cds[d] = "free" /\ cds' = [cds EXCEPT ![d] = "net"]
    /\ memory' = memory \cup {"us"}
    /\ vector' = "us" /\ prev' = [prev EXCEPT !["us"] = vector]
    /\ ff_token' = 0
    /\ UNCHANGED <<task, reply, frame, driver, dos, host, before, listed>>

MainUnloads ==
    /\ Runs /\ Resident /\ AtTop("us")
    /\ vector' = prev["us"] /\ memory' = memory \ {"us"}
    /\ cds' = [d \in Drive |-> IF cds[d] = "net" THEN "free" ELSE cds[d]]
    /\ UNCHANGED <<task, reply, frame, driver, dos, ff_token, host, prev, before, listed>>

-----------------------------------------------------------------------------
\* Another resident program (external), and DOS moving in the file.
OtherComes == /\ driver.pc = 0 /\ task.programs /\ "other" \notin Reached
              /\ vector' = "other" /\ prev' = [prev EXCEPT !["other"] = vector]
              /\ memory' = memory \cup {"other"}
              /\ UNCHANGED <<task, window, driver, dos, ff_token, host, cds, before, listed>>

OtherLeaves == /\ driver.pc = 0 /\ task.programs /\ vector = "other"
               /\ vector' = prev["other"] /\ memory' = memory \ {"other"}
               /\ UNCHANGED <<task, window, driver, dos, ff_token, host, prev, cds, before, listed>>

Seek == /\ driver.pc = 0 /\ sft.count > 0
        /\ \E pos \in task.seeks : sft' = [sft EXCEPT !.pos = pos]
        /\ UNCHANGED <<task, window, driver, dta, buffer, ff_token, host, chain, before, listed>>

-----------------------------------------------------------------------------
Init ==
    /\ task \in Tasks
    /\ flag = Enable /\ reply = 0 /\ frame = [op |-> "none"]
    /\ driver = Idle
    /\ sft = [count |-> 0, mode |-> 0, drive |-> "none", size |-> 0, pos |-> 0]
    /\ dta = [s \in Search |-> NoSearch] /\ buffer = <<>> /\ ff_token = 0
    /\ host = [seen |-> Special, pc |-> "watch", file |-> task.file, lists |-> [t \in 0 .. Tokens - 1 |-> <<>>]]
    /\ vector = IF task.drive = "none" THEN "dos" ELSE "us"
    /\ prev = [us |-> "dos", other |-> "dos"]
    /\ memory = {"dos", vector}
    /\ cds = [d \in Drive |-> IF d = task.drive THEN "net" ELSE IF d = "A" THEN "local" ELSE "free"]
    /\ before = [file |-> task.file, pos |-> 0, cx |-> 0]
    /\ listed = [s \in Search |-> [NothingListed("none") EXCEPT !.done = TRUE]]

SendQuery == FillFrame \/ Arm \/ Post \/ Spin \/ TakeAnswer
Host == HostSees \/ HostWorks \/ HostMarks
Next == \/ \E c \in task.calls : Call(c)
        \/ SendQuery \/ Host
        \/ MainFails \/ MainInstalls \/ MainUnloads
        \/ OtherComes \/ OtherLeaves \/ Seek

\* The processor and the host go on; nobody has to call.
Spec == Init /\ [][Next]_vars /\ WF_vars(SendQuery) /\ WF_vars(Host)

-----------------------------------------------------------------------------
(* Properties *)

\* Whatever the host does and however many chunks it takes, a read that
\* succeeds gives the bytes of the file from where it stood, as many as there
\* are, and moves on by them; one that fails moves nothing.  A write leaves the
\* file as it was but for as many of its bytes as the position has moved by,
\* and the size DOS knows is the file's.
Returns(op) == driver.pc = Waiting /\ driver'.pc = 0 /\ driver.call.op = op
ReadExact ==
    LET n == Least(before.cx, Beyond(before.file, before.pos))
    IN  /\ driver'.cf => sft'.pos = before.pos
        /\ ~driver'.cf => /\ driver'.cx = n /\ sft'.pos = before.pos + n
                          /\ buffer' = Bytes(before.file, before.pos, n)
WriteExact ==
    LET n == sft'.pos - before.pos
    IN  /\ host'.file = Overwritten(before.file, before.pos, SubSeq(driver.call.data, 1, n))
        /\ ~driver'.cf => driver'.cx = n
        /\ sft'.size = Len(host'.file)
FilesExact == [][(Returns("READFIL") => ReadExact) /\ (Returns("WRITEFIL") => WriteExact)]_vars

\* Searches that go on at the same time, one inside the other, are each given
\* every entry once, in order, and all of them before they are told there are
\* no more (glob_ff_token and the place kept in the DTA), unless the host could
\* not carry out the query: a FINDNEXT that fails so is told as "no more files"
\* too, and the program cannot tell the two apart.
SearchesExact ==
    \A s \in Search :
        LET all == Entries(listed[s].tmpl)
        IN  /\ Len(listed[s].names) <= Len(all)
            /\ listed[s].names = SubSeq(all, 1, Len(listed[s].names))
            /\ listed[s].done => listed[s].names = all \/ listed[s].failed

\* No call of INT 2Fh ever runs through memory that has been freed, whoever
\* came and left in whatever order, no resident program is cut out of it, and
\* DOS sends a drive's calls to the redirector only while the driver is there.
ChainSound == /\ Reached = memory
              /\ (\E d \in Drive : cds[d] = "net") <=> Resident

\* Every call comes back: the host's answer is never wiped out by the driver
\* that waits for it, and its mark is never one the host has seen already.
CallsReturn == []<>(driver.pc = 0)
=============================================================================
