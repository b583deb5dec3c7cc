---------------------------------- MODULE Pic ----------------------------------
(***************************************************************************)
(* The two interrupt controllers (src/rtl/soc/pic.v) between the devices'  *)
(* request lines and the processor, which takes an interrupt between two   *)
(* instructions (pipeline/write.v, exception.v), and the program that sets *)
(* them up, masks lines and ends interrupts.  One step is one clock; what  *)
(* drives the lines and what the program does come from a task.            *)
(***************************************************************************)
EXTENDS I8259

CONSTANT Tasks          \* one is run: what the lines and the program do

Which == {"master", "slave"}
Line == 0 .. 15
Write == [chip : Which, a : {0, 1}, d : ByteValue]
\* Each line of a task rises a number of times; the steady ones are held until
\* their interrupt is taken, the others fall at any time.  The program writes
\* setup once, masks as it likes, ends interrupts with the given EOI, and
\* enables interrupts in its handlers if nested.
IsTask(t) == /\ t.setup \in Seq(Write) /\ t.masks \subseteq {w \in Write : w.a = 1}
             /\ DOMAIN t.rises \subseteq Line \ {2} /\ \A l \in DOMAIN t.rises : t.rises[l] \in Nat
             /\ t.steady \subseteq DOMAIN t.rises
             /\ t.eoi \in {"unspecific", "specific", "rotating", "automatic"}
             /\ t.nested \in BOOLEAN

\* The BIOS writes ICW1 to ICW4 and the mask to both controllers in turn: edges,
\* four words, two vectors, the slave at level 2 (post, int15_function AH=89h).
SetsUp(t) ==
    LET d == [n \in 1 .. 10 |-> t.setup[n].d]
    IN  /\ Len(t.setup) = 10
        /\ \A n \in 1 .. 10 : /\ t.setup[n].chip = IF n % 2 = 1 THEN "master" ELSE "slave"
                              /\ t.setup[n].a = IF n <= 2 THEN 0 ELSE 1
        /\ \A n \in {1, 2} : Bit(d[n], 4) /\ ~Bit(d[n], 3) /\ Bit(d[n], 0)
        /\ High(d[3]) # High(d[4])
        /\ d[5] = 4
        /\ \A n \in {7, 8} : Bit(d[n], 1) <=> t.eoi = "automatic"

\* What the controllers need of a program and its devices: no request is
\* withdrawn or masked where handlers nest or priorities rotate, for then the
\* vector may name a level that is not taken; no handler is interrupted before
\* its rotating EOI; and where EOI is automatic nothing tells a spurious
\* interrupt at level 7 from a request, so its line is unused.
Undisturbed(t) == t.steady = DOMAIN t.rises /\ t.masks = {}
Orderly(t) == /\ t.nested /\ t.eoi # "automatic" => Undisturbed(t)
              /\ t.eoi = "rotating" => Undisturbed(t) /\ ~t.nested
              /\ t.eoi = "automatic" => DOMAIN t.rises \cap {7, 15} = {}

ASSUME PicAssumption == \A t \in Tasks : IsTask(t) /\ SetsUp(t) /\ Orderly(t)

VARIABLES
    task,
    pic,                \* [Which -> Chip]
    lines,              \* interrupt_input: the lines that are high
    cpu,                \* between instructions, in an OUT, or taking an interrupt
    enabled,            \* the interrupt flag
    setup,              \* writes of the task's setup to go
    handlers,           \* interrupts not returned from, the latest first
    edges, taken,       \* history: times each line rose and was taken
    passed              \* history: what was taken while a line waited

vars == <<task, pic, lines, cpu, enabled, setup, handlers, edges, taken, passed>>

-----------------------------------------------------------------------------
\* The wires between the chips.
Lines == DOMAIN task.rises
SlaveSelect == pic["master"].cascade /\ pic["master"].vector % 8 = 2
MasterLines == (lines \cap Level) \cup (IF pic["slave"].do THEN {2} ELSE {})
SlaveLines == {l \in Level : l + 8 \in lines}
Vector == IF SlaveSelect THEN pic["slave"].vector ELSE pic["master"].vector
\* A bug: the slave is told of every interrupt that is taken.
SlaveDone_Any(done) == done

SlaveDone(done) == done /\ SlaveSelect
Strobe(w, chip) == IF w.chip = chip THEN [on |-> TRUE, a |-> w.a, d |-> w.d] ELSE NoWrite
Quiet == [chip |-> "none", a |-> 0, d |-> 0]

PicClock(w, done) ==
    pic' = [master |-> Clock(pic["master"], Strobe(w, "master"), MasterLines, done),
            slave |-> Clock(pic["slave"], Strobe(w, "slave"), SlaveLines, SlaveDone(done))]

-----------------------------------------------------------------------------
\* The devices.  They are enabled after ICW1, which forgets requests.
Restarting == \E n \in DOMAIN setup : setup[n].a = 0
MayRise(l) == l \notin lines /\ edges[l] < task.rises[l] /\ ~Restarting
MayFall(l) == l \notin task.steady \/ taken[l] = edges[l]
LinesMove ==
    \E up \in SUBSET {l \in Lines : MayRise(l)} :
        \E down \in SUBSET {l \in lines : MayFall(l)} :
            /\ lines' = (lines \cup up) \ down
            /\ edges' = [l \in DOMAIN edges |-> edges[l] + (IF l \in up THEN 1 ELSE 0)]

-----------------------------------------------------------------------------
\* The program.
Eoi(chip, level) ==
    [chip |-> chip, a |-> 0,
     d |-> CASE task.eoi = "specific" -> 96 + level
             [] task.eoi = "rotating" -> 224 + level
             [] OTHER                 -> 32]

\* An interrupt at level 7 is spurious when the controller does not show it in
\* service: the handler reads it and ends nothing but the cascade.
Ends(chip, level, real) ==
    IF task.eoi = "automatic" THEN <<>>
    ELSE (IF chip = "slave" /\ real THEN <<Eoi("slave", level)>> ELSE <<>>)
         \o (IF chip = "slave" THEN <<Eoi("master", 2)>>
             ELSE IF real THEN <<Eoi("master", level)>> ELSE <<>>)

LineOf(chip, level) == IF chip = "slave" THEN level + 8 ELSE level

\* Lines whose request the controllers hold.
Waiting == {l \in Lines : IF l \in Level THEN l \in pic["master"].irr \ pic["master"].imr
                                ELSE l - 8 \in pic["slave"].irr \ pic["slave"].imr}

-----------------------------------------------------------------------------
\* One clock of each kind.
Init ==
    /\ task \in Tasks
    /\ pic = [chip \in Which |-> InReset]
    /\ lines = {}
    /\ cpu = "run" /\ enabled = FALSE
    /\ setup = task.setup
    /\ handlers = <<>>
    /\ edges = [l \in Lines |-> 0] /\ taken = [l \in Lines |-> 0]
    /\ passed = [l \in Lines |-> {}]

\* The processor does nothing the controllers see.
Idle == /\ cpu \in {"run", "out", "possible"}
        /\ PicClock(Quiet, FALSE) /\ LinesMove
        /\ cpu' = [run |-> "run", out |-> "run", possible |-> "done"][cpu]
        /\ UNCHANGED <<task, enabled, setup, handlers, taken, passed>>

Out(w) == cpu = "run" /\ PicClock(w, FALSE) /\ LinesMove /\ cpu' = "out"

SetUp == /\ setup # <<>>
         /\ Out(Head(setup))
         /\ setup' = Tail(setup)
         /\ enabled' = (Tail(setup) = <<>>)
         /\ UNCHANGED <<task, handlers, taken, passed>>

Mask == /\ setup = <<>> /\ handlers = <<>>
        /\ \E w \in task.masks : Out(w)
        /\ UNCHANGED <<task, enabled, setup, handlers, taken, passed>>

\* The instruction ends, and an interrupt is asked for and enabled.
Accept == /\ cpu = "run" /\ enabled /\ pic["master"].do
          /\ PicClock(Quiet, FALSE) /\ LinesMove
          /\ cpu' = "possible"
          /\ UNCHANGED <<task, enabled, setup, handlers, taken, passed>>

\* interrupt_done: the processor reads the vector and runs its handler.
Done ==
    LET chip == IF Vector \div 8 = pic["slave"].offset THEN "slave" ELSE "master"
        level == Vector % 8
        real == level # 7 \/ task.eoi = "automatic" \/ level \in pic'[chip].isr
        line == LineOf(chip, level)
    IN  /\ cpu = "done"
        /\ PicClock(Quiet, TRUE) /\ LinesMove
        /\ cpu' = "run" /\ enabled' = FALSE
        /\ handlers' = <<[chip |-> chip, level |-> level, real |-> real,
                          ends |-> Ends(chip, level, real)]>> \o handlers
        /\ taken' = [l \in DOMAIN taken |-> taken[l] + (IF real /\ l = line THEN 1 ELSE 0)]
        /\ passed' = [l \in DOMAIN passed |-> IF l # line /\ l \in Waiting
                                              THEN passed[l] \cup {line} ELSE {}]
        /\ UNCHANGED <<task, setup>>

EndInterrupt == /\ handlers # <<>> /\ Head(handlers).ends # <<>>
                /\ Out(Head(Head(handlers).ends))
                /\ handlers' = [handlers EXCEPT ![1].ends = Tail(@)]
                /\ UNCHANGED <<task, enabled, setup, taken, passed>>

EnableInHandler == /\ task.nested /\ handlers # <<>> /\ ~enabled /\ cpu = "run"
                   /\ PicClock(Quiet, FALSE) /\ LinesMove
                   /\ enabled' = TRUE
                   /\ UNCHANGED <<task, cpu, setup, handlers, taken, passed>>

Return == /\ handlers # <<>> /\ Head(handlers).ends = <<>> /\ cpu = "run"
          /\ PicClock(Quiet, FALSE) /\ LinesMove
          /\ handlers' = Tail(handlers) /\ enabled' = TRUE
          /\ UNCHANGED <<task, cpu, setup, taken, passed>>

Next == \/ Idle \/ SetUp \/ Mask \/ Accept \/ Done
        \/ EndInterrupt \/ EnableInHandler \/ Return

\* The clock runs, instructions end, and the program sets up, ends its
\* interrupts and returns.  An OUT only delays an interrupt to the next
\* boundary, where it is taken.
Fairness == WF_vars(Next) /\ SF_vars(Accept) /\ WF_vars(SetUp \/ EndInterrupt \/ Return)

Spec == Init /\ [][Next]_vars /\ Fairness

-----------------------------------------------------------------------------
(* Properties *)

\* The level a handler has in service at a chip.
Serves(h, chip) == IF h.chip = chip THEN h.level ELSE 2
Unended(chip) == {Serves(handlers[n], chip) : n \in {n \in DOMAIN handlers :
                      \E k \in DOMAIN handlers[n].ends : handlers[n].ends[k].chip = chip}}

\* What a controller has in service is what handlers have yet to end, however
\* they nest: each EOI ends its own interrupt, a request withdrawn or masked
\* while the processor was taking it leaves nothing behind, and nothing but
\* level 7 comes unasked (isr, spurious).
ServiceExact == \A chip \in Which : pic[chip].isr = Unended(chip)

\* A line is taken no more often than it has risen: no request is answered
\* twice, through one controller or two, though do, vector and irr are each
\* latched a clock apart.
OnePerEdge == \A l \in Lines : taken[l] <= edges[l]

\* The slave is acknowledged only while it asks, and so for the request it
\* showed: the cascade bit of the master never outlives it (slave_active).
SlaveAsks == cpu = "done" /\ SlaveSelect => pic["slave"].do

\* The controllers and the program agree on what has been asked and answered.
InterruptsExact == ServiceExact /\ OnePerEdge /\ SlaveAsks

\* An interrupt is put in service only above everything its controller already
\* has in service.
Outranks ==
    \A chip \in Which : \A l \in pic'[chip].isr \ pic[chip].isr :
        \A m \in pic[chip].isr : Rank(pic[chip], l) < Rank(pic[chip], m)

\* With a rotating EOI (lowest_priority <= io_writedata[2:0]) no line is taken
\* a second time while another line of its controller waits, and none of the
\* slave's while one of the master's does.
Rivals(l, m) == l # m /\ (l \in Level \/ m \notin Level)
TakesTurns ==
    Done /\ task.eoi = "rotating" =>
        \A l, m \in Lines : l \in Waiting /\ Rivals(l, m) /\ taken'[m] # taken[m] => m \notin passed[l]

\* Priority, fixed or rotating, is kept.
InTurn == [][Outranks /\ TakesTurns]_vars

\* Every rise of a line that stays high is taken in the end (the lines rise a
\* bounded number of times), though the slave has to ask anew for each of its
\* requests, and whatever is masked, withdrawn or spurious around it.
Served == <>[](\A l \in task.steady : taken[l] = edges[l])
=============================================================================
