------------------------------ MODULE Console ------------------------------
(***************************************************************************)
(* cmdloop of src/app/sdrcmd.c: it reads lines and has each executed, over *)
(* the library of Controls.  At the end of its input fgets leaves the      *)
(* buffer as it is, which the loop does not notice.                        *)
(***************************************************************************)
EXTENDS Controls

CONSTANTS Lines,           \* the lines a user types, as sequences of words
          MostLines        \* bound: how many are executed

\* strtok_r has ended the text behind the first word.
Cut(words) == IF words = <<>> THEN words ELSE <<words[1]>>

ASSUME LinesAssumption ==
  /\ \A words \in Lines : /\ Cut(words) \in Lines
                          /\ Len(words) > 1 /\ words[2].kind = "number" => words[2].n \in Int
  /\ MostLines \in Nat

VARIABLES sdr,             \* the library
          inbuf,           \* the line in the buffer
          ended,           \* whether the loop was left
          executed         \* history: the lines, and how a start would go

consoleVars == <<sdr, inbuf, ended, executed>>
-----------------------------------------------------------------------------
\* The buffer is not initialised.
ConsoleInit == sdr = NewLib /\ inbuf \in Lines /\ ended = FALSE /\ executed = <<>>

\* parseAndExecute, on the buffer.
Turn(words, outcome) ==
  /\ ~ended /\ Len(executed) < MostLines
  /\ LET done == Execute(sdr, words, outcome)
     IN  sdr' = done.lib /\ ended' = (done.ret < 0)
  /\ inbuf' = Cut(words)
  /\ executed' = Append(executed, [words |-> words, outcome |-> outcome])

\* A start has several outcomes, and no other command.
Ends(words) == IF words # <<>> /\ words[1].cmd = "start" THEN Outcomes ELSE {"started"}

ReadLine   == \E words \in Lines : \E outcome \in Ends(words) : Turn(words, outcome)
EndOfInput == \E outcome \in Ends(inbuf) : Turn(inbuf, outcome)

ConsoleNext == ReadLine \/ EndOfInput
ConsoleSpec == ConsoleInit /\ [][ConsoleNext]_consoleVars
-----------------------------------------------------------------------------
\* What the lines said.
Is(line, cmd)   == line.words # <<>> /\ line.words[1].cmd = cmd
Opens(line)     == Is(line, "start") /\ line.outcome # "refused"
Gives(line, cmd) == Is(line, cmd) /\ Sets(line.words)

StopsAfter(i) == {j \in DOMAIN executed : j > i /\ Is(executed[j], "stop")}

\* A start that found nothing open and left the device open with no reader.
Stuck(i) == /\ Opens(executed[i]) /\ executed[i].outcome = "threadless"
            /\ \A h \in DOMAIN executed : h < i /\ Opens(executed[h]) => \E j \in StopsAfter(h) : j < i

\* The starts that no line undid; a stop does not undo one that is stuck.
Since == {i \in DOMAIN executed : Opens(executed[i]) /\ (StopsAfter(i) = {} \/ Stuck(i))}

\* The device is open if and only if a start is not undone: a stop undoes it
\* unless its reader could not be created, for then nothing closes the device
\* again.  And an open device has the frequency of the last line that gave one
\* since the first such start, or the one of sdrStart: a start that finds it
\* open, a line cut short, a stop and a start in between, and the end of the
\* input retune nothing else.
TuningKept ==
  /\ sdr.open <=> Since # {}
  /\ \A first \in Since : (\A i \in Since : first <= i) =>
       LET tuned == {j \in DOMAIN executed : j > first /\ Gives(executed[j], "freq")}
       IN  \/ tuned = {} /\ sdr.freq = Tuned(StartFreq)
           \/ \E last \in tuned : /\ \A j \in tuned : j <= last
                                  /\ sdr.freq = Tuned(executed[last].words[2].n)

\* No number sets a gain out of range; a "nan" does.
GainInRange ==
  \/ sdr.gain \in 0 .. 10
  \/ \E i \in DOMAIN executed : Gives(executed[i], "gain") /\ executed[i].words[2].kind = "nan"

\* The device keeps what the console asked of it.
SettingsKept == TuningKept /\ GainInRange
=============================================================================
