------------------------------ MODULE Failures ------------------------------
(***************************************************************************)
(* SuiError.describe and SuiError.toJson: the line and the log entry of any *)
(* value that may be thrown.  To tell of a failure they read its cause and  *)
(* its message, and reading a message runs somebody else's getter, which    *)
(* may throw, or call describe or toJson again, of itself or of another.    *)
(* So may the toString of a value that says nothing else: a message is read *)
(* once at a time, but nothing keeps a toString from coming back to itself, *)
(* until the engine's stack is full.                                        *)
(*                                                                         *)
(* A call is a stack of frames; a line is the list of failures it tells of, *)
(* each by a sentence of its own or by what it is called.                   *)
(***************************************************************************)
EXTENDS Naturals, FiniteSets, SequencesExt

CONSTANTS
  Error,     \* the values there are
  NoError,
  Shapes,    \* what each may be: see Shape
  StackSize  \* how deep calls may nest: the engine's stack

VARIABLES
  heap,        \* the shape of each value
  stack,       \* the calls under way
  READING,     \* values whose line is being read
  SERIALIZING, \* values that are being serialized
  returned,    \* by the last frame that ended
  asked,       \* the call under way, or the last one
  lines        \* history: the first answer to each call

failureVars == <<heap, stack, READING, SERIALIZING, returned, asked, lines>>

(* What reading a message, or a name, does.                                 *)
Reading == [does : {"says", "nothing", "throws", "describe", "toJson"}, to : Error]

(* whose: of the taxonomy, Effect's ConfigError, a library's tagged error,  *)
(* or no tag at all; whole: it has the fields of its tag, or a schema of    *)
(* its own, or is an Error; name: the tag of a library's error, the name of *)
(* an Error and the toString of any other value, of which only the last     *)
(* runs.                                                                    *)
Shape ==
  [whose : {"taxonomy", "config", "library", "nobody"}, whole : BOOLEAN,
   cause : Error \cup {NoError}, outcome : {"unknown", "none"},
   message : Reading, name : Reading]

ASSUME ShapesAreShapes == Shapes \in [Error -> SUBSET Shape]

(* Nobody throws endlessly many values at once.                             *)
ASSUME ErrorsAreCounted == IsFiniteSet(Error) /\ NoError \notin Error

(* The stack takes what the guarded calls need, see TellingEnds.            *)
ASSUME StackSizeAssumption == StackSize \in Nat /\ StackSize > 3 * Cardinality(Error) + 2

Sentence(e) == <<[of |-> e, as |-> "sentence"]>>

Tagged(e) == <<[of |-> e, as |-> "tag"]>>

Nothing == <<>>

Value(line, outcome) == [line |-> line, outcome |-> outcome]

Pending == Value(Nothing, "pending")

(* What a call throws that finds the stack full.                            *)
Thrown == Value(Nothing, "thrown")

Frame(fn, e) == [fn |-> fn, of |-> e, pc |-> "called", marks |-> "none", fellBack |-> FALSE]

FailuresInit ==
  /\ heap \in {f \in [Error -> UNION {Shapes[e] : e \in Error}] :
                \A e \in Error : f[e] \in Shapes[e]}
  /\ stack = <<>> /\ READING = {} /\ SERIALIZING = {}
  /\ returned = Pending /\ asked = <<>>
  /\ lines = << >>

-----------------------------------------------------------------------------
(* Frames.                                                                  *)

top == stack[Len(stack)]

it == heap[top.of]

(* finally: whoever put a mark takes it off, however the reading ended.     *)
unmarked(marks, set) == IF top.marks = marks THEN set \ {top.of} ELSE set

Returns(line, outcome) ==
  /\ stack' = Front(stack)
  /\ READING' = unmarked("READING", READING)
  /\ SERIALIZING' = unmarked("SERIALIZING", SERIALIZING)
  /\ returned' = Value(line, outcome)
  /\ lines' = IF Len(stack) > 1 \/ asked \in DOMAIN lines THEN lines
              ELSE [c \in DOMAIN lines \cup {asked} |->
                      IF c = asked THEN returned' ELSE lines[c]]

Pushes(frame, fn, e) ==
  /\ stack' = Front(stack) \o <<[frame EXCEPT !.pc = "waits"], Frame(fn, e)>>
  /\ returned' = Pending
  /\ UNCHANGED <<READING, SERIALIZING, lines>>

Overflows(frame) ==
  /\ stack' = Front(stack) \o <<[frame EXCEPT !.pc = "waits"]>>
  /\ returned' = Thrown
  /\ UNCHANGED <<READING, SERIALIZING, lines>>

Calls(frame, fn, e) ==
  IF Len(stack) < StackSize THEN Pushes(frame, fn, e) ELSE Overflows(frame)

Marks(marks) ==
  /\ stack' = Front(stack) \o <<[top EXCEPT !.pc = "reads", !.marks = marks]>>
  /\ READING' = READING \cup (IF marks = "READING" THEN {top.of} ELSE {})
  /\ SERIALIZING' = SERIALIZING \cup (IF marks = "SERIALIZING" THEN {top.of} ELSE {})
  /\ UNCHANGED <<returned, lines>>

At(fn, pc) == stack # <<>> /\ top.fn = fn /\ top.pc = pc

-----------------------------------------------------------------------------
(* Lines.                                                                   *)

(* The tag there is, which may be empty; a value without one goes by        *)
(* UnknownError, or by its name.                                            *)
tagged == IF it.whose = "library" /\ it.name.does = "nothing" THEN Nothing ELSE Tagged(top.of)

bare == IF it.whose = "nobody" THEN Nothing ELSE tagged

(* Without a message: the tag, or the name of an Error.                     *)
unsaid ==
  IF it.whose # "nobody" THEN tagged
  ELSE IF it.whole /\ it.name.does # "nothing" THEN Tagged(top.of) ELSE Nothing

(* Of the taxonomy: what it is and, for those that have one, its cause; the *)
(* tag when the fields are not there.                                       *)
describeTaxonomy ==
  IF ~it.whole THEN Returns(Tagged(top.of), "none")
  ELSE IF it.cause = NoError THEN Returns(Sentence(top.of), "none")
  ELSE Calls(top, "causeLine", it.cause)

(* The variables that are missing or wrong, or the provider's own failure.  *)
describeConfigError ==
  IF it.cause = NoError THEN Returns(Sentence(top.of), "none")
  ELSE Calls(top, "causeLine", it.cause)

(* A message that throws leaves the tag, one that says nothing the tag or   *)
(* the name.                                                                *)
readMessage ==
  CASE it.message.does = "says" -> Returns(Sentence(top.of), "none")
    [] it.message.does = "nothing" -> Returns(unsaid, "none")
    [] it.message.does = "throws" -> Returns(bare, "none")
    [] OTHER -> Calls(top, it.message.does, it.message.to)

(* Mutant: whether it is being read is not asked.                           *)
rawCauseLineUnguarded ==
  /\ At("causeLine", "called")
  /\ Marks("READING")
  /\ UNCHANGED <<heap, asked>>

rawCauseLine ==
  /\ At("causeLine", "called")
  /\ IF top.of \in READING THEN Returns(bare, "none") ELSE Marks("READING")
  /\ UNCHANGED <<heap, asked>>

readCauseLine ==
  /\ At("causeLine", "reads")
  /\ CASE it.whose = "taxonomy" -> describeTaxonomy
       [] it.whose = "config" -> describeConfigError
       [] OTHER -> readMessage
  /\ UNCHANGED <<heap, asked>>

(* What a line says of the cause comes after what it says of the failure;   *)
(* what throws leaves the tag.                                              *)
withCause ==
  CASE returned = Thrown -> bare
    [] returned # Thrown /\ it.whose = "taxonomy" -> Sentence(top.of) \o returned.line
    [] returned # Thrown /\ it.whose = "config" ->
         Tagged(top.of) \o IF returned.line = Nothing THEN Sentence(top.of) ELSE returned.line
    [] OTHER -> IF returned.line = Nothing THEN unsaid ELSE returned.line

causeLineEnds ==
  /\ At("causeLine", "waits") /\ returned # Pending
  /\ Returns(withCause, "none")
  /\ UNCHANGED <<heap, asked>>

(* String(value): a toString that throws leaves Object's, which is not      *)
(* empty; an Error has its name.                                            *)
CallsBack(e) ==
  /\ heap[e].whose = "nobody" /\ ~heap[e].whole
  /\ heap[e].name.does \in {"describe", "toJson"}

stringOf ==
  CASE CallsBack(top.of) -> Calls([top EXCEPT !.fn = "stringOf"], it.name.does, it.name.to)
    [] ~CallsBack(top.of) /\ it.name.does = "nothing" -> Returns(Nothing, "none")
    [] OTHER -> Returns(Tagged(top.of), "none")

stringOfEnds ==
  /\ At("stringOf", "waits") /\ returned # Pending
  /\ Returns(IF returned = Thrown THEN Tagged(top.of) ELSE returned.line, "none")
  /\ UNCHANGED <<heap, asked>>

(* A library's tag goes before its line; a value without one has a name, or *)
(* a string.                                                                *)
describe ==
  /\ At("describe", "called")
  /\ CASE it.whose = "taxonomy" -> describeTaxonomy
       [] it.whose = "config" /\ top.of \in READING -> Returns(Tagged(top.of), "none")
       [] it.whose = "config" /\ top.of \notin READING -> Marks("READING")
       [] OTHER -> Calls(top, "causeLine", top.of)
  /\ UNCHANGED <<heap, asked>>

describeConfig ==
  /\ At("describe", "reads")
  /\ describeConfigError
  /\ UNCHANGED <<heap, asked>>

describeEnds ==
  /\ At("describe", "waits") /\ returned # Pending
  /\ CASE it.whose \in {"taxonomy", "config"} -> Returns(withCause, "none")
       [] it.whose = "library" ->
            Returns(tagged \o IF returned.line = tagged THEN Nothing ELSE returned.line, "none")
       [] it.whose = "nobody" /\ returned.line # Nothing -> Returns(returned.line, "none")
       [] OTHER -> stringOf
  /\ UNCHANGED <<heap, asked>>

-----------------------------------------------------------------------------
(* Log entries.                                                             *)

(* Mutant: only what the schema encodes.                                    *)
withOutcomeOfSchema(frame) ==
  IF heap[frame.of].whose = "library" THEN "none" ELSE heap[frame.of].outcome

(* What the failure declares; the fallback does not ask.                    *)
withOutcome(frame) == IF frame.fellBack THEN "none" ELSE heap[frame.of].outcome

toJson ==
  /\ At("toJson", "called")
  /\ IF top.of \in SERIALIZING THEN Returns(tagged, "none") ELSE Marks("SERIALIZING")
  /\ UNCHANGED <<heap, asked>>

(* If that throws, what is left is its tag and its line.                    *)
fallback == Calls([top EXCEPT !.fellBack = TRUE], "describe", top.of)

(* A library's error goes through its own schema, if it has one, and its    *)
(* own message.                                                             *)
toJsonOf ==
  /\ At("toJson", "reads")
  /\ IF it.whose # "library" THEN Calls(top, "describe", top.of)
     ELSE IF ~it.whole THEN Calls(top, "causeLine", top.of)
     ELSE CASE it.message.does = "says" -> Returns(Sentence(top.of), withOutcome(top))
            [] it.message.does = "nothing" -> Returns(Nothing, withOutcome(top))
            [] it.message.does = "throws" -> fallback
            [] OTHER -> Calls(top, it.message.does, it.message.to)
  /\ UNCHANGED <<heap, asked>>

toJsonEnds ==
  /\ At("toJson", "waits") /\ returned # Pending
  /\ CASE returned = Thrown /\ ~top.fellBack -> fallback
       [] returned = Thrown /\ top.fellBack -> Returns(Nothing, "thrown")
       [] OTHER -> Returns(IF returned.line = Nothing /\ it.whose = "library" /\ ~it.whole
                           THEN tagged ELSE returned.line, withOutcome(top))
  /\ UNCHANGED <<heap, asked>>

(* The program asks: of a failure it caught, or for a log.                  *)
tell(fn, e) ==
  /\ stack = <<>>
  /\ stack' = <<Frame(fn, e)>> /\ asked' = <<fn, e>> /\ returned' = Pending
  /\ UNCHANGED <<heap, READING, SERIALIZING, lines>>

FailuresNext ==
  \/ \E fn \in {"describe", "toJson"}, e \in Error : tell(fn, e)
  \/ rawCauseLine \/ readCauseLine \/ causeLineEnds
  \/ describe \/ describeConfig \/ describeEnds \/ stringOfEnds
  \/ toJson \/ toJsonOf \/ toJsonEnds

FailuresSpec == FailuresInit /\ [][FailuresNext]_failureVars

-----------------------------------------------------------------------------
(* Telling of a failure ends, whatever its message does: no value is read or *)
(* serialized twice at once; so the calls nest only so deep, and what was    *)
(* told is told alike the next time.  The last two need that no toString     *)
(* calls back: nothing but the engine's stack ends one that comes back to    *)
(* itself.                                                                   *)
MarkedBy(marks) == {i \in DOMAIN stack : stack[i].marks = marks}

TellingEnds ==
  /\ \A marks \in {"READING", "SERIALIZING"} :
       \A i, j \in MarkedBy(marks) : stack[i].of = stack[j].of => i = j
  /\ (\A e \in Error : ~CallsBack(e)) =>
       /\ Len(stack) <= 3 * Cardinality(Error) + 2
       /\ stack = <<>> /\ asked # <<>> => returned = lines[asked]

(* A failure is told in full: its line has its own sentence, if it has one,  *)
(* and that of its cause; its line is empty only of a value that is called   *)
(* by an empty tag, name or string, or by one that calls back; and its log   *)
(* entry has the outcome it declares, unless its own message throws.         *)
Says(e) ==
  \/ heap[e].whose = "taxonomy" /\ heap[e].whole
  \/ heap[e].whose \in {"library", "nobody"} /\ heap[e].message.does = "says"

Wordless(e) ==
  /\ heap[e].whose \in {"library", "nobody"} /\ ~Says(e)
  /\ heap[e].name.does = "nothing" \/ CallsBack(e)

HasCause(e) == heap[e].whose = "taxonomy" /\ heap[e].whole /\ heap[e].cause \in Error

ToldInFull ==
  stack = <<>> /\ asked # <<>> =>
    LET e == asked[2]
        tells(x) == ToSet(Sentence(x)) \subseteq ToSet(returned.line)
    IN /\ asked[1] = "describe" =>
            /\ Says(e) => tells(e)
            /\ returned.line = Nothing => Wordless(e)
       /\ HasCause(e) =>
            /\ tells(e)
            /\ heap[e].cause # e /\ Says(heap[e].cause) => tells(heap[e].cause)
       /\ asked[1] = "toJson" /\ heap[e].message.does # "throws" =>
            returned.outcome = heap[e].outcome
=============================================================================
