------------------------------- MODULE Sentence -------------------------------
(***************************************************************************)
(* The fusion of the words of a DSL sentence, on<Word...>(args...): which  *)
(* words have a hook, how the answers of theirs make one answer, which     *)
(* arguments of on each bind gets, and which of the data a callback gets.  *)
(*                                                                         *)
(* A word is a record with a field for each hook it has:                   *)
(*   bind          the parameter lists its overloads can be called with,   *)
(*   type          the type whose emits trigger the reaction,              *)
(*   get, optional the data it reads, and that it can do without it,       *)
(*   last          how many messages it keeps,                             *)
(*   precondition  the n of Buffer<n>,                                     *)
(*   priority, run_inline, pool, scope, post_run                           *)
(***************************************************************************)
EXTENDS Integers, Sequences, SequencesExt, FiniteSetsExt

\* A word without the hook is left out.
has(word, hook) == hook \in DOMAIN word
FindWords(words, hook) == SelectSeq(words, LAMBDA w : has(w, hook))
Hooks(words, hook) == LET found == FindWords(words, hook) IN [i \in DOMAIN found |-> found[i][hook]]

\* What a sentence answers whose words have no such hook, and what one answers.
NoOp == [priority |-> 500, run_inline |-> "NEUTRAL", pool |-> "default", get |-> <<>>, scope |-> <<>>, post_run |-> <<>>]
Parse(words, hook, Fuser(_)) ==
  LET answers == Hooks(words, hook) IN IF answers = <<>> THEN NoOp[hook] ELSE Fuser(answers)

PriorityFuser(answers) == Max(ToSet(answers))
priority(words) == Parse(words, "priority", PriorityFuser)

\* One word may be always inline or another never, not both: that throws.
InlineFuser(answers) ==
  LET choices == ToSet(answers) \ {NoOp.run_inline}
  IN IF choices = {} THEN NoOp.run_inline ELSE CHOOSE c \in choices : TRUE
Agree(words) == ~({"ALWAYS", "NEVER"} \subseteq ToSet(Hooks(words, "run_inline")))
run_inline(words) == Parse(words, "run_inline", InlineFuser)

\* Only one word may choose the pool.
PoolFuser(answers) == Head(answers)
OnePool(words) == Len(Hooks(words, "pool")) <= 1
pool(words) == Parse(words, "pool", PoolFuser)

\* Every precondition with the number of active tasks, which counts this one.
PreconditionFuser(words, active) == \A n \in ToSet(Hooks(words, "precondition")) : active < n + 1

\* The answers of these one after the other.
GetFuser(answers) == answers
get(words) == Parse(words, "get", GetFuser)
ScopeFuser(answers) == answers
scopes(words) == Parse(words, "scope", ScopeFuser)
PostRunFuser(answers) == answers
post_run(words) == Parse(words, "post_run", PostRunFuser)

-----------------------------------------------------------------------------
(* FunctionFusion and RelevantArguments. A match is a sequence; Unsplit and *)
(* TooFew are the compiler's errors.                                        *)

Unsplit == <<<<-1, -1>>>>
TooFew == <<-1>>
Selected(args, start, end) == SubSeq(args, start + 1, end)
is_callable(function, args) == args \in function

\* Mutant of FunctionFusion: the first number of arguments that a function can be
\* called with is kept, whether or not the others can be called with the rest.
RECURSIVE FusionHasty(_, _, _, _)
FusionHasty(functions, args, start, end) ==
  IF functions = <<>> THEN IF start = Len(args) THEN <<>> ELSE Unsplit
  ELSE IF start > end THEN Unsplit
  ELSE IF is_callable(Head(functions), Selected(args, start, end))
       THEN LET rest == FusionHasty(Tail(functions), args, end, Len(args))
            IN IF rest = Unsplit THEN Unsplit ELSE <<<<start, end>>>> \o rest
       ELSE FusionHasty(functions, args, start, end - 1)
\* The arguments start+1..end go to the first function, if the others can be called
\* with those after them; else it gets one less.
RECURSIVE FunctionFusion(_, _, _, _)
FunctionFusion(functions, args, start, end) ==
  IF functions = <<>> THEN IF start = Len(args) THEN <<>> ELSE Unsplit
  ELSE IF start > end THEN Unsplit
  ELSE LET rest == FunctionFusion(Tail(functions), args, end, Len(args))
       IN IF is_callable(Head(functions), Selected(args, start, end)) /\ rest # Unsplit
          THEN <<<<start, end>>>> \o rest
          ELSE FunctionFusion(functions, args, start, end - 1)
BindFuser(words, args) == FunctionFusion(Hooks(words, "bind"), args, 0, Len(args))
\* Each function is called with its own arguments.
FunctionFusionCaller(args, split) == [i \in DOMAIN split |-> Selected(args, split[i][1], split[i][2])]

\* What the words give the callback: a Last gives a list, which converts to no single
\* datum, and what is no list converts to what it points to.
Offered(words) ==
  LET found == FindWords(words, "get") IN [i \in DOMAIN found |-> [type |-> found[i].get, list |-> has(found[i], "last")]]
Converts(datum, parameter) == datum.type = parameter.type /\ datum.list = parameter.list

\* Mutant of RelevantArguments: a datum may serve several parameters.
RECURSIVE RelevantAgain(_, _, _)
RelevantAgain(required, available, index) ==
  IF required = <<>> THEN <<>>
  ELSE IF index > Len(available) THEN TooFew
  ELSE LET found == Converts(available[index], Head(required))
           rest == RelevantAgain(IF found THEN Tail(required) ELSE required, available, IF found THEN index ELSE index + 1)
       IN IF rest = TooFew \/ ~found THEN rest ELSE <<index>> \o rest
\* Each parameter gets the first datum after the one before it that converts to it.
RECURSIVE RelevantArguments(_, _, _)
RelevantArguments(required, available, index) ==
  IF required = <<>> THEN <<>>
  ELSE IF index > Len(available) THEN TooFew
  ELSE LET found == Converts(available[index], Head(required))
           rest == RelevantArguments(IF found THEN Tail(required) ELSE required, available, index + 1)
       IN IF rest = TooFew \/ ~found THEN rest ELSE <<index>> \o rest
apply_relevant(words, parameters) == RelevantArguments(parameters, Offered(words), 1)
=============================================================================
