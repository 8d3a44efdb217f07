--------------------------- MODULE TrainingScript ---------------------------
(****************************************************************************)
(* One job inside its container: the script the templates generate for it, in *)
(* the environment the executor gives it, and collectLogs, which turns the    *)
(* container's output into the entries and metrics of the job.                 *)
(*                                                                          *)
(*   services/training/internal/template/template.go                        *)
(*   services/training/internal/executor/docker.go    buildContainerConfig,   *)
(*                                             collectLogs, MetricParser     *)
(*                                                                          *)
(* Docker sends a frame for each line the script writes: 8 bytes of header,   *)
(* then the text.  Output is counted in units of 8 bytes: a frame has its     *)
(* header and two units of text, the second of which ends the line.  Of the   *)
(* job's log, its length and newest entry are kept.                          *)
(*                                                                          *)
(* What every specification has, Init, Next, Spec, is called ScriptInit and so  *)
(* on: TrainingLogs_proof extends this module together with LogStream.        *)
(****************************************************************************)
EXTENDS FiniteSets, Integers, Sequences, SequencesExt

CONSTANTS Keys,      \* names of hyperparameters, in the order of their bytes
          Upper,     \* the name of a key in capitals
          Defaults,  \* what the class Config sets after them: its name and default
          Common,    \* the names every script sets, in their order
          Settable,  \* names the environment of a job may have
          Numbers,   \* numbers a value can be
          Text,      \* a value that is no number
          Broken,    \* a value formatPythonValue writes as something Python
                     \* rejects: a boolean, an object; null, when it compiles
          Codes,     \* exit codes a script of the job's own may end with
          None,      \* not set
          MaxRead,   \* units one Read of the connection returns at most (1024)
          MaxLines   \* bound: lines of a custom script

ASSUME ScriptAssumption ==
  /\ Keys \in Seq(STRING) /\ Upper \in [ToSet(Keys) -> STRING]
  /\ Common \in Seq(STRING) /\ "EPOCHS" \in ToSet(Common)
  /\ ToSet(Common) \cup {"MAX_LENGTH"} = DOMAIN Defaults
  /\ Settable \subseteq DOMAIN Defaults
  /\ \A n \in DOMAIN Defaults : Defaults[n] \in Nat
  /\ Numbers \subseteq Nat /\ MaxRead \in Nat \ {0} /\ MaxLines \in Nat
  /\ Codes \subseteq Nat /\ {0, 1, 137} \subseteq Codes /\ None \notin Nat

VARIABLES settings,  \* the job: framework, hyperparameters, environment, own script
          env,       \* the container's environment
          script,    \* where it is: pc, the epoch, and the assignments left,
                     \* first of hyperparameters, then of defaults
          config,    \* the class Config as far as it is executed
          output,    \* the frames written
          exit,      \* exit code, or None
          collector, \* "reading" or "done"
          pos,       \* units read
          stream,    \* currentStream
          log,       \* the job's log: length and newest entry
          sound      \* history: each read was one frame, each append succeeded

runVars  == <<script, config, output, exit>>
readVars == <<collector, pos, stream, log, sound>>
scriptVars == <<settings, env, runVars, readVars>>

Frameworks == {"pytorch", "tensorflow", "huggingface", "other"}
Texts      == {"info", "epoch", "metrics", "completed", "failed", "traceback", "loss"}
Sources    == {"", "stdout", "stderr"}   \* "" before a header has told
Entry      == [lo : Nat, hi : Nat, source : Sources,
               level : {"INFO", "ERROR"}, metrics : BOOLEAN]
NoEntry    == [lo |-> 0, hi |-> 0, source |-> "", level |-> "INFO", metrics |-> FALSE]

\* A map from some of the names in S.
Partial(S, T) == UNION {[D -> T] : D \in SUBSET S}

Settings == [framework : Frameworks, script : BOOLEAN,
             hyper : Partial(ToSet(Keys), Numbers \cup {Text, Broken}),
             env : Partial(Settable, Numbers \cup {Text})]

ScriptTypeOK ==
  /\ settings \in Settings
  /\ script \in [pc : {"class", "start", "try", "done"}, epoch : Nat,
                 hyper : SUBSET ToSet(Keys), left : Seq(DOMAIN Defaults)]
  /\ output \in Seq([source : {"stdout", "stderr"}, text : Texts, epoch : Nat])
  /\ exit \in Codes \cup {None} /\ (exit # None <=> script.pc = "done")
  /\ collector \in {"reading", "done"}
  /\ pos \in 0..3 * Len(output) /\ stream \in Sources
  /\ log \in [length : Nat, newest : Entry]
  /\ log.newest.lo <= log.newest.hi /\ log.newest.hi <= pos /\ sound \in BOOLEAN

-----------------------------------------------------------------------------
(* The script.                                                                *)

\* A script up to its class Config: the hyperparameters, then the defaults.
Program(hyper, defaults) ==
  [pc |-> "class", epoch |-> 0, hyper |-> DOMAIN hyper, left |-> defaults]

PyTorchTemplate(hyper)     == Program(hyper, Common)
TensorFlowTemplate(hyper)  == Program(hyper, Common)
HuggingFaceTemplate(hyper) == Program(hyper, Append(Common, "MAX_LENGTH"))

\* The job's own script, or a comment where it has none.
CustomTemplate == [pc |-> "try", epoch |-> 0, hyper |-> {}, left |-> <<>>]

\* GenerateScript, or GetTemplate for huggingface, which it never picks.
Generate(j) ==
  CASE j.framework = "pytorch"     -> PyTorchTemplate(j.hyper)
    [] j.framework = "tensorflow"  -> TensorFlowTemplate(j.hyper)
    [] j.framework = "huggingface" -> HuggingFaceTemplate(j.hyper)
    [] OTHER                       -> CustomTemplate

\* buildContainerConfig: hyperparameters get names of their own.
NoPrefix == ""
Environment(j) ==
  [n \in {<<NoPrefix, x>> : x \in DOMAIN j.env}
           \cup {<<"HP_", Upper[k]>> : k \in DOMAIN j.hyper} |->
     IF n[1] = NoPrefix THEN j.env[n[2]]
     ELSE j.hyper[CHOOSE k \in DOMAIN j.hyper : Upper[k] = n[2]]]

Write(source, text) ==
  output' = Append(output, [source |-> source, text |-> text, epoch |-> script.epoch])

Ends(code) == script' = [script EXCEPT !.pc = "done"] /\ exit' = code

\* Python stops with a traceback.
Uncaught == Write("stderr", "traceback") /\ Ends(1)

Assign(n, v) == config' = [x \in DOMAIN config \cup {n} |-> IF x = n THEN v ELSE config[x]]

ScriptInit ==
  /\ settings \in Settings
  /\ env = Environment(settings) /\ script = Generate(settings)
  /\ config = [n \in {} |-> 0] /\ output = <<>> /\ exit = None
  /\ collector = "reading" /\ pos = 0 /\ stream = ""
  /\ log = [length |-> 0, newest |-> NoEntry] /\ sound = TRUE

\* The imports and the log file come first, and may fail.
Import ==
  /\ script.pc = "class" /\ DOMAIN config = {} /\ Uncaught
  /\ UNCHANGED <<settings, env, config, readVars>>

\* The keys range in sorted order.
FirstKey(S) == Keys[Min({i \in DOMAIN Keys : Keys[i] \in S})]

\* KEY = value.
DefineHyper ==
  /\ script.pc = "class" /\ script.hyper # {}
  /\ LET k == FirstKey(script.hyper)
     IN  IF settings.hyper[k] = Broken THEN Uncaught /\ UNCHANGED config
         ELSE /\ Assign(Upper[k], settings.hyper[k])
              /\ script' = [script EXCEPT !.hyper = @ \ {k}]
              /\ UNCHANGED <<output, exit>>
  /\ UNCHANGED <<settings, env, readVars>>

\* NAME = int(os.environ.get('NAME', default)).
DefineDefault ==
  /\ script.pc = "class" /\ script.hyper = {} /\ script.left # <<>>
  /\ LET n == Head(script.left)
         v == IF <<NoPrefix, n>> \in DOMAIN env THEN env[<<NoPrefix, n>>] ELSE Defaults[n]
     IN  IF v = Text THEN Uncaught /\ UNCHANGED config
         ELSE /\ Assign(n, v)
              /\ script' = [script EXCEPT !.left = Tail(@)]
              /\ UNCHANGED <<output, exit>>
  /\ UNCHANGED <<settings, env, readVars>>

\* What train() logs before the try.
StartTrain ==
  /\ script.pc = "class" /\ script.hyper = {} /\ script.left = <<>>
  /\ Write("stdout", "info") /\ script' = [script EXCEPT !.pc = "start"]
  /\ UNCHANGED <<settings, env, config, exit, readVars>>

\* os.makedirs and, for PyTorch, the summary writer are outside the try.
MakeOutput ==
  /\ script.pc = "start"
  /\ \/ Uncaught
     \/ script' = [script EXCEPT !.pc = "try"] /\ UNCHANGED <<output, exit>>
  /\ UNCHANGED <<settings, env, config, readVars>>

\* PyTorch's loop: a line for the epoch, then one of METRICS (ten in the code).
TrainEpoch ==
  /\ script.pc = "try" /\ settings.framework = "pytorch"
  /\ script.epoch < config["EPOCHS"]
  /\ output' = output \o << [source |-> "stdout", text |-> "epoch", epoch |-> script.epoch + 1],
                      [source |-> "stdout", text |-> "metrics", epoch |-> script.epoch + 1] >>
  /\ script' = [script EXCEPT !.epoch = @ + 1]
  /\ UNCHANGED <<settings, env, config, exit, readVars>>

Complete(framework) ==
  /\ script.pc = "try" /\ settings.framework = framework
  /\ Write("stdout", "completed") /\ Ends(0)
  /\ UNCHANGED <<settings, env, config, readVars>>

PyTorchCompletes == Complete("pytorch") /\ script.epoch >= config["EPOCHS"]

\* These two have no loop: their callbacks, which would log METRICS, are defined
\* and never called.
TensorFlowCompletes  == Complete("tensorflow")
HuggingFaceCompletes == Complete("huggingface")

\* Mutant: the handler logs and does not exit with 1.
Except_NoExit ==
  /\ script.pc = "try" /\ settings.framework # "other"
  /\ Write("stdout", "failed") /\ Ends(0)
  /\ UNCHANGED <<settings, env, config, readVars>>

\* except Exception: logged, and exit(1).
Except ==
  /\ script.pc = "try" /\ settings.framework # "other"
  /\ Write("stdout", "failed") /\ Ends(1)
  /\ UNCHANGED <<settings, env, config, readVars>>

\* The job's own script is run as it is: it writes any line on either stream, and
\* ends when and with the code it likes, its last words or none.  The comment that
\* stands for a missing one ends at once, with success.
CustomScript ==
  /\ script.pc = "try" /\ settings.framework = "other"
  /\ \/ /\ settings.script /\ Len(output) < MaxLines
        /\ \E source \in {"stdout", "stderr"}, text \in Texts : Write(source, text)
        /\ UNCHANGED <<script, exit>>
     \/ settings.script /\ Uncaught
     \/ \E code \in IF settings.script THEN Codes ELSE {0} : Ends(code) /\ UNCHANGED output
  /\ UNCHANGED <<settings, env, config, readVars>>

\* The container is stopped or killed.
Kill ==
  /\ script.pc # "done" /\ Ends(137)
  /\ UNCHANGED <<settings, env, config, output, readVars>>

-----------------------------------------------------------------------------
(* collectLogs.                                                               *)

Frame(u) == (u + 2) \div 3
Header(u) == u % 3 = 1

\* What a text shows: words with the separator before their number.
Items(text) ==
  CASE text = "epoch"   -> {<<"epoch", " ">>}
    [] text = "metrics" -> {<<"epoch", "quote">>, <<"step", "quote">>, <<"loss", "quote">>}
    [] text = "loss"    -> {<<"loss", ":">>}
    [] OTHER            -> {}

\* MetricParser.Parse: the epoch and the loss need a number behind one of their
\* separators; the patterns of step and accuracy match the bare word first, which
\* has no number.
Parse(text) ==
  \E i \in Items(text) : \/ i[1] = "epoch" /\ i[2] \in {":", "/", " "}
                         \/ i[1] = "loss"  /\ i[2] \in {":", "=", " "}

\* The entry made of units a to b, all of one line.  The level's name stands in
\* the line's first unit of text, the numbers in the second.
EntryOf(a, b, source) ==
  LET f == output[Frame(a)]
  IN  [lo |-> a, hi |-> b, source |-> source,
       level   |-> IF source = "stderr" \/ (f.text = "failed" /\ a <= 3 * Frame(a) - 1)
                   THEN "ERROR" ELSE "INFO",
       metrics |-> b = 3 * Frame(a) /\ Parse(f.text)]

\* Mutant: a line the read cuts off is taken as if it had come whole.
Split_WholeLines(a, b, source) ==
  [i \in 1..(Frame(b) - Frame(a) + 1) |->
     LET k == Frame(a) + i - 1
     IN  EntryOf(IF i = 1 THEN a ELSE 3 * k - 2, 3 * k, source)]

\* The text of units a to b, split at the ends of lines.
Split(a, b, source) ==
  [i \in 1..(Frame(b) - Frame(a) + 1) |->
     LET k == Frame(a) + i - 1
     IN  EntryOf(IF i = 1 THEN a ELSE 3 * k - 2,
                 IF k = Frame(b) THEN b ELSE 3 * k, source)]

\* Mutant: the header stays in the line.
TextFrom_WithHeader(a) == a

\* The first 8 bytes of every read are taken for a header.
TextFrom(a) == a + 1

\* One Read: what is there, up to the buffer.  8 bytes or fewer are skipped; the
\* error of an append is dropped.
Read(n) ==
  /\ collector = "reading" /\ n \in 1..MaxRead /\ pos + n <= 3 * Len(output)
  /\ pos' = pos + n
  /\ IF n = 1 THEN UNCHANGED <<stream, log>> /\ sound' = FALSE
     ELSE /\ stream' = IF Header(pos + 1) THEN output[Frame(pos + 1)].source ELSE stream
          /\ LET new == Split(TextFrom(pos + 1), pos + n, stream')
             IN  \E S \in SUBSET DOMAIN new :
                   /\ log' = IF S = {} THEN log
                             ELSE [length |-> log.length + Cardinality(S),
                                   newest |-> new[CHOOSE i \in S : \A j \in S : j <= i]]
                   /\ sound' = (sound /\ n = 3 /\ Header(pos + 1) /\ S = DOMAIN new)
  /\ UNCHANGED <<settings, env, runVars, collector>>

\* The end of the output, once the container has exited.
ReadEOF ==
  /\ collector = "reading" /\ exit # None /\ pos = 3 * Len(output)
  /\ collector' = "done"
  /\ UNCHANGED <<settings, env, runVars, pos, stream, log, sound>>

\* The job's context is cancelled, by Stop or by the clean-up after the exit:
\* what is not read yet is lost.
Cancel ==
  /\ collector = "reading" /\ collector' = "done"
  /\ UNCHANGED <<settings, env, runVars, pos, stream, log, sound>>

ScriptNext ==
  \/ Import \/ DefineHyper \/ DefineDefault \/ StartTrain \/ MakeOutput \/ TrainEpoch
  \/ PyTorchCompletes \/ TensorFlowCompletes \/ HuggingFaceCompletes
  \/ Except \/ CustomScript \/ Kill
  \/ \E n \in 1..MaxRead : Read(n)
  \/ ReadEOF \/ Cancel

ScriptSpec == ScriptInit /\ [][ScriptNext]_scriptVars

-----------------------------------------------------------------------------
(* Properties.                                                                *)

\* The epochs a job trains: EPOCHS of its environment, or the default.  A
\* hyperparameter of that name has no say.
Wanted == IF "EPOCHS" \in DOMAIN settings.env THEN settings.env["EPOCHS"] ELSE Defaults["EPOCHS"]

\* What the exit code of a generated script says, its log says too.  With 0 it
\* came to its end and said so last, and a PyTorch one, the only one with a loop, has
\* trained all the epochs wanted, each once and in order.  With 1 it failed by itself,
\* and wrote why.  The job's own script may end with either and say nothing.
ExitTellsTheTruth ==
  LET epochs == {i \in DOMAIN output : output[i].text = "epoch"}
  IN  settings.framework # "other" =>
        /\ exit = 0 => Last(output).text = "completed"
        /\ exit = 0 /\ settings.framework = "pytorch" =>
             /\ {output[i].epoch : i \in epochs} = 1..Wanted
             /\ \A i, j \in epochs : i < j => output[i].epoch < output[j].epoch
        /\ exit = 1 => Last(output).text \in {"failed", "traceback"}

\* As long as every read is one frame, the log has each line once, in order and
\* whole, under its own source, at its own level and with its metrics told.
LinesArrive ==
  sound => /\ log.length * 3 = pos
           /\ pos > 0 => log.newest = EntryOf(pos - 1, pos, output[Frame(pos)].source)
=============================================================================
