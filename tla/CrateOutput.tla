---------------------------- MODULE CrateOutput -----------------------------
(***************************************************************************)
(* The crate written with --crate-output (noricum-tools/src/               *)
(* crate_builder.rs), the check of it (compiler.rs) and the repair of a    *)
(* module in it (repair_module_in_crate in module_migration.rs).           *)
(*                                                                         *)
(* A module's text is what a model wrote, its body, under lines that       *)
(* write_module puts before it when there is a types.rs: an inner          *)
(* attribute and a use.  Texts that are read, repaired and written again   *)
(* collect them.  A body is a record: whether it compiles, how many unsafe *)
(* blocks it has.                                                          *)
(***************************************************************************)
EXTENDS Integers, Sequences, FiniteSets, Functions

CONSTANTS
  Outputs,        \* modules that are written, in that order: their names
  SafeName,       \* sanitize_module_name
  Keywords,       \* RUST_KEYWORDS
  Unraw,          \* of these, the ones that cannot be raw identifiers
  MaxIterations,  \* max_iters
  UnsafeCeilings  \* values --max-unsafe may have; 0: not given

ASSUME CrateAssumption ==
  MaxIterations \in Nat /\ UnsafeCeilings \subseteq Nat

Bodies == [compiles : BOOLEAN, unsafe : 0 .. 2]

VARIABLES
  builder,      \* modules in the order in which they were written, has_types
  sources,      \* the files of src/, by module: [headers, body]
  lib,          \* the modules lib.rs declares
  unwritten,    \* modules still to be written
  cstep,        \* "new", "write", "repair", "check", "checked", "ask" or "end"
  module,       \* the module that is repaired
  ceiling,      \* unsafe_ceiling
  current,      \* current_source
  iteration,
  succeeded     \* what repair_module_in_crate returned

crateVars == <<builder, sources, lib, unwritten, cstep, module, ceiling, current,
               iteration, succeeded>>

-----------------------------------------------------------------------------
CrateInit ==
  /\ builder = [modules |-> <<>>, types |-> FALSE]
  /\ sources = <<>> /\ lib = <<>> /\ unwritten = Outputs /\ cstep = "new"
  /\ module = "none" /\ ceiling = 0
  /\ current = [headers |-> 0, body |-> [compiles |-> FALSE, unsafe |-> 0]]
  /\ iteration = 0 /\ succeeded = FALSE

\* CrateBuilder::new, and write_types if there is a type contract.
BeginCrateOutput ==
  /\ cstep = "new"
  /\ \/ UNCHANGED <<builder, sources>>
     \/ /\ builder' = [builder EXCEPT !.types = TRUE]
        /\ \E ok \in BOOLEAN :
             sources' = [n \in {"types"} |-> [headers |-> 0, body |-> [compiles |-> ok, unsafe |-> 0]]]
  /\ cstep' = "write"
  /\ UNCHANGED <<lib, unwritten, module, ceiling, current, iteration, succeeded>>

\* write_module: the file of the safe name is replaced.
Put(files, name, text) ==
  [n \in DOMAIN files \union {name} |->
     IF n = name THEN [text EXCEPT !.headers = @ + (IF builder.types THEN 1 ELSE 0)]
     ELSE files[n]]

Listed(list, name) == IF name \in Range(list) THEN list ELSE Append(list, name)

\* migrate_file_modular writes what a module's migration left; a write that fails
\* is passed over.
WriteModule ==
  /\ cstep = "write" /\ unwritten # <<>>
  /\ unwritten' = Tail(unwritten)
  /\ LET name == SafeName[Head(unwritten)] IN
       \/ \E b \in Bodies :
            /\ sources' = Put(sources, name, [headers |-> 0, body |-> b])
            /\ builder' = [builder EXCEPT !.modules = Listed(@, name)]
       \/ UNCHANGED <<sources, builder>>
  /\ UNCHANGED <<lib, cstep, module, ceiling, current, iteration, succeeded>>

\* A name that is a keyword is declared as a raw identifier.
Declaration(m) == [name |-> m, raw |-> m \in Keywords]

write_lib_rs ==
  (IF builder.types THEN <<[name |-> "types", raw |-> FALSE]>> ELSE <<>>)
  \o [k \in DOMAIN builder.modules |-> Declaration(builder.modules[k])]

FinishCrate ==
  /\ cstep = "write" /\ unwritten = <<>>
  /\ lib' = write_lib_rs
  /\ cstep' = "repair"
  /\ UNCHANGED <<builder, sources, unwritten, module, ceiling, current, iteration,
                 succeeded>>

-----------------------------------------------------------------------------
(***************************************************************************)
(* Checks and repair.                                                      *)
(***************************************************************************)
\* External: an inner attribute after other lines is an error, so the lines above
\* a module may stand there once.
ModuleCompiles(t) == t.body.compiles /\ t.headers <= 1

\* External: cargo check of the library.  A module may be declared once; some
\* keywords cannot be raw.
check_crate_compiles(files) ==
  /\ \A k \in DOMAIN lib : ModuleCompiles(files[lib[k].name]) /\ ~(lib[k].raw /\ lib[k].name \in Unraw)
  /\ \A j, k \in DOMAIN lib : lib[j].name = lib[k].name => j = k

\* The module's repair begins.
BeginRepair ==
  /\ cstep = "repair"
  /\ \E k \in DOMAIN builder.modules, given \in UnsafeCeilings :
       LET m == builder.modules[k]
           baseline == sources[m].body.unsafe
       IN /\ module' = m
          /\ ceiling' = IF given > baseline THEN given ELSE baseline
  /\ cstep' = "check"
  /\ UNCHANGED <<builder, sources, lib, unwritten, current, iteration, succeeded>>

\* The errors that are looked at are the module's, the verdict is the crate's.
CheckModule ==
  /\ cstep = "check" /\ iteration < MaxIterations
  /\ IF check_crate_compiles(sources)
     THEN cstep' = "end" /\ succeeded' = TRUE /\ UNCHANGED current
     ELSE cstep' = "checked" /\ current' = sources[module] /\ UNCHANGED succeeded
  /\ UNCHANGED <<builder, sources, lib, unwritten, module, ceiling, iteration>>

\* write_module of the repair.
Rewrite(text) == sources' = Put(sources, module, text)

\* Slip: the module is judged and not the crate.
ApplyRulesLocally ==
  /\ cstep = "checked"
  /\ \/ cstep' = "ask" /\ UNCHANGED <<sources, succeeded>>
     \/ \E compiles \in BOOLEAN :
          /\ Rewrite([current EXCEPT !.body = [@ EXCEPT !.compiles = compiles]])
          /\ succeeded' = ModuleCompiles(sources'[module])
          /\ cstep' = IF succeeded' THEN "end" ELSE "ask"
  /\ UNCHANGED <<builder, lib, unwritten, module, ceiling, current, iteration>>

\* The rules may change the text, and are checked if they do.
ApplyRules ==
  /\ cstep = "checked"
  /\ \/ cstep' = "ask" /\ UNCHANGED <<sources, succeeded>>
     \/ \E compiles \in BOOLEAN :
          /\ Rewrite([current EXCEPT !.body = [@ EXCEPT !.compiles = compiles]])
          /\ succeeded' = check_crate_compiles(sources')
          /\ cstep' = IF succeeded' THEN "end" ELSE "ask"
  /\ UNCHANGED <<builder, lib, unwritten, module, ceiling, current, iteration>>

\* The model is given the text as it was before the rules, and may copy the lines
\* above it.  Its text is not taken if it has more unsafe blocks than allowed.
AskRepair ==
  /\ cstep = "ask"
  /\ \/ \E headers \in 0 .. current.headers, b \in Bodies :
          IF b.unsafe <= ceiling THEN Rewrite([headers |-> headers, body |-> b])
          ELSE UNCHANGED sources
     \/ UNCHANGED sources
  /\ iteration' = iteration + 1
  /\ cstep' = "check"
  /\ UNCHANGED <<builder, lib, unwritten, module, ceiling, current, succeeded>>

\* A file that is not read or written, or cargo that does not start, ends the repair.
RepairFails ==
  /\ cstep \in {"checked", "ask"} \/ (cstep = "check" /\ iteration < MaxIterations)
  /\ cstep' = "end"
  /\ UNCHANGED <<builder, sources, lib, unwritten, module, ceiling, current, iteration,
                 succeeded>>

\* What the last call wrote is not checked.
GiveUp ==
  /\ cstep = "check" /\ iteration = MaxIterations
  /\ cstep' = "end"
  /\ UNCHANGED <<builder, sources, lib, unwritten, module, ceiling, current, iteration,
                 succeeded>>

RepairStep == CheckModule \/ ApplyRules \/ AskRepair \/ RepairFails \/ GiveUp

CrateNext == BeginCrateOutput \/ WriteModule \/ FinishCrate \/ BeginRepair \/ RepairStep

=============================================================================
