-------------------------------- MODULE Mcp ---------------------------------
(***************************************************************************)
(* The MCP server (noricum-mcp/src/server.rs): one thread reads a line of  *)
(* stdin, runs what it asks for and writes one line to stdout before it    *)
(* reads the next.  Tool calls are counted in windows of the system clock, *)
(* which may be set back; a call of a language model is given up after     *)
(* MIGRATION_TIMEOUT.                                                      *)
(*                                                                         *)
(* A request is a record: kind "empty", "unreadable" (not UTF-8),          *)
(* "garbage" (not a JSON-RPC request: one without an id is not), or        *)
(* "request" with a method, for tools/call with params: "invalid", or a    *)
(* tool and its arguments, each "absent", "large" or "given".              *)
(***************************************************************************)
EXTENDS Integers, Sequences, FiniteSets

CONSTANTS
  MCP_MAX_CALLS_PER_MINUTE,
  Minute,              \* ticks of the clock in a minute
  MIGRATION_TIMEOUT,   \* ticks
  Requests,            \* lines a client may send
  MaxClock,            \* bound on the clock
  MaxSetBacks          \* bound on how often it is set back

ASSUME McpAssumption ==
  /\ {MCP_MAX_CALLS_PER_MINUTE, Minute, MIGRATION_TIMEOUT} \subseteq Nat \ {0}
  /\ MaxClock \in Nat /\ MaxSetBacks \in Nat

VARIABLES
  clock,        \* the system clock
  setBacks,
  window, count,   \* RATE_LIMIT_WINDOW, RATE_LIMIT_COUNT
  request,      \* the line that is handled; "none" while the server reads
  mcpStep,      \* "read", "dispatch", "tool", "model", "reply" or "stopped"
  waited,       \* ticks since the model was asked
  reply,        \* the reply that is to be written
  admitted      \* for the properties: the calls let through in the last 1, 2, .. ticks.
                \* A minute that begins within a tick lies across Minute + 1 of them

mcpVars == <<clock, setBacks, window, count, request, mcpStep, waited, reply,
             admitted>>

-----------------------------------------------------------------------------
(***************************************************************************)
(* Replies (protocol.rs) and tools.                                        *)
(***************************************************************************)
PARSE_ERROR      == -32700
METHOD_NOT_FOUND == -32601
INVALID_PARAMS   == -32602
RATE_LIMITED     == -32000

Success(id, isError) == [id |-> id, code |-> 0, isError |-> isError]
Failure(id, code)    == [id |-> id, code |-> code, isError |-> TRUE]

\* tools/list: the tools, and the arguments each of them needs.
Tools == {"migrate_function", "analyze_function", "check_compilation", "get_idiomatic_score",
          "diff_test", "repair", "behavioral_review"}
Needs(tool) == IF tool \in {"diff_test", "behavioral_review"} THEN {"c_source", "rust_source"}
               ELSE {"source"}

\* Every tool first looks whether its arguments are there and not too large.
Usable(call) == \A a \in Needs(call.tool) : call.args[a] = "given"

\* What the tools find: a text, or an error of a tool they run (isError).
\* Classifying a difficulty cannot fail; neither can scoring, for which a clippy
\* that does not run found nothing.
tool_analyze_function    == {FALSE}
tool_get_idiomatic_score == {FALSE}
tool_check_compilation   == BOOLEAN
tool_diff_test           == BOOLEAN
tool_repair              == BOOLEAN

\* With an API key migrate_function asks a model; without, rules migrate.
\* behavioral_review ends without a key, or when no client or model is to be had.
tool_migrate_function  == [asks : BOOLEAN, ends : BOOLEAN]
tool_behavioral_review == [asks : BOOLEAN, ends : {TRUE}]

Outcomes(tool) ==
  CASE tool = "analyze_function"    -> tool_analyze_function
    [] tool = "get_idiomatic_score" -> tool_get_idiomatic_score
    [] tool = "check_compilation"   -> tool_check_compilation
    [] tool = "diff_test"           -> tool_diff_test
    [] tool = "repair"              -> tool_repair
    [] OTHER                        -> {}

Asking(tool) ==
  IF tool = "migrate_function" THEN tool_migrate_function
  ELSE IF tool = "behavioral_review" THEN tool_behavioral_review ELSE {}

-----------------------------------------------------------------------------
(***************************************************************************)
(* check_rate_limit: whether a call is let through, with the window and    *)
(* the count after it.  Refused calls are counted too.                     *)
(***************************************************************************)
McpCheck(now, w, c) ==
  IF now - w >= Minute   \* saturating: a clock behind the window is 0 from it
  THEN [ok |-> TRUE, window |-> now, count |-> 1]
  ELSE [ok |-> c + 1 <= MCP_MAX_CALLS_PER_MINUTE, window |-> w, count |-> c + 1]

\* The count is not told apart beyond the first refusal.
Counted(c) == IF c > MCP_MAX_CALLS_PER_MINUTE THEN MCP_MAX_CALLS_PER_MINUTE + 1 ELSE c

NoRequest == [kind |-> "none"]
NoReply   == Success("none", FALSE)

McpInit ==
  /\ clock = Minute /\ setBacks = 0 /\ window = 0 /\ count = 0
  /\ request = NoRequest /\ mcpStep = "read" /\ waited = 0
  /\ reply = NoReply
  /\ admitted = [ticks \in 1 .. Minute + 1 |-> 0]

\* run_server: an empty line is passed over, and one that cannot be read ends the
\* server (let line = line?).
ReadLine ==
  /\ mcpStep = "read"
  /\ \E r \in Requests :
       IF r.kind = "empty" THEN UNCHANGED <<request, mcpStep>>
       ELSE /\ request' = r
            /\ mcpStep' = IF r.kind = "unreadable" THEN "stopped" ELSE "dispatch"
  /\ UNCHANGED <<clock, setBacks, window, count, waited, reply, admitted>>

EndOfInput ==
  /\ mcpStep = "read"
  /\ mcpStep' = "stopped"
  /\ UNCHANGED <<clock, setBacks, window, count, request, waited, reply, admitted>>

Answer(r) ==
  /\ reply' = r
  /\ mcpStep' = "reply"

\* handle_message and dispatch, tools/call left out.  "initialized" is answered
\* as well, though it is a notification.
Dispatch ==
  /\ mcpStep = "dispatch"
  /\ \/ request.kind = "garbage" /\ Answer(Failure("null", PARSE_ERROR))
     \/ /\ request.kind = "request"
        /\ \/ /\ request.method \in {"initialize", "initialized", "tools/list"}
              /\ Answer(Success(request.id, FALSE))
           \/ request.method = "other" /\ Answer(Failure(request.id, METHOD_NOT_FOUND))
  /\ UNCHANGED <<clock, setBacks, window, count, request, waited, admitted>>

\* handle_tools_call: the call is counted before its params are looked at.
CallTool ==
  /\ mcpStep = "dispatch" /\ request.kind = "request" /\ request.method = "tools/call"
  /\ LET check == McpCheck(clock, window, count)
         call  == request.params
     IN /\ window' = check.window
        /\ count' = Counted(check.count)
        /\ IF ~check.ok
           THEN Answer(Failure(request.id, RATE_LIMITED)) /\ UNCHANGED admitted
           ELSE /\ admitted' = [ticks \in 1 .. Minute + 1 |-> admitted[ticks] + 1]
                /\ IF call.tool = "invalid"
                   THEN Answer(Failure(request.id, INVALID_PARAMS))
                   ELSE IF call.tool \notin Tools \/ ~Usable(call)
                   THEN Answer(Success(request.id, TRUE))
                   ELSE mcpStep' = "tool" /\ UNCHANGED reply
  /\ UNCHANGED <<clock, setBacks, request, waited>>

\* A tool that asks no model.
ToolEnds ==
  /\ mcpStep = "tool"
  /\ \/ \E e \in Outcomes(request.params.tool) : Answer(Success(request.id, e))
     \/ \E c \in Asking(request.params.tool) : ~c.asks /\ Answer(Success(request.id, c.ends))
  /\ UNCHANGED <<clock, setBacks, window, count, request, waited, admitted>>

AskModel ==
  /\ mcpStep = "tool"
  /\ \E c \in Asking(request.params.tool) : c.asks
  /\ mcpStep' = "model"
  /\ waited' = 0
  /\ UNCHANGED <<clock, setBacks, window, count, request, reply, admitted>>

\* The model answers, or its call fails; or it does neither.
ModelEnds ==
  /\ mcpStep = "model"
  /\ \E failed \in BOOLEAN : Answer(Success(request.id, failed))
  /\ UNCHANGED <<clock, setBacks, window, count, request, waited, admitted>>

\* Slip: only a migration has a timeout.
McpTimeoutMigrations ==
  /\ mcpStep = "model" /\ waited >= MIGRATION_TIMEOUT
  /\ request.params.tool = "migrate_function"
  /\ Answer(Success(request.id, TRUE))
  /\ UNCHANGED <<clock, setBacks, window, count, request, waited, admitted>>

McpTimeout ==
  /\ mcpStep = "model" /\ waited >= MIGRATION_TIMEOUT
  /\ Answer(Success(request.id, TRUE))
  /\ UNCHANGED <<clock, setBacks, window, count, request, waited, admitted>>

\* The reply is written and flushed, and the next line can be read.  A client
\* that is gone ends the server.
WriteReply ==
  /\ mcpStep = "reply"
  /\ mcpStep' \in {"read", "stopped"}
  /\ request' = NoRequest /\ reply' = NoReply /\ waited' = 0
  /\ UNCHANGED <<clock, setBacks, window, count, admitted>>

\* Time passes.  At its bound the clock stays, but a timeout still comes.
Tick ==
  /\ clock < MaxClock \/ (mcpStep = "model" /\ waited < MIGRATION_TIMEOUT)
  /\ clock' = IF clock < MaxClock THEN clock + 1 ELSE clock
  /\ waited' = IF mcpStep = "model" /\ waited < MIGRATION_TIMEOUT THEN waited + 1 ELSE waited
  /\ admitted' = IF clock < MaxClock
                 THEN [ticks \in 1 .. Minute + 1 |-> IF ticks = 1 THEN 0 ELSE admitted[ticks - 1]]
                 ELSE admitted
  /\ UNCHANGED <<setBacks, window, count, request, mcpStep, reply>>

\* The system clock is set back.
SetBack ==
  /\ setBacks < MaxSetBacks
  /\ \E t \in Minute .. clock - 1 : clock' = t
  /\ setBacks' = setBacks + 1
  /\ UNCHANGED <<window, count, request, mcpStep, waited, reply, admitted>>

McpServes == Dispatch \/ CallTool \/ ToolEnds \/ AskModel \/ McpTimeout \/ WriteReply

McpNext == ReadLine \/ EndOfInput \/ McpServes \/ ModelEnds \/ Tick \/ SetBack

=============================================================================
