----------------------------- MODULE MCLogging ------------------------------
(***************************************************************************)
(* The two outputs a log can have.  With DefaultOutputFunc the statements  *)
(* are explored in detail and AsyncLogging is not there; after SetOutput   *)
(* with AsyncLogging::Append a statement is AppendLine, a line of some     *)
(* length, which LineShown keeps below the size of a buffer (the lengths   *)
(* of AsyncLogging are scaled down).                                       *)
(***************************************************************************)
EXTENDS Logging, AsyncLogging

VARIABLE g_output_func

\* The last two seconds of a leap day; a zone east of UTC is a day, a month ahead.
MCInstants == {951868798, 951868799}
MCZones == {NoZone, FixedZone(8 * 3600), FixedZone(-(5 * 3600 + 1800))}
MCStatements == {[level |-> kDebug, func |-> TRUE, errno |-> 0],
                 [level |-> kInfo, func |-> FALSE, errno |-> 0],
                 [level |-> kFatal, func |-> FALSE, errno |-> 11]}

\* Texts that leave no byte or one after the header, and that leave a number's room
\* before the line number or not; the extreme integers.
MCPieces == {Str("text", 3960), Str("text", 3888), Int32("int", -2147483647 - 1),
             Pointer("ptr", 0)}

\* SetOutput is called before the threads start.
SetOutput ==
  g_output_func \in {"DefaultOutputFunc", "AsyncLogging::Append"}

MCInit ==
  /\ Init /\ LoggingInit /\ SetOutput
  /\ clock = 951868798 /\ g_log_level # kTrace
  /\ g_output_func = "AsyncLogging::Append" => g_log_level = kInfo

ToStdout ==
  /\ g_output_func = "DefaultOutputFunc" /\ LoggingNext
  /\ UNCHANGED <<vars, g_output_func>>
ToAsync ==
  /\ g_output_func = "AsyncLogging::Append" /\ Next
  /\ UNCHANGED <<logvars, g_output_func>>

MCSpec ==
  /\ MCInit /\ [][ToStdout \/ ToAsync]_<<vars, logvars, g_output_func>>
  /\ WF_vars(BackEnd) /\ WF_vars(Owner)
=============================================================================
