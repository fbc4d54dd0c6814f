---------------------------- MODULE MCTestbench ----------------------------
(***************************************************************************)
(* Lists of tests that pass, fail and are skipped, at every place, and     *)
(* plug-ins in several orders.                                             *)
(***************************************************************************)
EXTENDS TestbenchProps

Ok(plugins)  == [plugins |-> plugins, fails |-> FALSE]
Bad(plugins) == [plugins |-> plugins, fails |-> TRUE]

Plain   == Ok(<<>>)
Traced  == Ok(<<"TRACE", "STAT">>)
Skipped == Ok(<<"DEBUG", "TRACE", "SKIP", "STAT">>)
Noisy   == Ok(<<"LOG", "STATUS">>)
Broken  == Bad(<<"TRACE", "DEBUG">>)
Unseen  == Bad(<<"LOG", "SKIP", "TRACE">>)
Twice   == Ok(<<"TRACE", "STAT", "TRACE">>)

MCSuites == {<<Traced, Skipped, Traced>>, <<Noisy, Plain, Broken>>,
             <<Broken, Traced, Plain>>, <<Plain, Plain, Plain, Plain>>,
             <<Broken, Broken>>, <<Plain, Broken, Plain>>, <<Plain>>, <<>>,
             <<Unseen, Plain>>, <<Traced, Twice>>}
=============================================================================
