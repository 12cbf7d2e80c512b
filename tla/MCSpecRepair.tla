---------------------------- MODULE MCSpecRepair ----------------------------
(***************************************************************************)
(* SpecRepair for TLC: two directories, one with two files of the same id, *)
(* a file with both gate keys and one that does not parse.                 *)
(***************************************************************************)
EXTENDS SpecRepair

Text(systems, negates, strict) ==
    [systems |-> systems, negates |-> negates, escapes |-> FALSE, strict |-> strict]

MCReads ==
    [twoStores |-> Text(<<"redis", "kafka">>, {}, TRUE),
     oneStore  |-> Text(<<"redis">>, {"kafka"}, FALSE),
     plain     |-> Text(<<>>, {}, FALSE),
     heading   |-> Text(<<>>, {}, FALSE),
     noKafka   |-> Text(<<"kafka">>, {"kafka"}, FALSE),
     clear     |-> Text(<<>>, {}, FALSE),
     muddled   |-> Text(<<"redis", "kafka">>, {}, FALSE)]

MCTexts == DOMAIN MCReads

File ==
    [parses |-> TRUE, id |-> "c1", title |-> "heading", severity |-> "Hard", threshold |-> {},
     checks |-> <<"twoStores", "oneStore">>, semantic |-> {{"exclusion"}},
     predicates |-> {}, numeric |-> {"numeric"}, guidance |-> {"noKafka"},
     hint |-> {"noKafka"}, examples |-> {"redis"}, tags |-> {"db"}, words |-> {"cache"}]

MCDirectories ==
    {<<File, [File EXCEPT !.checks = <<"plain">>],
       [File EXCEPT !.id = "c2", !.checks = <<"plain">>, !.semantic = {},
                    !.predicates = {[gate |-> "ordering", complete |-> TRUE]},
                    !.guidance = {}, !.hint = {}, !.examples = {}, !.tags = {"api"}]>>,
     <<[File EXCEPT !.parses = FALSE],
       [File EXCEPT !.predicates = {[gate |-> "presence", complete |-> FALSE]}],
       [File EXCEPT !.id = "c2", !.checks = <<>>, !.threshold = {80}],
       [File EXCEPT !.id = "c3", !.severity = "Soft", !.words = {"queue"}]>>}

MCRequests ==
    {[explicit |-> <<"c1", "c4", "c1">>, tags |-> {"api"}, query |-> {}],
     [explicit |-> <<>>, tags |-> {"db", "api"}, query |-> {"queue"}]}
=============================================================================
