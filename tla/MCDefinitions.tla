--------------------------- MODULE MCDefinitions ---------------------------
(***************************************************************************)
(* Instance of Definitions for TLC.  The first two packages claim the same *)
(* class; the second comes in a directory; the third claims a class of the *)
(* program's and names its manifest as its module; the fourth has its      *)
(* module outside of the directory.                                        *)
(***************************************************************************)
EXTENDS Definitions

CONSTANTS c1, c2

Package(files, tests, class, category, loads) ==
    [files |-> files, module |-> <<"module">>, tests |-> tests, class |-> class,
     category |-> category, loads |-> loads]
MCUpload == <<
    Package({<<"manifest">>, <<"module">>, <<"tests">>}, <<"tests">>, <<"PipelineDef", "Mine">>, "equity", TRUE),
    Package({<<"pkg", "manifest">>, <<"pkg", "module">>, <<"pkg", "tests">>, <<"readme">>},
            <<"tests">>, <<"PipelineDef", "Mine">>, "macro", TRUE),
    [Package({<<"manifest">>}, None, <<"StoreDef", "Parquet">>, "equity", FALSE) EXCEPT !.module = <<"manifest">>],
    Package({<<"pkg", "manifest">>, <<"module">>, <<"pkg", "tests">>}, None, <<"OpDef", "Lag">>, "macro", TRUE)>>

MCBuiltIn == {<<"StoreDef", "Parquet">>}

Setting(handlers, dialect, restarts, uploads, parts) ==
    [handlers |-> handlers, dialect |-> dialect, starts |-> restarts, uploads |-> uploads, parts |-> parts]
MCSettings ==
    {Setting({c1, c2}, "postgres", 1, {1, 2}, {}),
     Setting({c1}, "postgres", 2, {1, 2, 3}, {"skip"}), Setting({c1}, "sqlite", 2, {2, 3, 4}, {"skip"}),
     Setting({c1, c2}, "sqlite", 0, {1, 3}, {"skip", "list"})}
=============================================================================
