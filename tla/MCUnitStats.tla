----------------------------- MODULE MCUnitStats -----------------------------
(***************************************************************************)
(* Values for model checking UnitStats: one device, two devices with words *)
(* that are skipped, and a line as old kernels print it for a device       *)
(* without numbers; settings with and without each group.                  *)
(***************************************************************************)
EXTENDS UnitStats

OneDevice == <<<<<<"rbytes", 1>>, <<"wbytes", 2>>, <<"rios", 1>>, <<"wios", 1>>>>>>
TwoDevices ==
  OneDevice \o <<<<<<"rbytes", 1>>, <<"rios", 1>>, <<"dbytes", 3>>>>>>
BareDevice == <<<<<<"7:6">>, <<"rbytes", 1>>>>>>

SomeFlags == {"io", "memory", "tasks"}
AllFlags == {"ip", "io", "cpu", "memory", "tasks"}
Settings == {SomeFlags, AllFlags}

AllFiles == UNION {ToSet(Files[g]) : g \in DOMAIN Files}

OldKernel == [files |-> AllFiles \ {"memory.peak", "memory.swap.peak"},
              iostats |-> {TwoDevices, BareDevice}]
NewKernel == [files |-> AllFiles, iostats |-> {TwoDevices}]

OnlyNew == {NewKernel}
OldAndNew == {OldKernel, NewKernel}

=============================================================================
