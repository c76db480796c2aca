----------------------------- MODULE MCPlatform -----------------------------
(***************************************************************************)
(* The parts of the library around the operating system, one at a time:    *)
(* subject says which one a behaviour is about, the others stay in one of  *)
(* their initial states.                                                   *)
(***************************************************************************)
EXTENDS RandomSource, DynamicModules, Codecs, PluginPackage, AddressRange, ThreadObject,
        TextCalls, WindowsService

VARIABLE subject

\* Objects of api.hpp: two that share a library, one that tries two libraries,
\* and one that cannot do without a function of the first of those.
MCDllNames == [PsAPI |-> <<"kernel32", "psapi">>, Kernel32 |-> <<"kernel32">>,
               IPv4 |-> <<"iphlpapi">>, IPv6 |-> <<"iphlpapi">>]
MCRequired == [PsAPI |-> {}, Kernel32 |-> {"GetModuleFileNameA"}, IPv4 |-> {}, IPv6 |-> {}]
MCOptional == [PsAPI |-> {"GetModuleFileNameExA"}, Kernel32 |-> {},
               IPv4 |-> {"GetIpForwardTable"}, IPv6 |-> {"GetIpForwardTable"}]
MCLoadOrder == <<"IPv4", "IPv6", "PsAPI", "Kernel32">>

\* Both sides of every change of length, and values beyond what can be encoded.
MCValues == (-1 .. 34) \cup {63, 64, 65, 127, 128, 129, 255, 256, 257, 4095, 4096}

\* Negative, zero, ordinary, and a multiple of the word.
MCNumbers == {-1, 0, 3, 8}

\* Addresses of four bits: the sizes of the networks of every mask.
MCHostCount == [mask \in 0 .. 4 |-> 2^(4 - mask)]

\* Delimiters of one and two characters, one that overlaps itself, and none.
MCStrings == {<<>>, <<"a">>, <<"a", "a">>, <<"a", "b">>}

mcVars ==
  <<subject, rngVars, moduleVars, codecVars, packageVars, rangeVars, threadVars, textVars,
    vars>>

MCInit ==
  /\ subject \in {"rng", "modules", "codecs", "packages", "addresses", "threads", "texts",
                 "service"}
  /\ RngInit
  /\ IF subject = "modules" THEN ModulesInit
     ELSE ModulesInit /\ \A d \in Dll : exports[d] = {}
  /\ CodecInit /\ RangeInit /\ ThreadInit /\ TextInit /\ Init
  /\ subject # "texts" => form = "hex"
  /\ subject # "rng" => platform = "bsd"
  /\ subject # "codecs" => codec = "length" /\ wire = <<>>
  /\ IF subject = "packages" THEN PackageInit
     ELSE /\ file = [size |-> 0, magic |-> FALSE, cfg_offset |-> 0, cfg_size |-> 0,
                     json |-> FALSE, number |-> 0, intact |-> FALSE]
          /\ package = NoPackage /\ runtime = NoRuntime

MCNext ==
  /\ UNCHANGED subject
  /\ \/ /\ subject = "rng" /\ RngNext
        /\ UNCHANGED <<moduleVars, codecVars, packageVars, rangeVars, threadVars, textVars, vars>>
     \/ /\ subject = "modules" /\ ModulesNext
        /\ UNCHANGED <<rngVars, codecVars, packageVars, rangeVars, threadVars, textVars, vars>>
     \/ /\ subject = "codecs" /\ CodecNext
        /\ UNCHANGED <<rngVars, moduleVars, packageVars, rangeVars, threadVars, textVars, vars>>
     \/ /\ subject = "packages" /\ PackageNext
        /\ UNCHANGED <<rngVars, moduleVars, codecVars, rangeVars, threadVars, textVars, vars>>
     \/ /\ subject = "addresses" /\ RangeNext
        /\ UNCHANGED <<rngVars, moduleVars, codecVars, packageVars, threadVars, textVars, vars>>
     \/ /\ subject = "threads" /\ ThreadNext
        /\ UNCHANGED <<rngVars, moduleVars, codecVars, packageVars, rangeVars, textVars, vars>>
     \/ /\ subject = "texts" /\ TextNext
        /\ UNCHANGED <<rngVars, moduleVars, codecVars, packageVars, rangeVars, threadVars, vars>>
     \/ /\ subject = "service" /\ Next
        /\ UNCHANGED <<rngVars, moduleVars, codecVars, packageVars, rangeVars, threadVars, textVars>>

MCSpec == MCInit /\ [][MCNext]_mcVars /\ RngFairness /\ Fairness

=============================================================================
