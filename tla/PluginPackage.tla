--------------------------- MODULE PluginPackage ----------------------------
(***************************************************************************)
(* Loading a plugin package (plugins.hpp): a file is the program, its      *)
(* configuration, a trailer that says where the configuration is, and a    *)
(* signature of all of it.  Offsets are numbers of one Word (32 bits) and  *)
(* the size_t they are added in may be as narrow.  The signature is        *)
(* symbolic: it verifies for a file nobody changed after it was signed.    *)
(***************************************************************************)
EXTENDS Integers

CONSTANTS
  Word,          \* numbers of a Word are below this
  SizeT,         \* numbers of a size_t are below this
  TrailerSize, SignatureSize,
  MaxFile,       \* longest file
  Numbers,       \* what interval_seconds may be in the JSON text
  DefaultInterval

ASSUME PackageAssumption ==
  /\ {Word, SizeT, TrailerSize, SignatureSize, MaxFile} \subseteq Nat \ {0}
  /\ Word <= SizeT /\ MaxFile < SizeT /\ DefaultInterval \in 1 .. Word - 1
  /\ Numbers \subseteq Int

VARIABLES
  file,      \* its size, its trailer, its configuration, whether it is as it was signed
  package,   \* the result of LoadPackageConfig
  runtime    \* the result of ParseRuntimeConfig

packageVars == <<file, package, runtime>>

Files == [size : 0 .. MaxFile, magic : BOOLEAN,
          cfg_offset : 0 .. Word - 1, cfg_size : 0 .. Word - 1,
          json : BOOLEAN, number : Numbers, intact : BOOLEAN]

NoPackage == [ok |-> FALSE, from |-> 0, to |-> 0]
NoRuntime == [ok |-> FALSE, intervalSeconds |-> 0]

PackageInit == file \in Files /\ package = NoPackage /\ runtime = NoRuntime

SignatureOffset == file.size - SignatureSize
TrailerOffset == SignatureOffset - TrailerSize

\* naion_sign_ed25519_verify_detached over everything before the signature.
Verified == file.intact

\* Mutant: only the sum is compared with the trailer's position.
TrailerAcceptedBySum ==
  /\ file.size > TrailerSize + SignatureSize
  /\ file.magic
  /\ file.cfg_size # 0
  /\ (file.cfg_offset + file.cfg_size) % SizeT = TrailerOffset

TrailerAccepted ==
  /\ file.size > TrailerSize + SignatureSize
  /\ file.magic
  /\ file.cfg_offset < TrailerOffset
  /\ file.cfg_size # 0
  /\ (file.cfg_offset + file.cfg_size) % SizeT = TrailerOffset

LoadPackageConfig ==
  /\ package' = IF TrailerAccepted /\ Verified /\ file.json
                THEN [ok |-> TRUE, from |-> file.cfg_offset,
                      to |-> file.cfg_offset + file.cfg_size]
                ELSE NoPackage
  /\ UNCHANGED <<file, runtime>>

\* A number of the text becomes a uint32_t; 0 then means the default.
ParseRuntimeConfig ==
  LET n == file.number % Word
  IN  /\ package.ok
      /\ runtime' = [ok |-> TRUE,
                     intervalSeconds |-> IF n = 0 THEN DefaultInterval ELSE n]
      /\ UNCHANGED <<file, package>>

PackageNext == LoadPackageConfig \/ ParseRuntimeConfig

PackageSpec == PackageInit /\ [][PackageNext]_packageVars

-----------------------------------------------------------------------------
(***************************************************************************)
(* The configuration a load returns lies between the program and the       *)
(* trailer, is not empty and ends where the trailer begins, even where the *)
(* two 32-bit numbers are added in a size_t that wraps; it comes from a    *)
(* file nobody changed after it was signed; and no number in it makes the  *)
(* plugin run at an interval of zero.                                      *)
(***************************************************************************)
PackageSound ==
  /\ package.ok => /\ file.intact
                   /\ 0 <= package.from /\ package.from < package.to
                   /\ package.to + TrailerSize + SignatureSize = file.size
  /\ runtime.ok => package.ok /\ runtime.intervalSeconds > 0

=============================================================================
