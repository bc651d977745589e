----------------------------- MODULE MCLibrary -----------------------------
(***************************************************************************)
(* The parts of the program that keep a state of their own and share none   *)
(* with each other: the initial state chooses the part that is looked at,   *)
(* the others rest.  The other constants are in library.cfg.                *)
(***************************************************************************)
EXTENDS GsmTimeWalk, SignalFilter, BurstModem, Resampler, Convert, BitCodes,
        VectorMemory, PointerFifo, Interthread, ScopedLocks

VARIABLE part

libraryVars == <<part, vars, filter, modem, resampler, conversion, coding, vectorVars, listVars,
                 interVars, lockVars>>

Parts == {"time", "filter", "modem", "resampler", "conversion", "coding", "vectors", "fifo",
          "threads", "locks"}

LibraryInit ==
  /\ part \in Parts
  /\ Init
  /\ part # "time" => base = Time(0, 0)
  /\ FilterInit /\ ModemInit /\ ResamplerInit /\ ConvertInit /\ CodesInit
  /\ VectorInit /\ ListInit /\ InterInit /\ LocksInit

LibraryNext ==
  /\ UNCHANGED part
  /\ IF part = "time" THEN Next ELSE UNCHANGED vars
  /\ IF part = "filter" THEN FilterNext ELSE UNCHANGED filter
  /\ IF part = "modem" THEN ModemNext ELSE UNCHANGED modem
  /\ IF part = "resampler" THEN ResamplerNext ELSE UNCHANGED resampler
  /\ IF part = "conversion" THEN ConvertNext ELSE UNCHANGED conversion
  /\ IF part = "coding" THEN CodesNext ELSE UNCHANGED coding
  /\ IF part = "vectors" THEN VectorNext ELSE UNCHANGED vectorVars
  /\ IF part = "fifo" THEN ListNext ELSE UNCHANGED listVars
  /\ IF part = "threads" THEN InterNext ELSE UNCHANGED interVars
  /\ IF part = "locks" THEN LocksNext ELSE UNCHANGED lockVars

LibrarySpec == LibraryInit /\ [][LibraryNext]_libraryVars /\ InterFairness

-----------------------------------------------------------------------------
(* Values of the constants.                                                 *)

Use(real, aligned, h, x, y, span, start, len, step) ==
  [real |-> real, aligned |-> aligned, h_len |-> h, x_len |-> x, y_len |-> y,
   span |-> span, start |-> start, len |-> len, step |-> step]

\* Each kernel of convolve.c at its own length, with the three span types, a
\* given output, a step over symbols, and a span that leaves both ends.
MCFilterUses ==
  {Use(TRUE, FALSE, 1, 5, 0, "START_ONLY", 0, 0, 1),
   Use(FALSE, FALSE, 3, 5, 0, "CUSTOM", 0, 7, 1)}
  \cup {Use(TRUE, TRUE, h, h + 2, 0, "START_ONLY", 0, 0, 1) : h \in {4, 8, 16}}
  \cup {Use(TRUE, TRUE, h, h + 1, 2, "CUSTOM", h - 1, 2, 1) : h \in {12, 24}}
  \cup {Use(FALSE, TRUE, h, h + 1, 0, "NO_DELAY", 0, 0, 1) : h \in {12, 16}}
  \cup {Use(FALSE, TRUE, 16, 20, 3, "CUSTOM", start, 3, 4) : start \in {15, 17}}

MCDelays == {-23, -1, 0, 3}

MCRatios == {<<2, 3>>, <<3, 2>>}

MCOffsets == {-70, -3, 0}

\* Vectors with a bit or two set, of whole bytes and digits and of others.
MCPackWords ==
  UNION {{[i \in Indices(n) |-> IF i \in {j, k} THEN 1 ELSE 0] : j, k \in Indices(n)}
           : n \in {3, 4, 8, 12, 19, 24}} \cup Words(0)

\* x^3 + x + 1 and x^4 + x + 1, and x^3 + x, which has no constant term.
MCGenerators ==
  {[len |-> n, coeff |-> [i \in 0 .. n - 1 |-> IF i < 2 THEN 1 ELSE 0]] : n \in {3, 4}}
    \cup {[len |-> 3, coeff |-> [i \in 0 .. 2 |-> IF i = 1 THEN 1 ELSE 0]]}
=============================================================================
