-------------------------------- MODULE MCRsp --------------------------------
(***************************************************************************)
(* The models of the parts of the RSP in one specification: a behaviour is *)
(* one of the part in unit, while all others stay as they are reset.       *)
(***************************************************************************)
EXTENDS RspPipeline, RspThreads, RspVector, RspVectorMemory, RspScalar

CONSTANT ActiveUnits    \* the parts to look at

VARIABLE unit

unitVars == <<unit, rspVars, threadVars, dmaVars, vecVars, divVars, vmVars, scalarVars>>

Units == {"pipeline", "threads", "dma", "vector", "divide", "vectormemory", "scalar"}

ASSUME MCRspAssumption == ActiveUnits \subseteq Units

RspIdle ==
  /\ imem = [pc \in Pcs |-> "nop"]
  /\ rsp = [pipeline |-> rsp_pipeline_init, regs |-> [n \in 0 .. 2 |-> 0], mem |-> 0,
            status |-> {"HALT"}, intr |-> FALSE]
  /\ isa = IsaFrom(0, rsp)
VecIdle == vec = Case(<<"VABS">>, 0, 0, Unit(Cleared, FALSE)) /\ units = <<>>
VmIdle == vm = Before /\ vprog = <<Do("LTV", 0, 0, 0)>> /\ vran = vprog
ScalarIdle ==
  /\ scalar = Instr("ADDU", 0, 0, 0)
  /\ sgave = [done |-> FALSE, result |-> 0, pc |-> 0, mem |-> Memory]

UnitsInit ==
  /\ unit \in ActiveUnits
  /\ IF unit = "pipeline" THEN RspInit ELSE RspIdle
  /\ ThreadInit /\ DmaInit /\ DivInit
  /\ IF unit = "vector" THEN VecInit ELSE VecIdle
  /\ IF unit = "vectormemory" THEN VmInit ELSE VmIdle
  /\ IF unit = "scalar" THEN ScalarInit ELSE ScalarIdle

UnitsNext ==
  /\ UNCHANGED unit
  /\ \/ /\ unit = "pipeline" /\ RspNext
        /\ UNCHANGED <<threadVars, dmaVars, vecVars, divVars, vmVars, scalarVars>>
     \/ /\ unit = "threads" /\ ThreadNext
        /\ UNCHANGED <<rspVars, dmaVars, vecVars, divVars, vmVars, scalarVars>>
     \/ /\ unit = "dma" /\ DmaNext
        /\ UNCHANGED <<rspVars, threadVars, vecVars, divVars, vmVars, scalarVars>>
     \/ /\ unit = "vector" /\ VecStep
        /\ UNCHANGED <<rspVars, threadVars, dmaVars, divVars, vmVars, scalarVars>>
     \/ /\ unit = "divide" /\ DivNext
        /\ UNCHANGED <<rspVars, threadVars, dmaVars, vecVars, vmVars, scalarVars>>
     \/ /\ unit = "vectormemory" /\ VmStep
        /\ UNCHANGED <<rspVars, threadVars, dmaVars, vecVars, divVars, scalarVars>>
     \/ /\ unit = "scalar" /\ ScalarNext
        /\ UNCHANGED <<rspVars, threadVars, dmaVars, vecVars, divVars, vmVars>>

UnitsSpec == UnitsInit /\ [][UnitsNext]_unitVars

-----------------------------------------------------------------------------
\* What the vector unit computes, divides, loads, stores and moves.
VectorRight ==
  /\ AccumulatorExact /\ ResultClamped /\ SumsSaturate /\ PairsExact /\ ClipsExact /\ ClipsSingle
  /\ FetchedRight
  /\ BytesRight /\ UnalignedWhole /\ ComesBack /\ Transposes /\ MovesBack

-----------------------------------------------------------------------------
(***************************************************************************)
(* A scale on which every part takes seconds.                              *)
(***************************************************************************)

\* SIG0 is set by the CPU and cleared by the RSP; SIG1 the other way round.
MCCpuWrites ==
  {Clr({"HALT", "BROKE", "INTR"}), Set({"SIG0", "INTR_BREAK"}), Clr({"SIG1", "INTR"})}
MCRspWrites == {Set({"HALT", "BROKE"}), Clr({"SIG0"}), Set({"SIG1", "INTR"})}

\* Stores that do not reach past the end of DMEM.
MCStores == {<<0, 4>>, <<13, 1>>, <<15, 1>>, <<14, 2>>}

\* And two that do: an address at the end of DMEM is not aligned.
MCStoresPastEnd == {<<14, 4>>, <<15, 2>>}
==============================================================================
