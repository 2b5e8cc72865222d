------------------------------- MODULE MCHSCmd -------------------------------
(* HSCmd for TLC: two execution counters, one monitored event, and command *)
(* counters that wrap after 2.                                             *)
EXTENDS HSCmd

Slot(name, nul, type) == [ResourceName |-> name, NullTerm |-> nul, ResourceType |-> type]

(* A device and a task; a type that is 1 in its lower 16 bits, one that is *)
(* 0 in them; a type and a name that validation rejects.                   *)
MCXCTables == {[i \in XCTIndex |-> image[i + 1]] : image \in
  { <<Slot("CFE_EVS", 0, HS_XCT_TYPE_DEVICE), Slot("CFE_ES", 0, HS_XCT_TYPE_APP_CHILD)>>,
    <<Slot("CFE_EVS", 0, 65536 + HS_XCT_TYPE_APP_MAIN), Slot("CFE_ES", 7, 65536)>>,
    <<Slot("CFE_EVS", 0, 5), Slot("CFE_ES", 0, HS_XCT_TYPE_ISR)>>,
    <<Slot("CFE_EVS", 0, HS_XCT_TYPE_ISR), Slot("CFE_ES", 7, HS_XCT_TYPE_ISR)>> }}

MCEMTables == {[e \in EMTIndex |-> [AppName |-> "CFE_ES", NullTerm |-> nul, EventID |-> 1,
                                    ActionType |-> HS_EMT_ACT_APP_RESTART]] : nul \in {0, 1}}
=============================================================================
