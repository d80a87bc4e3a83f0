---------------------------- MODULE MCSi468xLink ----------------------------
(* Instances of Si468xLink for TLC: the shapes come from Si468xApi. *)
EXTENDS Si468xLink, Si468xApi

\* One function of every shape that the library has.
MCFn == {"boot", "set_property", "get_property", "get_part_info",
         "get_sys_state", "dab_get_freq_list", "dab_set_freq_list",
         "dab_tune_freq", "dab_digrad_status", "fm_tune_freq",
         "dab_get_digital_service_list"}
MCApi == [f \in MCFn |-> Table[f]]

ASSUME ShapesAreShapes == \A f \in DOMAIN Table : Table[f] \in Shape
ASSUME AllShapesCovered ==
  \A f \in DOMAIN Table : \E g \in MCFn : Table[f] = Table[g]
=============================================================================
