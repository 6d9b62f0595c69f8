--------------------------- MODULE MCStateRouting ---------------------------
(***************************************************************************)
(* The exported graphs of docs/design.md:51-68, and every graph one edit   *)
(* away from them: two tensors exchanged, one missing, one too many, or    *)
(* the feature not produced by the final node.                             *)
(***************************************************************************)
EXTENDS StateRouting

MCBackends == {"driver_cubin", "tensorrt", "onnxruntime", "libtorch"}
MCTypes == {"image", "feature", "q", "z", "y"}
MCNames == {"x", "x_hat", "ref_feature", "feature", "q_index_shifted",
            "z_raw", "y_raw_0", "y_raw_1", "extra"}

MCExported ==
  [encoder |->
     [inputs |-> <<T("x", "image"), T("ref_feature", "feature"),
                   T("q_index_shifted", "q")>>,
      outputs |-> <<T("feature", "feature"), T("z_raw", "z"),
                    T("y_raw_0", "y"), T("y_raw_1", "y")>>,
      last |-> {"feature"}],
   decoder |->
     [inputs |-> <<T("z_raw", "z"), T("y_raw_0", "y"), T("y_raw_1", "y"),
                   T("ref_feature", "feature"), T("q_index_shifted", "q")>>,
      outputs |-> <<T("x_hat", "image"), T("feature", "feature")>>,
      last |-> {"feature"}]]

Edits(s) ==
  {s, Append(s, T("extra", "q"))}
      \cup {RemoveAt(s, i) : i \in 1..Len(s)}
      \cup {[s EXCEPT ![i] = s[j], ![j] = s[i]] : i \in 1..Len(s), j \in 1..Len(s)}

MCGraphs ==
  [d \in {"encoder", "decoder"} |->
     [inputs : Edits(MCExported[d].inputs), outputs : Edits(MCExported[d].outputs),
      last : {{"feature"}, {"x_hat"}}]]
=============================================================================
