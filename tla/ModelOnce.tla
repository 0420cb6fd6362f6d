----------------------------- MODULE ModelOnce ------------------------------
(***************************************************************************)
(* What the NER model manager promises to detections ("after LoadModel()   *)
(* publishes NERStatus::LOADED, tokenizer_ and compiled_model_ are treated *)
(* as immutable", class comment of NERModelManager): one model is          *)
(* published at most once per process, whole, and every inference runs on  *)
(* that one model.                                                         *)
(***************************************************************************)
CONSTANTS Threads, Whole, None

VARIABLES
    published,   \* the model in force, or None
    serving      \* the model each thread's inference runs on, or None

Init == published = None /\ serving = [t \in Threads |-> None]

Publish == published = None /\ published' \in Whole /\ UNCHANGED serving

BeginInference(t) ==
    /\ published # None /\ serving[t] = None
    /\ serving' = [serving EXCEPT ![t] = published]
    /\ UNCHANGED published

EndInference(t) ==
    /\ serving[t] # None
    /\ serving' = [serving EXCEPT ![t] = None]
    /\ UNCHANGED published

Next == Publish \/ \E t \in Threads : BeginInference(t) \/ EndInference(t)

Spec == Init /\ [][Next]_<<published, serving>>
=============================================================================
