------------------------- MODULE MCTrainingScript -------------------------
(* TrainingScript for TLC: a hyperparameter the script has a default for and one
   it has not.                                                               *)
EXTENDS TrainingScript, TLC

MCKeys     == <<"epochs", "warmup">>
MCUpper    == "epochs" :> "EPOCHS" @@ "warmup" :> "WARMUP"
MCDefaults == "EPOCHS" :> 1 @@ "MAX_LENGTH" :> 1
MCCommon   == <<"EPOCHS">>
=============================================================================
