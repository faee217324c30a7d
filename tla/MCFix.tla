-------------------------------- MODULE MCFix --------------------------------
(***************************************************************************)
(* Small trees: values in several lines and quotes, beside each other and  *)
(* where the detector does not find them, bare ones, a file of a kind that *)
(* is not rewritten, and files that import, lack or only mention a module. *)
(***************************************************************************)
EXTENDS Fix

MCFiles   == <<"main.go", "app.py">>

\* An access key is found wherever it is quoted, another value by the name before it.
MCSecrets == {"aws", "generic"}

At(secret, quote)   == [secret |-> secret, quote |-> quote, recognized |-> TRUE]
Unnamed(quote)      == [secret |-> "generic", quote |-> quote, recognized |-> FALSE]
Has(kind, i, lines) == [kind |-> kind, imports |-> i, lines |-> lines]

Missing   == [imported |-> FALSE, mentioned |-> FALSE, place |-> "read"]
There     == [imported |-> TRUE, mentioned |-> TRUE, place |-> "read"]
Mentioned == [imported |-> FALSE, mentioned |-> TRUE, place |-> "read"]
NoPlace   == [imported |-> FALSE, mentioned |-> FALSE, place |-> "unread"]

Pair(go, py) == [f \in ToSet(MCFiles) |-> IF f = "main.go" THEN go ELSE py]

MCTrees ==
  { \* one value to a line, in either kind of quotes
    Pair(Has("go", Missing, << <<At("aws", "double")>>, <<At("generic", "single")>>,
                               <<At("aws", "single")>> >>),
         Has("py", There, << <<>> >>)),
    \* a line with two values, and one that is found second and not first
    Pair(Has("go", There, << <<At("aws", "double"), At("generic", "double")>> >>),
         Has("py", Missing, << <<Unnamed("single")>>, <<At("generic", "single")>> >>)),
    \* the text of an import that is none, and a value without quotes
    Pair(Has("go", Mentioned, << <<At("aws", "double")>>, <<At("aws", "bare")>> >>),
         Has("other", NoImports, << <<At("generic", "double")>> >>)),
    \* an import that is not read, and a language that needs none
    Pair(Has("go", NoPlace, << <<At("aws", "double"), At("aws", "double")>> >>),
         Has("js", NoImports, << <<At("generic", "double")>> >>)) }

\* Positions in and out of the files, with and without a secret.
MCReports ==
  { <<[file |-> "main.go", line |-> 1], [file |-> "app.py", line |-> 1]>>,
    <<[file |-> "main.go", line |-> 4]>> }

\* Every way to invoke it.
AllModes == Mode
=============================================================================
