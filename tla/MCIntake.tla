------------------------------- MODULE MCIntake -------------------------------
(* Bodies of up to four of the fields below, and those of the tester of BaseLinker.   *)
EXTENDS Intake

CONSTANTS good, bad, none, v, w, pack

MCIndex == [d \in {"0", "1"} |-> IF d = "0" THEN 0 ELSE 1]
MCSegments == {"0", "1", "id", "name", "products", "rows", "parameters", "password", "secret",
               "product_id", "product_id1", "product_id2", "product_idx"}
F(path, value) == [path |-> path, value |-> value]

MCPieces == {
    F(<<"products", "0", "id">>, v), F(<<"products", "1", "id">>, w),
    F(<<"products", "1", "name">>, v), F(<<"products", "1", "0">>, v),
    F(<<"products", "id">>, v), F(<<"products", "0">>, v), F(<<"products", "1">>, v), F(<<"products">>, v),
    F(<<"products">>, pack), F(<<"rows", "0", "id">>, v),
    F(<<"parameters", "id">>, w), F(<<"id">>, v), F(<<"parameters", "products", "0", "id">>, w),
    F(<<"password">>, good), F(<<"parameters", "password">>, bad),
    F(<<"product_id">>, v), F(<<"product_id1">>, v), F(<<"product_id2">>, w),
    F(<<"product_idx">>, v), F(<<"products", "0", "0">>, v), F(<<"product_id1", "id">>, v),
    F(<<"product_id2">>, none), F(<<"secret">>, none)}

MCExpanded == [x \in {pack} |->
    {F(<<"products", "0", "id">>, w), F(<<"products", "1", "id">>, v), F(<<"id">>, w)}]
MCSecretKeys == <<"secret", "password">>
MCPairs == {{f, g} : f, g \in MCPieces}
MCRequests == {fields \in {a \cup b : a, b \in MCPairs} : NoNameTwice(fields)}
=============================================================================
