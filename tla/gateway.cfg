SPECIFICATION GatewaySpec
INVARIANTS RefusalLeavesNothing ChosenIsAnswered SuccessMeansDone ChangesAreEntitled
