---------------------------- MODULE MCQueueBase ----------------------------
EXTENDS QueueBaseProps, TLC

ConsumerSymmetry == Permutations(Consumers)
=============================================================================
