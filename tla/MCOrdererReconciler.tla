------------------------ MODULE MCOrdererReconciler ------------------------
(* NodeReconciler for a FabricOrderer, whose controller takes the same steps *)
(* as the peer's, with a third Secret: the genesis block.  What is compared  *)
(* is what the orderer's builders render.                                    *)
EXTENDS NodeRefinement

Builders == INSTANCE NodeObjects

OrdererSecrets == <<"cacerts", "tlscacerts", "genesis">>

OrdererSpec(image, genesis) ==
    [ kind     |-> "orderer",
      replicas |-> 1,
      images   |-> [c \in Builders!Containers("orderer") |-> image],
      limits   |-> [c \in Builders!Containers("orderer") |-> "unset"],
      certs    |-> [s \in Builders!CertSecrets |-> <<"c1">>],
      genesis  |-> genesis ]

OrdererSpecs ==
    { Builders!Rendered(OrdererSpec("i1", "g1")),
      Builders!Rendered(OrdererSpec("i2", "g1")),
      Builders!Rendered(OrdererSpec("i3", "garbled")) }

LaggingGenesis == {"sts", "genesis"}
=============================================================================
