CONSTANTS
    Realizer = {r1, r2}
    Tensor <- TensorNames
    FirstGraph <- Tensors
    Tasks <- SharedPlaceholder
    Inputs = {1}
    Identity = {1, 2, 3, 4}
    Storage = {1, 2, 3, 4, 5}
    Const = 0
    NoStore = 99
    NoStorage = 98
SPECIFICATION RegistrySpec
CHECK_DEADLOCK FALSE
INVARIANT OneStoragePerIdentity
