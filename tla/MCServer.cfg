SPECIFICATION MCSpec
CONSTANTS
    Components = {"startup", "device", "image", "logits"}
    Files <- MCFiles
    UserLayout <- MCUserLayout
    Layouts <- MCLayouts
    Width = 3
    Height = 2
    Channels = 1
    PixelValues = {0, 1, 2, 128, 255}
    Area = 2
    Features = 2
    OutputValues <- MCOutputs
    WeightValues <- MCWeights
    BiasValues = {0, 1}
    class_count = 3
    Divisors = {1, 2}
    IntMax = 15
INVARIANTS
    AllOrNothing
    ResultIsOwn
    DeviceIsShared
    ClassificationIsExact
CHECK_DEADLOCK FALSE
